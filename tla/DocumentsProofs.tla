------------------------------ MODULE DocumentsProofs ------------------------------
(***************************************************************************)
(* Proofs about a document, for any subjects, any replies of a model and   *)
(* any number of attempts.                                                 *)
(*                                                                         *)
(* DocumentsInv says what is known of a document at each stage: the blocks *)
(* of a snapshot are runs of the source a reader sees and carry the ids    *)
(* their contents give them; a kept recipe is supported by the snapshot it *)
(* was normalized from; a plan, and what is shown, are those of the        *)
(* recipe.  DeclaredInv adds what a page declared: several recipes are     *)
(* refused, and a kept payload is the page's own.  Each property is about  *)
(* one stage and follows from these and from what the operators it names   *)
(* compute, which is where the work is:                                    *)
(* joining lists, picking from them and counting in them come first, then  *)
(* a chapter for each property.                                            *)
(***************************************************************************)
EXTENDS Documents, FiniteSetTheorems, SequenceTheorems, TLAPS

-------------------------------------------------------------------------------
(* Lists: what they are, and what joining them and picking from them keeps, *)
(* counts and orders.                                                      *)

(* A list is a function on its places, as many as it is long. *)
LEMMA ListFacts ==
    ASSUME NEW s, IsList(s)
    PROVE  /\ Len(s) \in Nat
           /\ DOMAIN s = 1..Len(s)
           /\ s = [i \in 1..Len(s) |-> s[i]]
           /\ (s = <<>>) <=> (Len(s) = 0)
BY LenProperties, EmptySeq DEF IsList

(* A function on the places up to n is a list of n. *)
LEMMA AFunctionIsAList ==
    ASSUME NEW n \in Nat, NEW s, s = [i \in 1..n |-> s[i]]
    PROVE  IsList(s) /\ Len(s) = n /\ DOMAIN s = 1..n
BY SeqDef, LenProperties DEF ToSet, IsList

(* A sequence of the standard module is a list. *)
LEMMA SeqIsList ==
    ASSUME NEW S, NEW s \in Seq(S)
    PROVE  IsList(s)
BY LenProperties, AFunctionIsAList

(* Lists are equal when they are as long and equal place by place. *)
LEMMA ListEqual ==
    ASSUME NEW s, NEW t, IsList(s), IsList(t), Len(s) = Len(t), \A i \in 1..Len(s) : s[i] = t[i]
    PROVE  s = t
BY ListFacts

(* One list behind another. *)
LEMMA Concat ==
    ASSUME NEW s, NEW t, IsList(s), IsList(t)
    PROVE  /\ IsList(s \o t)
           /\ Len(s \o t) = Len(s) + Len(t)
           /\ DOMAIN (s \o t) = 1..Len(s) + Len(t)
           /\ \A i \in 1..Len(s) : (s \o t)[i] = s[i]
           /\ \A i \in 1..Len(t) : (s \o t)[Len(s) + i] = t[i]
           /\ \A i \in Len(s) + 1..Len(s) + Len(t) : (s \o t)[i] = t[i - Len(s)]
<1> DEFINE S == ToSet(s) \cup ToSet(t)
<1>1. s \in Seq(S) BY SeqMonotonic DEF IsList
<1>2. t \in Seq(S) BY SeqMonotonic DEF IsList
<1> HIDE DEF S
<1>3. /\ s \o t \in Seq(S)
      /\ Len(s \o t) = Len(s) + Len(t)
      /\ \A i \in 1 .. Len(s) + Len(t) : (s \o t)[i] = IF i <= Len(s) THEN s[i] ELSE t[i - Len(s)]
  BY <1>1, <1>2, ConcatProperties
<1>4. Len(s) \in Nat /\ Len(t) \in Nat BY ListFacts
<1>5. \A i \in 1..Len(s) : (s \o t)[i] = s[i] BY <1>3, <1>4
<1>6. \A i \in 1..Len(t) : (s \o t)[Len(s) + i] = t[i] BY <1>3, <1>4
<1>7. \A i \in Len(s) + 1..Len(s) + Len(t) : (s \o t)[i] = t[i - Len(s)] BY <1>3, <1>4
<1>8. QED BY <1>3, <1>5, <1>6, <1>7, ListFacts, SeqIsList

(* What holds of none, and of one more wherever it holds, holds of all. *)
LEMMA Stepwise ==
    ASSUME NEW n \in Nat, NEW S, 0 \in S, \A m \in 0..n - 1 : m \in S => m + 1 \in S
    PROVE  \A m \in 0..n : m \in S
<1> DEFINE less == {ss \in Nat \X Nat : ss[1] < ss[2]}
           bad == {m \in 0..n : m \notin S}
<1>1. IsWellFoundedOn(less, Nat) BY NatLessThanWellFounded DEF OpToRel
<1>2. \A a, b \in Nat : a < b => <<a, b>> \in less OBVIOUS
<1> HIDE DEF less
<1>3. SUFFICES ASSUME bad # {} PROVE FALSE OBVIOUS
<1>4. bad \subseteq Nat OBVIOUS
<1>5. PICK m \in bad : \A k \in bad : ~ (<<k, m>> \in less)
  <2> HIDE DEF bad
  <2> QED BY <1>1, <1>3, <1>4, WFMin
<1>6. m \in Nat /\ m # 0 /\ m <= n OBVIOUS
<1>7. m - 1 \in S
  <2>1. m - 1 \in Nat /\ m - 1 < m BY <1>6
  <2>2. m - 1 \notin bad
    <3> HIDE DEF bad
    <3> QED BY <1>2, <1>5, <1>6, <2>1
  <2>3. QED BY <2>1, <2>2, <1>6
<1>8. m \in S BY <1>6, <1>7
<1>9. QED BY <1>8

(* A list of lists. *)
ListsIn(ss) == IsList(ss) /\ \A i \in DOMAIN ss : IsList(ss[i])

(* Lists joined are joined one by one, each behind those before it. *)
LEMMA JoinedOneByOne ==
    ASSUME NEW ss, ListsIn(ss)
    PROVE  \E g : /\ g[0] = <<>>
                  /\ \A m \in 1..Len(ss) : g[m] = g[m - 1] \o ss[m]
                  /\ \A m \in 0..Len(ss) : IsList(g[m])
                  /\ FlattenSeq(ss) = g[Len(ss)]
<1> DEFINE n == Len(ss)
           Join(f, i) == IF i = 1 THEN ss[i] ELSE f[i - 1] \o ss[i]
           reach == {m \in 0..n : \E f : f = [i \in 1..m |-> Join(f, i)]}
           flatten == CHOOSE f : f = [i \in 1..n |-> Join(f, i)]
           g == [m \in 0..n |-> IF m = 0 THEN <<>> ELSE flatten[m]]
<1>1. n \in Nat /\ DOMAIN ss = 1..n /\ (n = 0 => ss = <<>>) BY ListFacts DEF ListsIn
<1>2. IsList(<<>>) BY EmptySeq, SeqIsList
<1>3. 0 \in reach
  <2> DEFINE e == [i \in 1..0 |-> <<>>]
  <2>1. e = [i \in 1..0 |-> Join(e, i)] OBVIOUS
  <2>2. 0 \in 0..n BY <1>1
  <2> HIDE DEF e, Join
  <2>3. QED BY <2>1, <2>2
<1>4. ASSUME NEW m \in 0..n - 1, m \in reach PROVE m + 1 \in reach
  <2>1. PICK f : f = [i \in 1..m |-> Join(f, i)] BY <1>4
  <2> DEFINE h == [i \in 1..m + 1 |-> IF i <= m THEN f[i] ELSE Join(f, i)]
  <2>2. ASSUME NEW i \in 1..m + 1 PROVE h[i] = Join(h, i)
    <3>1. i # 1 => h[i - 1] = f[i - 1] BY <1>1
    <3>2. CASE i <= m
      <4>1. f[i] = Join(f, i)
        <5> HIDE DEF Join
        <5>1. i \in 1..m BY <3>2
        <5>2. QED BY <2>1, <5>1
      <4>2. QED BY <3>1, <3>2, <4>1
    <3>3. CASE ~(i <= m) BY <3>1, <3>3
    <3>4. QED BY <3>2, <3>3
  <2>3. DOMAIN h = 1..m + 1 /\ h = [i \in 1..m + 1 |-> h[i]] OBVIOUS
  <2> HIDE DEF h
  <2>4. h = [i \in 1..m + 1 |-> Join(h, i)] BY <2>2, <2>3
  <2>5. m + 1 \in 0..n BY <1>1
  <2>6. QED BY <2>4, <2>5
<1>5. n \in reach
  <2> HIDE DEF reach
  <2>1. \A m \in 0..n : m \in reach BY <1>1, <1>3, <1>4, Stepwise
  <2>2. QED BY <1>1, <2>1
<1>6. flatten = [i \in 1..n |-> Join(flatten, i)] BY <1>5
<1>7. FlattenSeq(ss) = g[n] BY <1>1 DEF FlattenSeq
<1>8. ASSUME NEW m \in 1..n PROVE g[m] = g[m - 1] \o ss[m]
  <2>1. flatten[m] = Join(flatten, m)
    <3> HIDE DEF flatten
    <3> QED BY <1>6
  <2>2. CASE m = 1
    <3>1. g[m] = ss[1] /\ g[m - 1] = <<>>
      <4> HIDE DEF flatten
      <4> QED BY <2>1, <2>2, <1>1
    <3>2. QED BY <1>1, <2>2, <3>1, ConcatEmptySeq DEF IsList, ListsIn
  <2>3. CASE m # 1
    <3> HIDE DEF flatten
    <3> QED BY <2>1, <2>3, <1>1
  <2>4. QED BY <2>2, <2>3
<1>9. \A m \in 0..n : IsList(g[m])
  <2> DEFINE S == {m \in 0..n : IsList(g[m])}
  <2>1. 0 \in S BY <1>1, <1>2
  <2>2. ASSUME NEW m \in 0..n - 1, m \in S PROVE m + 1 \in S
    <3>1. m + 1 \in 1..n BY <1>1
    <3>2. g[m + 1] = g[m] \o ss[m + 1]
      <4> HIDE DEF g
      <4>1. (m + 1) - 1 = m OBVIOUS
      <4>2. QED BY <1>8, <3>1, <4>1
    <3>3. IsList(g[m + 1])
      <4> HIDE DEF g
      <4> QED BY <1>1, <2>2, <3>1, <3>2, Concat DEF ListsIn
    <3>4. QED BY <3>1, <3>3
  <2> HIDE DEF S
  <2>3. QED BY <1>1, <2>1, <2>2, Stepwise DEF S
<1>10. g[0] = <<>> BY <1>1
<1> HIDE DEF g
<1>11. QED BY <1>7, <1>8, <1>9, <1>10

(* Where each element of lists joined together comes from: the place of its *)
(* list and its place in it.                                                *)
PlacesOf(ss) == FlattenSeq([i \in DOMAIN ss |-> [j \in DOMAIN ss[i] |-> <<i, j>>]])

(* flat joins the first m lists of ss, its elements coming from the places at. *)
JoinedAs(flat, at, ss, m) ==
    /\ Len(flat) = Len(at)
    /\ \A k \in 1..Len(at) :
           /\ at[k] = <<at[k][1], at[k][2]>>
           /\ at[k][1] \in 1..m /\ at[k][2] \in 1..Len(ss[at[k][1]])
           /\ flat[k] = ss[at[k][1]][at[k][2]]
    /\ \A i \in 1..m : \A j \in 1..Len(ss[i]) : \E k \in 1..Len(at) : at[k] = <<i, j>>
    /\ \A j, k \in 1..Len(at) : j < k =>
           \/ at[j][1] < at[k][1]
           \/ at[j][1] = at[k][1] /\ at[j][2] < at[k][2]

(* What FlattenSeq gives: every element once, in order. *)
LEMMA FlatIs ==
    ASSUME NEW ss, ListsIn(ss)
    PROVE  /\ IsList(PlacesOf(ss)) /\ Len(PlacesOf(ss)) \in Nat
           /\ IsList(FlattenSeq(ss))
           /\ JoinedAs(FlattenSeq(ss), PlacesOf(ss), ss, Len(ss))
<1> DEFINE n == Len(ss)
           pp == [i \in DOMAIN ss |-> [j \in DOMAIN ss[i] |-> <<i, j>>]]
<1>1. n \in Nat /\ DOMAIN ss = 1..n /\ IsList(ss) BY ListFacts DEF ListsIn
<1>2. \A i \in 1..n : IsList(ss[i]) /\ Len(ss[i]) \in Nat /\ DOMAIN ss[i] = 1..Len(ss[i])
  BY <1>1, ListFacts DEF ListsIn
<1>3. IsList(pp) /\ Len(pp) = n /\ DOMAIN pp = 1..n
  <2>1. pp = [i \in 1..n |-> pp[i]] BY <1>1
  <2> HIDE DEF pp
  <2>2. QED BY <1>1, <2>1, AFunctionIsAList
<1>4. ASSUME NEW i \in 1..n
      PROVE IsList(pp[i]) /\ Len(pp[i]) = Len(ss[i]) /\ \A j \in 1..Len(ss[i]) : pp[i][j] = <<i, j>>
  <2>1. pp[i] = [j \in 1..Len(ss[i]) |-> <<i, j>>] BY <1>1, <1>2
  <2> HIDE DEF pp
  <2>2. QED BY <1>2, <2>1, AFunctionIsAList
<1>5. ListsIn(pp)
  <2> HIDE DEF pp
  <2> QED BY <1>3, <1>4 DEF ListsIn
<1>6. PlacesOf(ss) = FlattenSeq(pp) BY DEF PlacesOf
<1>7. PICK g : /\ g[0] = <<>> /\ \A m \in 1..n : g[m] = g[m - 1] \o ss[m]
               /\ \A m \in 0..n : IsList(g[m])
               /\ FlattenSeq(ss) = g[n]
  BY JoinedOneByOne
<1> HIDE DEF pp
<1>8. PICK h : /\ h[0] = <<>> /\ \A m \in 1..n : h[m] = h[m - 1] \o pp[m]
               /\ \A m \in 0..n : IsList(h[m])
               /\ FlattenSeq(pp) = h[n]
  BY <1>3, <1>5, JoinedOneByOne
<1> DEFINE Good(m) == JoinedAs(g[m], h[m], ss, m)
        S == {m \in 0..n : Good(m)}
<1>9. 0 \in S BY <1>1, <1>7, <1>8, EmptySeq DEF JoinedAs
<1>10. ASSUME NEW m \in 0..n - 1, m \in S PROVE m + 1 \in S
  <2> DEFINE q == m + 1
             a == g[m]  b == h[m]  c == g[q]  d == h[q]  l == Len(h[m])
  <2>1. q \in 1..n /\ q - 1 = m /\ m \in 0..n /\ m \in Nat BY <1>1
  <2>2. c = a \o ss[q] BY <1>7, <2>1
  <2>3. d = b \o pp[q] BY <1>8, <2>1
  <2>4. IsList(a) /\ IsList(b) /\ IsList(ss[q]) /\ IsList(pp[q])
    BY <1>2, <1>4, <1>7, <1>8, <2>1
  <2>5. l \in Nat /\ Len(a) = l /\ Len(b) = l BY <2>4, <1>10, ListFacts DEF JoinedAs
  <2>6. Good(m) BY <1>10
  <2>7. /\ Len(c) = Len(a) + Len(ss[q])
        /\ \A i \in 1..Len(a) : c[i] = a[i]
        /\ \A i \in 1..Len(ss[q]) : c[Len(a) + i] = ss[q][i]
    <3> HIDE DEF Good, S, a, b, c, d, q
    <3> QED BY <2>2, <2>4, Concat
  <2>8. /\ Len(d) = Len(b) + Len(pp[q])
        /\ \A i \in 1..Len(b) : d[i] = b[i]
        /\ \A i \in 1..Len(pp[q]) : d[Len(b) + i] = pp[q][i]
    <3> HIDE DEF Good, S, a, b, c, d, q
    <3> QED BY <2>3, <2>4, Concat
  <2> DEFINE w == Len(ss[q])
  <2>9. w \in Nat /\ Len(pp[q]) = w /\ \A j \in 1..w : pp[q][j] = <<q, j>> BY <1>2, <1>4, <2>1
  <2>10. Len(c) = l + w /\ Len(d) = l + w BY <2>5, <2>7, <2>8, <2>9
  <2>11. \A k \in 1..l : c[k] = a[k] /\ d[k] = b[k] BY <2>5, <2>7, <2>8
  <2>12. \A j \in 1..w : c[l + j] = ss[q][j] /\ d[l + j] = <<q, j>>
    BY <2>5, <2>7, <2>8, <2>9
  <2>13. \A k \in 1..l + w : k \in 1..l \/ (k - l \in 1..w /\ k = l + (k - l))
    <3> HIDE DEF l, w
    <3> QED BY <2>5, <2>9
  <2>14. /\ \A k \in 1..l :
              /\ b[k] = <<b[k][1], b[k][2]>>
              /\ b[k][1] \in 1..m /\ b[k][2] \in 1..Len(ss[b[k][1]])
              /\ a[k] = ss[b[k][1]][b[k][2]]
         /\ \A i \in 1..m : \A j \in 1..Len(ss[i]) : \E k \in 1..l : b[k] = <<i, j>>
         /\ \A j, k \in 1..l : j < k =>
              \/ b[j][1] < b[k][1]
              \/ b[j][1] = b[k][1] /\ b[j][2] < b[k][2]
    BY <2>6 DEF JoinedAs
  <2> HIDE DEF Good, S, a, b, c, d, l
  <2>15. \A k \in 1..l + w :
              /\ d[k] = <<d[k][1], d[k][2]>>
              /\ d[k][1] \in 1..q /\ d[k][2] \in 1..Len(ss[d[k][1]])
              /\ c[k] = ss[d[k][1]][d[k][2]]
    <3> TAKE k \in 1..l + w
    <3>1. CASE k \in 1..l BY <2>1, <2>11, <2>14, <3>1
    <3>2. CASE k - l \in 1..w /\ k = l + (k - l)
      <4>1. QED BY <2>1, <2>12, <3>2
    <3>3. QED BY <2>13, <3>1, <3>2
  <2>16. \A i \in 1..q : \A j \in 1..Len(ss[i]) : \E k \in 1..l + w : d[k] = <<i, j>>
    <3> TAKE i \in 1..q
    <3> TAKE j \in 1..Len(ss[i])
    <3>1. CASE i = q
      <4>1. d[l + j] = <<i, j>> /\ l + j \in 1..l + w BY <2>5, <2>9, <2>12, <3>1
      <4>2. QED BY <4>1
    <3>2. CASE i # q
      <4>1. i \in 1..m BY <3>2, <2>1
      <4>2. PICK k \in 1..l : b[k] = <<i, j>> BY <2>14, <4>1
      <4>3. k \in 1..l + w BY <2>5, <2>9
      <4>4. QED BY <2>11, <4>2, <4>3
    <3>3. QED BY <3>1, <3>2
  <2>17. \A j, k \in 1..l + w : j < k =>
              \/ d[j][1] < d[k][1]
              \/ d[j][1] = d[k][1] /\ d[j][2] < d[k][2]
    <3> SUFFICES ASSUME NEW j \in 1..l + w, NEW k \in 1..l + w, j < k
                 PROVE  \/ d[j][1] < d[k][1]
                        \/ d[j][1] = d[k][1] /\ d[j][2] < d[k][2]
      OBVIOUS
    <3>1. CASE k \in 1..l
      <4>1. j \in 1..l BY <3>1, <2>5, <2>9
      <4>2. d[j] = b[j] /\ d[k] = b[k] BY <2>11, <3>1, <4>1
      <4>3. QED BY <2>14, <3>1, <4>1, <4>2
    <3>2. CASE k - l \in 1..w /\ k = l + (k - l)
      <4>1. d[k] = <<q, k - l>> BY <2>12, <3>2
      <4>2. CASE j \in 1..l BY <2>1, <2>11, <2>14, <4>1, <4>2
      <4>3. CASE j - l \in 1..w /\ j = l + (j - l)
        <5>1. j - l < k - l BY <2>5, <2>9
        <5>2. QED BY <2>12, <4>1, <4>3, <5>1
      <4>4. QED BY <2>13, <4>2, <4>3
    <3>3. QED BY <2>13, <3>1, <3>2
  <2>18. Good(q)
    <3> HIDE DEF w
    <3>1. Len(d) = l + w /\ Len(c) = Len(d) BY <2>10
    <3>2. \A i \in 1..q : \A j \in 1..Len(ss[i]) : \E k \in 1..Len(d) : d[k] = <<i, j>>
      BY <2>16, <3>1
    <3> HIDE DEF q
    <3>3. QED BY <2>15, <2>17, <3>1, <3>2 DEF Good, c, d, JoinedAs
  <2>19. QED BY <2>1, <2>18 DEF S
<1>11. Good(n)
  <2> HIDE DEF Good
  <2> HIDE DEF S
  <2>1. \A m \in 0..n : m \in S BY <1>1, <1>9, <1>10, Stepwise
  <2>2. QED BY <1>1, <2>1 DEF S
<1>12. QED BY <1>1, <1>6, <1>7, <1>8, <1>11, ListFacts
(* p counts the numbers of P, the smallest first. *)
Enumerates(p, P) ==
    /\ IsList(p)
    /\ \A k \in 1..Len(p) : p[k] \in P
    /\ \A i \in P : \E k \in 1..Len(p) : p[k] = i
    /\ \A j, k \in 1..Len(p) : j < k => p[j] < p[k]

(* Which places of a list of n a set of places picks. *)
PickedAt(n, P) == Picked([i \in 1..n |-> i], P)

(* The lists of one or none that picking joins. *)
LEMMA OneOrNone ==
    ASSUME NEW seq, NEW P, IsList(seq),
           NEW ss, ss = [i \in DOMAIN seq |-> IF i \in P THEN <<seq[i]>> ELSE <<>>]
    PROVE  /\ ListsIn(ss) /\ Len(ss) = Len(seq)
           /\ \A i \in 1..Len(seq) : /\ i \in P => Len(ss[i]) = 1 /\ ss[i][1] = seq[i]
                                     /\ i \notin P => Len(ss[i]) = 0
<1>1. Len(seq) \in Nat /\ DOMAIN seq = 1..Len(seq) BY ListFacts
<1>2. ASSUME NEW i \in 1..Len(seq)
      PROVE  /\ IsList(ss[i]) /\ i \in P => Len(ss[i]) = 1 /\ ss[i][1] = seq[i]
             /\ i \notin P => Len(ss[i]) = 0 BY <1>1, SeqIsList, EmptySeq
<1>3. \A i \in 1..Len(seq) : IsList(ss[i])
  <2> TAKE i \in 1..Len(seq)
  <2>1. CASE i \in P
    <3>1. <<seq[i]>> \in Seq({seq[i]}) OBVIOUS
    <3>2. QED BY <1>1, <2>1, <3>1, SeqIsList
  <2>2. CASE i \notin P BY <1>1, <2>2, EmptySeq, SeqIsList
  <2>3. QED BY <2>1, <2>2
<1>4. QED BY <1>1, <1>2, <1>3, AFunctionIsAList DEF ListsIn

(* What Picked gives: the elements at those places, in their order. *)
LEMMA PickedIs ==
    ASSUME NEW seq, NEW P, IsList(seq), NEW p, p = PickedAt(Len(seq), P)
    PROVE  /\ Enumerates(p, P \cap (1..Len(seq)))
           /\ Len(p) \in Nat
           /\ \A k \in 1..Len(p) : p[k] \in 1..Len(seq) /\ p[k] \in P
           /\ IsList(Picked(seq, P)) /\ Len(Picked(seq, P)) = Len(p)
           /\ \A k \in 1..Len(p) : Picked(seq, P)[k] = seq[p[k]]
<1> DEFINE n == Len(seq)
           ids == [i \in 1..n |-> i]
           ss == [i \in DOMAIN seq |-> IF i \in P THEN <<seq[i]>> ELSE <<>>]
           pp == [i \in DOMAIN ids |-> IF i \in P THEN <<ids[i]>> ELSE <<>>]
<1>1. n \in Nat /\ DOMAIN seq = 1..n BY ListFacts
<1>2. IsList(ids) /\ Len(ids) = n /\ \A i \in 1..n : ids[i] = i BY <1>1, AFunctionIsAList
<1>3. /\ ListsIn(ss) /\ Len(ss) = n
      /\ \A i \in 1..n : /\ i \in P => Len(ss[i]) = 1 /\ ss[i][1] = seq[i]
                         /\ i \notin P => Len(ss[i]) = 0
  <2>1. ss = [i \in DOMAIN seq |-> IF i \in P THEN <<seq[i]>> ELSE <<>>] OBVIOUS
  <2> HIDE DEF ss, ids
  <2>2. QED BY <2>1, OneOrNone
<1>4. /\ ListsIn(pp) /\ Len(pp) = n
      /\ \A i \in 1..n : /\ i \in P => Len(pp[i]) = 1 /\ pp[i][1] = i
                         /\ i \notin P => Len(pp[i]) = 0
  <2> HIDE DEF ids
  <2>1. /\ ListsIn(pp) /\ Len(pp) = Len(ids)
        /\ \A i \in 1..Len(ids) : /\ i \in P => Len(pp[i]) = 1 /\ pp[i][1] = ids[i]
                                  /\ i \notin P => Len(pp[i]) = 0
    BY <1>2, OneOrNone
  <2>2. QED BY <1>2, <2>1
<1>5. Picked(seq, P) = FlattenSeq(ss) BY DEF Picked
<1>6. p = FlattenSeq(pp) BY DEF PickedAt, Picked
<1> HIDE DEF ids, ss, pp
<1>7. PlacesOf(pp) = PlacesOf(ss)
  <2>1. DOMAIN ss = 1..n /\ DOMAIN pp = 1..n BY <1>3, <1>4, ListFacts DEF ListsIn
  <2>2. \A i \in 1..n : DOMAIN ss[i] = DOMAIN pp[i] BY <1>3, <1>4, <2>1, ListFacts DEF ListsIn
  <2>3. QED BY <2>1, <2>2 DEF PlacesOf
<1> DEFINE at == PlacesOf(ss)  picked == Picked(seq, P)
<1>8. /\ IsList(at) /\ Len(at) \in Nat /\ IsList(picked) /\ JoinedAs(picked, at, ss, n)
  BY <1>3, <1>5, FlatIs
<1>9. IsList(p) /\ JoinedAs(p, at, pp, n) BY <1>4, <1>6, <1>7, FlatIs
<1> HIDE DEF at, picked
<1>10. ASSUME NEW k \in 1..Len(p)
       PROVE  /\ k \in 1..Len(at) /\ p[k] = at[k][1] /\ at[k] = <<p[k], 1>>
              /\ p[k] \in 1..n /\ p[k] \in P /\ picked[k] = seq[p[k]]
  <2>1. /\ k \in 1..Len(at) /\ at[k] = <<at[k][1], at[k][2]>> /\ at[k][1] \in 1..n
        /\ at[k][2] \in 1..Len(ss[at[k][1]]) /\ p[k] = pp[at[k][1]][at[k][2]]
        /\ picked[k] = ss[at[k][1]][at[k][2]]
    BY <1>8, <1>9 DEF JoinedAs
  <2>2. at[k][1] \in P /\ at[k][2] = 1 BY <1>3, <2>1
  <2>3. QED BY <1>3, <1>4, <2>1, <2>2
<1>11. ASSUME NEW i \in 1..n, i \in P PROVE \E k \in 1..Len(p) : p[k] = i
  <2>1. 1 \in 1..Len(ss[i]) BY <1>3, <1>11
  <2>2. PICK k \in 1..Len(at) : at[k] = <<i, 1>> BY <1>8, <2>1 DEF JoinedAs
  <2>3. k \in 1..Len(p) BY <1>9 DEF JoinedAs
  <2>4. QED BY <1>10, <2>2, <2>3
<1>12. ASSUME NEW j \in 1..Len(p), NEW k \in 1..Len(p), j < k PROVE p[j] < p[k]
  <2>1. at[j] = <<p[j], 1>> /\ at[k] = <<p[k], 1>> /\ j \in 1..Len(at) /\ k \in 1..Len(at) BY <1>10
  <2>2. at[j][1] < at[k][1] \/ (at[j][1] = at[k][1] /\ at[j][2] < at[k][2])
    BY <1>12, <1>8, <2>1 DEF JoinedAs
  <2>3. QED BY <2>1, <2>2
<1>13. Enumerates(p, P \cap (1..n)) BY <1>9, <1>10, <1>11, <1>12 DEF Enumerates
<1>14. Len(p) \in Nat /\ IsList(picked) /\ Len(picked) = Len(p) BY <1>8, <1>9 DEF JoinedAs
<1>15. QED BY <1>10, <1>13, <1>14 DEF picked

(* The places up to n, and any of them, are finitely many. *)
LEMMA Upto ==
    ASSUME NEW n \in Nat
    PROVE  IsFiniteSet(1..n) /\ Cardinality(1..n) = n
BY FS_Interval

LEMMA PlacesAreFinite ==
    ASSUME NEW n \in Nat, NEW A, A \subseteq 1..n
    PROVE  IsFiniteSet(A) /\ Cardinality(A) \in Nat /\ Cardinality(A) <= n
<1>1. IsFiniteSet(1..n) /\ Cardinality(1..n) = n BY FS_Interval
<1>2. QED BY <1>1, FS_CardinalityType, FS_Subset

(* What is paired off one by one is as many. *)
LEMMA PairedOff ==
    ASSUME NEW A, IsFiniteSet(A), NEW B, NEW f,
           \A a \in A : f[a] \in B,
           \A b \in B : \E a \in A : f[a] = b,
           \A a, b \in A : f[a] = f[b] => a = b
    PROVE  IsFiniteSet(B) /\ Cardinality(B) = Cardinality(A)
<1> DEFINE h == [a \in A |-> f[a]]
<1>1. h \in [A -> B] /\ \A a \in A : h[a] = f[a] OBVIOUS
<1> HIDE DEF h
<1>2. QED BY <1>1, FS_Bijection DEF Bijection, ExistsBijection, Injection, IsInjective, Surjection

(* An enumeration counts each number once. *)
LEMMA EnumerationIsOneByOne ==
    ASSUME NEW n \in Nat, NEW S, S \subseteq 1..n, NEW p, Enumerates(p, S)
    PROVE  /\ \A j, k \in 1..Len(p) : p[j] = p[k] => j = k
           /\ \A j, k \in 1..Len(p) : p[j] < p[k] => j < k
<1>1. Len(p) \in Nat BY ListFacts DEF Enumerates
<1>2. \A k \in 1..Len(p) : p[k] \in 1..n BY DEF Enumerates
<1>3. \A j, k \in 1..Len(p) : j < k => p[j] < p[k] BY DEF Enumerates
<1>4. \A j, k \in 1..Len(p) : j < k \/ j = k \/ k < j BY <1>1
<1>5. QED BY <1>1, <1>2, <1>3, <1>4

(* It is as long as there are numbers to count. *)
LEMMA EnumerationCounts ==
    ASSUME NEW n \in Nat, NEW S, S \subseteq 1..n, NEW p, Enumerates(p, S)
    PROVE  Len(p) \in Nat /\ Cardinality(S) = Len(p)
<1>1. Len(p) \in Nat BY ListFacts DEF Enumerates
<1>2. IsFiniteSet(1..Len(p)) /\ Cardinality(1..Len(p)) = Len(p) BY <1>1, FS_Interval
<1>3. /\ \A k \in 1..Len(p) : p[k] \in S
      /\ \A i \in S : \E k \in 1..Len(p) : p[k] = i
  BY DEF Enumerates
<1> DEFINE A == 1..Len(p)
<1>4. Cardinality(S) = Cardinality(A)
  <2>1. IsFiniteSet(A) BY <1>2
  <2>2. \A k \in A : p[k] \in S BY <1>3
  <2>3. \A i \in S : \E k \in A : p[k] = i BY <1>3
  <2>4. \A j, k \in A : p[j] = p[k] => j = k BY EnumerationIsOneByOne
  <2> HIDE DEF A
  <2>5. QED BY <2>1, <2>2, <2>3, <2>4, PairedOff
<1>5. QED BY <1>1, <1>2, <1>4

(* The places a list picks are enumerated. *)
LEMMA PlacesAreEnumerated ==
    ASSUME NEW n \in Nat, NEW A, A \subseteq 1..n
    PROVE  Enumerates(PickedAt(n, A), A)
<1> DEFINE ids == [i \in 1..n |-> i]
<1>1. IsList(ids) /\ Len(ids) = n BY AFunctionIsAList
<1> HIDE DEF ids
<1>2. A \cap (1..n) = A OBVIOUS
<1>3. QED BY <1>1, <1>2, PickedIs

(* How many of the places a list keeps. *)
LEMMA PickedCounts ==
    ASSUME NEW seq, IsList(seq), NEW P, P \subseteq 1..Len(seq)
    PROVE  Len(Picked(seq, P)) = Cardinality(P)
<1>1. Len(seq) \in Nat BY ListFacts
<1>2. Len(Picked(seq, P)) = Len(PickedAt(Len(seq), P)) BY PickedIs
<1>3. QED BY <1>1, <1>2, EnumerationCounts, PlacesAreEnumerated

(* Places of a list and of another behind it. *)
Behind(l, B) == {l + i : i \in B}
Follow(A, l, B) == A \cup Behind(l, B)

(* They add up. *)
LEMMA CountsAdd ==
    ASSUME NEW l \in Nat, NEW A, A \subseteq 1..l, NEW B, IsFiniteSet(B), \A i \in B : i \in Nat /\ i > 0
    PROVE  Cardinality(Follow(A, l, B)) = Cardinality(A) + Cardinality(B)
<1> DEFINE D == Behind(l, B)
           f == [i \in B |-> l + i]
<1>1. IsFiniteSet(A) /\ IsFiniteSet(B) /\ Cardinality(A) \in Nat /\ Cardinality(B) \in Nat
  BY PlacesAreFinite, FS_CardinalityType
<1>2. IsFiniteSet(D) /\ Cardinality(D) = Cardinality(B)
  <2>1. \A a \in B : f[a] \in D BY DEF Behind
  <2>2. \A b \in D : \E a \in B : f[a] = b BY DEF Behind
  <2>3. \A a, b \in B : f[a] = f[b] => a = b OBVIOUS
  <2> HIDE DEF D, f
  <2>4. QED BY <1>1, <2>1, <2>2, <2>3, PairedOff
<1>3. A \cap D = {} BY DEF Behind
<1> HIDE DEF D
<1>4. Cardinality(A \cup D) = Cardinality(A) + Cardinality(D) - Cardinality(A \cap D)
  BY <1>1, <1>2, FS_Union
<1>5. QED BY <1>1, <1>2, <1>3, <1>4, FS_EmptySet DEF D, Follow

(* Two sets that share nothing and make up all the places. *)
LEMMA CountsComplete ==
    ASSUME NEW n \in Nat, NEW A, NEW B, A \cup B = 1..n, A \cap B = {}
    PROVE  Cardinality(A) + Cardinality(B) = n
<1>1. IsFiniteSet(A) /\ IsFiniteSet(B) /\ Cardinality(A) \in Nat /\ Cardinality(B) \in Nat
  BY PlacesAreFinite
<1>2. Cardinality(1..n) = n BY FS_Interval
<1>3. Cardinality(A \cup B) = n BY <1>2
<1>4. QED BY <1>1, <1>3, FS_Union, FS_EmptySet

(* The numbers of A below i: as many as i is far in their order. *)
Below(A, i) == {j \in 1..i - 1 : j \in A}

LEMMA RankIsBelow ==
    ASSUME NEW n \in Nat, NEW A, A \subseteq 1..n, NEW p, Enumerates(p, A), NEW k \in 1..Len(p),
           NEW i, p[k] = i
    PROVE  Cardinality(Below(A, i)) = k - 1
<1> DEFINE B == Below(A, i)
<1>1. \A j : j \in B <=> j \in 1..i - 1 /\ j \in A BY DEF Below
<1> HIDE DEF B
<1>2. Len(p) \in Nat /\ \A j \in 1..Len(p) : p[j] \in 1..n BY EnumerationCounts DEF Enumerates
<1>3. /\ \A j, m \in 1..Len(p) : p[j] = p[m] => j = m
      /\ \A j, m \in 1..Len(p) : p[j] < p[m] => j < m
  BY EnumerationIsOneByOne
<1> DEFINE E == 1..k - 1
<1>4. \A j \in E : p[j] \in B BY <1>1, <1>2 DEF Enumerates
<1>5. \A b \in B : \E j \in E : p[j] = b BY <1>1, <1>2, <1>3 DEF Enumerates
<1>6. IsFiniteSet(E) /\ Cardinality(E) = k - 1 BY <1>2, Upto
<1>7. \A j, m \in E : p[j] = p[m] => j = m BY <1>2, <1>3
<1> HIDE DEF E
<1>8. QED BY <1>4, <1>5, <1>6, <1>7, PairedOff DEF B

(* How far in their order: the places before it, counted. *)
LEMMA Ranks ==
    ASSUME NEW n \in Nat, NEW A, A \subseteq 1..n, NEW p, Enumerates(p, A), NEW k \in 1..Len(p),
           NEW i, p[k] = i, NEW B, \A j : j \in B <=> j \in 1..i - 1 /\ j \in A
    PROVE  Cardinality(B) = k - 1
<1>1. B = Below(A, i) BY DEF Below
<1>2. QED BY <1>1, RankIsBelow

(* Different values at n places are n values. *)
LEMMA OneOfEach ==
    ASSUME NEW n \in Nat, NEW f, \A i, j \in 1..n : f[i] = f[j] => i = j,
           NEW B, \A b : b \in B <=> \E i \in 1..n : f[i] = b
    PROVE  Cardinality(B) = n
<1> DEFINE A == 1..n
<1>1. \A b \in B : \E i \in A : f[i] = b OBVIOUS
<1>2. \A i, j \in A : f[i] = f[j] => i = j OBVIOUS
<1> HIDE DEF A
<1>3. QED BY <1>1, <1>2, PairedOff, Upto

(* The least and the greatest of some numbers. *)
LEMMA Least ==
    ASSUME NEW T, T \subseteq Nat, T # {}
    PROVE  Min(T) \in T /\ \A x \in T : Min(T) <= x
<1> DEFINE less == {ss \in Nat \X Nat : ss[1] < ss[2]}
<1>1. IsWellFoundedOn(less, Nat) BY NatLessThanWellFounded DEF OpToRel
<1>2. \A a, b \in Nat : a < b => <<a, b>> \in less OBVIOUS
<1> HIDE DEF less
<1>3. PICK m \in T : \A y \in T : ~ (<<y, m>> \in less) BY <1>1, WFMin
<1>4. \A y \in T : m <= y
  <2> TAKE y \in T
  <2>1. y \in Nat /\ m \in Nat OBVIOUS
  <2>2. ~(y < m) BY <1>2, <1>3, <2>1
  <2>3. QED BY <2>1, <2>2
<1>5. QED BY <1>4 DEF Min

LEMMA Most ==
    ASSUME NEW T, NEW n \in Nat, T \subseteq 0..n, T # {}
    PROVE  Max(T) \in T /\ \A x \in T : x <= Max(T)
<1> DEFINE U == {n - x : x \in T}
<1>1. U \subseteq Nat /\ U # {}
  <2>1. PICK x \in T : TRUE OBVIOUS
  <2>2. n - x \in U OBVIOUS
  <2>3. QED BY <2>2
<1> HIDE DEF U
<1>2. Min(U) \in U /\ \A x \in U : Min(U) <= x BY <1>1, Least
<1>3. PICK m \in T : Min(U) = n - m BY <1>2 DEF U
<1>4. \A x \in T : m >= x BY <1>2, <1>3 DEF U
<1>5. QED BY <1>4 DEF Max

-------------------------------------------------------------------------------
(* Block ids (block-id-policy.ts): an id is a content and how many of the  *)
(* same stand before it.                                                   *)

(* A list's contents, each with how many of the same stand before it. *)
Ranked(c) == [i \in 1..Len(c) |-> <<c[i], Cardinality({j \in 1..i - 1 : c[j] = c[i]})>>]
Where(c, v) == {i \in 1..Len(c) : c[i] = v}

(* A list made element by element is as long. *)
LEMMA MappedIs ==
    ASSUME NEW s, IsList(s), NEW t, t = [i \in DOMAIN s |-> t[i]]
    PROVE  IsList(t) /\ Len(t) = Len(s) /\ DOMAIN t = 1..Len(s) /\ DOMAIN s = 1..Len(s)
BY ListFacts, AFunctionIsAList

(* Where a content stands among its like. *)
LEMMA RanksAreCounts ==
    ASSUME NEW c, IsList(c), NEW i \in 1..Len(c)
    PROVE  \E p : \E k \in 1..Len(p) :
              /\ Enumerates(p, Where(c, c[i])) /\ p[k] = i
              /\ Len(p) = Cardinality(Where(c, c[i])) /\ Len(p) \in Nat
              /\ Ranked(c)[i] = <<c[i], k - 1>>
<1> DEFINE A == Where(c, c[i])  n == Len(c)
<1>1. n \in Nat BY ListFacts
<1>2. A \subseteq 1..n /\ i \in A BY DEF Where
<1> DEFINE p == PickedAt(n, A)
<1> HIDE DEF p
<1>3. Enumerates(p, A) BY <1>1, <1>2, PlacesAreEnumerated DEF p
<1>4. PICK k \in 1..Len(p) : p[k] = i BY <1>2, <1>3 DEF Enumerates
<1> DEFINE B == {j \in 1..i - 1 : c[j] = c[i]}
<1>5. \A j : j \in B <=> j \in 1..i - 1 /\ j \in A BY <1>1 DEF Where
<1>6. Cardinality(B) = k - 1
  <2> HIDE DEF B
  <2> QED BY <1>1, <1>2, <1>3, <1>4, <1>5, Ranks
<1>7. QED BY <1>1, <1>2, <1>3, <1>4, <1>6, EnumerationCounts DEF Ranked

(* A ranked content says what it is of and how many there are at least. *)
LEMMA RankedAre ==
    ASSUME NEW c, IsList(c)
    PROVE  /\ \A i, j \in 1..Len(c) : Ranked(c)[i] = Ranked(c)[j] => i = j
           /\ \A v : \A k \in Nat : (\E i \in 1..Len(c) : Ranked(c)[i] = <<v, k>>)
                  <=> k < Cardinality(Where(c, v))
           /\ \A i \in 1..Len(c) : \E k \in Nat : Ranked(c)[i] = <<c[i], k>>
<1> DEFINE n == Len(c)
<1>1. n \in Nat BY ListFacts
<1>2. ASSUME NEW i \in 1..n, NEW j \in 1..n, Ranked(c)[i] = Ranked(c)[j] PROVE i = j
  <2>1. PICK p : \E k \in 1..Len(p) :
              /\ Enumerates(p, Where(c, c[i])) /\ p[k] = i
              /\ Len(p) = Cardinality(Where(c, c[i])) /\ Len(p) \in Nat
              /\ Ranked(c)[i] = <<c[i], k - 1>>
    BY RanksAreCounts
  <2>2. PICK k \in 1..Len(p) :
              /\ Enumerates(p, Where(c, c[i])) /\ p[k] = i /\ Len(p) \in Nat
              /\ Ranked(c)[i] = <<c[i], k - 1>>
    BY <2>1
  <2>3. PICK q : \E m \in 1..Len(q) :
              /\ Enumerates(q, Where(c, c[j])) /\ q[m] = j
              /\ Len(q) = Cardinality(Where(c, c[j])) /\ Len(q) \in Nat
              /\ Ranked(c)[j] = <<c[j], m - 1>>
    BY RanksAreCounts
  <2>4. PICK m \in 1..Len(q) :
              /\ Enumerates(q, Where(c, c[j])) /\ q[m] = j /\ Len(q) \in Nat
              /\ Ranked(c)[j] = <<c[j], m - 1>>
    BY <2>3
  <2>5. c[i] = c[j] /\ k - 1 = m - 1
    <3>1. <<c[i], k - 1>> = <<c[j], m - 1>> BY <1>2, <2>2, <2>4
    <3>2. QED BY <3>1
  <2>6. k = m BY <2>2, <2>4, <2>5
  <2>7. Where(c, c[i]) \subseteq 1..n BY DEF Where
  <2>8. PICK l \in 1..Len(p) : p[l] = j BY <2>2, <2>5 DEF Enumerates, Where
  <2> DEFINE B == {a \in 1..j - 1 : a \in Where(c, c[i])}
  <2>9. \A a : a \in B <=> a \in 1..j - 1 /\ a \in Where(c, c[i]) OBVIOUS
  <2> HIDE DEF B
  <2>10. Cardinality(B) = m - 1 BY <1>1, <2>4, <2>5, <2>7, <2>9, Ranks
  <2>11. Cardinality(B) = l - 1 BY <1>1, <2>2, <2>7, <2>8, <2>9, Ranks
  <2>12. l = m
    <3>1. l - 1 = m - 1 BY <2>8, <2>10, <2>11
    <3>2. QED BY <3>1, <2>2, <2>4, <2>8
  <2>13. QED BY <2>2, <2>6, <2>8, <2>12
<1>3. ASSUME NEW v, NEW k \in Nat
      PROVE  (\E i \in 1..n : Ranked(c)[i] = <<v, k>>) <=> k < Cardinality(Where(c, v))
  <2>1. Where(c, v) \subseteq 1..n BY DEF Where
  <2>2. Cardinality(Where(c, v)) \in Nat BY <1>1, <2>1, PlacesAreFinite
  <2>3. ASSUME NEW i \in 1..n, Ranked(c)[i] = <<v, k>> PROVE k < Cardinality(Where(c, v))
    <3>1. PICK p : \E m \in 1..Len(p) :
              /\ Enumerates(p, Where(c, c[i])) /\ p[m] = i
              /\ Len(p) = Cardinality(Where(c, c[i])) /\ Len(p) \in Nat
              /\ Ranked(c)[i] = <<c[i], m - 1>>
      BY RanksAreCounts
    <3>2. PICK m \in 1..Len(p) :
              Len(p) = Cardinality(Where(c, c[i])) /\ Len(p) \in Nat /\ Ranked(c)[i] = <<c[i], m - 1>>
      BY <3>1
    <3>3. c[i] = v /\ k = m - 1 BY <2>3, <3>2
    <3>4. QED BY <3>2, <3>3
  <2>4. ASSUME k < Cardinality(Where(c, v)) PROVE \E i \in 1..n : Ranked(c)[i] = <<v, k>>
    <3> DEFINE p == PickedAt(n, Where(c, v))
    <3> HIDE DEF p
    <3>1. Enumerates(p, Where(c, v)) BY <1>1, <2>1, PlacesAreEnumerated DEF p
    <3>2. Len(p) \in Nat /\ Cardinality(Where(c, v)) = Len(p) BY <1>1, <2>1, <3>1, EnumerationCounts
    <3>3. k + 1 \in 1..Len(p) BY <2>4, <3>2
    <3>4. p[k + 1] \in Where(c, v) BY <3>1, <3>3 DEF Enumerates
    <3> DEFINE i == p[k + 1]
    <3>5. i \in 1..n /\ c[i] = v BY <3>4 DEF Where
    <3>6. i = p[k + 1] OBVIOUS
    <3> HIDE DEF i
    <3> DEFINE B == {j \in 1..i - 1 : c[j] = c[i]}
    <3>7. \A j : j \in B <=> j \in 1..i - 1 /\ j \in Where(c, v) BY <1>1, <3>5 DEF Where
    <3>8. Cardinality(B) = (k + 1) - 1
      <4> HIDE DEF B
      <4> QED BY <1>1, <2>1, <3>1, <3>3, <3>6, <3>7, Ranks
    <3>9. Ranked(c)[i] = <<c[i], Cardinality(B)>> BY <3>5 DEF Ranked
    <3> HIDE DEF B
    <3>10. Ranked(c)[i] = <<v, k>> BY <3>5, <3>8, <3>9
    <3>11. QED BY <3>5, <3>10
  <2>5. QED BY <2>3, <2>4
<1>4. ASSUME NEW i \in 1..n PROVE \E k \in Nat : Ranked(c)[i] = <<c[i], k>>
  <2>1. PICK p : \E m \in 1..Len(p) :
              /\ Enumerates(p, Where(c, c[i])) /\ p[m] = i
              /\ Len(p) = Cardinality(Where(c, c[i])) /\ Len(p) \in Nat
              /\ Ranked(c)[i] = <<c[i], m - 1>>
    BY RanksAreCounts
  <2>2. PICK m \in 1..Len(p) : Len(p) \in Nat /\ Ranked(c)[i] = <<c[i], m - 1>> BY <2>1
  <2>3. m - 1 \in Nat BY <2>2
  <2>4. QED BY <2>2, <2>3
<1>5. QED BY <1>2, <1>3, <1>4

(* Contents that are there as often, or oftener, have the same ids among theirs. *)
LEMMA OftenerHasMore ==
    ASSUME NEW c, IsList(c), NEW d, IsList(d),
           \A v : Cardinality(Where(c, v)) <= Cardinality(Where(d, v))
    PROVE  \A i \in 1..Len(c) : \E j \in 1..Len(d) : Ranked(d)[j] = Ranked(c)[i]
<1> TAKE i \in 1..Len(c)
<1>1. PICK k \in Nat : Ranked(c)[i] = <<c[i], k>> BY RankedAre
<1>2. Cardinality(Where(c, c[i])) \in Nat /\ Cardinality(Where(d, c[i])) \in Nat
  BY PlacesAreFinite, ListFacts DEF Where
<1>3. k < Cardinality(Where(d, c[i])) BY <1>1, <1>2, RankedAre
<1>4. QED BY <1>1, <1>3, RankedAre

(* The contents of blocks, and the ids they are given. *)
Contents(blocks) == [i \in 1..Len(blocks) |-> Content(blocks[i])]
IdsGiven(blocks) == {AssignIds(blocks)[i].id : i \in DOMAIN blocks}

(* An id is a ranked content, and tells what it ranks. *)
LEMMA IdsAreRanks ==
    ASSUME NEW blocks, IsList(blocks), NEW c, c = Contents(blocks)
    PROVE  /\ IsList(c) /\ Len(c) = Len(blocks)
           /\ \A i \in 1..Len(blocks) : AssignIds(blocks)[i].id = Ranked(c)[i]
           /\ IdsGiven(blocks) = {Ranked(c)[i] : i \in 1..Len(c)}
<1>1. Len(blocks) \in Nat /\ DOMAIN blocks = 1..Len(blocks) BY ListFacts
<1>2. IsList(c) /\ Len(c) = Len(blocks) BY <1>1, AFunctionIsAList DEF Contents
<1>3. ASSUME NEW i \in 1..Len(blocks) PROVE AssignIds(blocks)[i].id = Ranked(c)[i]
  <2>1. c[i] = Content(blocks[i]) BY DEF Contents
  <2>2. {j \in 1..i - 1 : c[j] = c[i]} = {j \in 1..i - 1 : Content(blocks[j]) = Content(blocks[i])}
    BY <1>1, <2>1 DEF Contents
  <2>3. QED BY <1>1, <1>2, <2>1, <2>2 DEF AssignIds, Ranked
<1>4. QED BY <1>1, <1>2, <1>3 DEF IdsGiven

(* As many ids are given as there are blocks. *)
LEMMA AsManyIds ==
    ASSUME NEW blocks, IsList(blocks)
    PROVE  Cardinality(IdsGiven(blocks)) = Len(blocks)
<1> DEFINE c == Contents(blocks)
<1>1. IsList(c) /\ Len(c) = Len(blocks) /\ IdsGiven(blocks) = {Ranked(c)[i] : i \in 1..Len(c)}
  BY IdsAreRanks
<1> HIDE DEF c
<1>2. Len(c) \in Nat BY <1>1, ListFacts
<1> DEFINE r == Ranked(c)  B == IdsGiven(blocks)
<1>3. /\ \A i, j \in 1..Len(c) : r[i] = r[j] => i = j
      /\ \A b : b \in B <=> \E i \in 1..Len(c) : r[i] = b BY <1>1, RankedAre
<1> HIDE DEF r, B
<1>4. Cardinality(B) = Len(c) BY <1>2, <1>3, OneOfEach
<1>5. QED BY <1>1, <1>4 DEF B

(* Blocks with more of every content have more ids. *)
LEMMA OftenerHasMoreIds ==
    ASSUME NEW a, IsList(a), NEW b, IsList(b),
           \A v : Cardinality(Where(Contents(a), v)) <= Cardinality(Where(Contents(b), v))
    PROVE  IdsGiven(a) \subseteq IdsGiven(b)
<1> DEFINE c == Contents(a)  d == Contents(b)
<1> HIDE DEF c, d
<1>1. QED BY OftenerHasMore, IdsAreRanks DEF c, d

(* A list whose contents come one by one from another's has no more of any. *)
LEMMA NoMoreOfAny ==
    ASSUME NEW c, IsList(c), NEW d, IsList(d), NEW f,
           \A i \in 1..Len(c) : f[i] \in 1..Len(d) /\ d[f[i]] = c[i],
           \A i, j \in 1..Len(c) : f[i] = f[j] => i = j
    PROVE  \A v : Cardinality(Where(c, v)) <= Cardinality(Where(d, v))
<1> TAKE v
<1> DEFINE A == Where(c, v)  B == {f[i] : i \in A}
<1>1. A \subseteq 1..Len(c) /\ Where(d, v) \subseteq 1..Len(d) BY DEF Where
<1>2. IsFiniteSet(A) /\ IsFiniteSet(Where(d, v)) BY <1>1, PlacesAreFinite, ListFacts
<1>3. \A i \in A : f[i] \in B OBVIOUS
<1>4. \A b \in B : \E i \in A : f[i] = b OBVIOUS
<1>5. \A i, j \in A : f[i] = f[j] => i = j BY <1>1
<1>6. B \subseteq Where(d, v) BY <1>1 DEF Where
<1> HIDE DEF A, B
<1>7. Cardinality(B) = Cardinality(A) BY <1>2, <1>3, <1>4, <1>5, PairedOff
<1>8. QED BY <1>2, <1>6, <1>7, FS_Subset DEF A

(* The blocks in reverse have as many of every content. *)
LEMMA ReversedHasTheSame ==
    ASSUME NEW s, IsList(s)
    PROVE  IsList(Reverse(s)) /\ IdsGiven(Reverse(s)) = IdsGiven(s)
<1> DEFINE n == Len(s)  r == Reverse(s)  c == Contents(s)  d == Contents(r)
           f == [i \in 1..n |-> (n - i) + 1]
<1>1. n \in Nat BY ListFacts
<1>2. r = [i \in 1..n |-> r[i]] /\ \A i \in 1..n : r[i] = s[(n - i) + 1] BY DEF Reverse
<1> HIDE DEF r
<1>3. IsList(r) /\ Len(r) = n BY <1>1, <1>2, AFunctionIsAList
<1>4. IsList(c) /\ Len(c) = n /\ IsList(d) /\ Len(d) = n BY <1>3, IdsAreRanks
<1>5. \A i \in 1..n : f[i] \in 1..n /\ f[i] = (n - i) + 1 BY <1>1
<1>6. \A i, j \in 1..n : f[i] = f[j] => i = j BY <1>1
<1>7. \A i \in 1..n : d[i] = c[f[i]] BY <1>2, <1>3, <1>5 DEF Contents
<1> HIDE DEF c, d, f
<1>8. \A v : Cardinality(Where(c, v)) <= Cardinality(Where(d, v))
  <2>1. /\ \A i \in 1..Len(c) : f[i] \in 1..Len(d) /\ d[f[i]] = c[i]
        /\ \A i, j \in 1..Len(c) : f[i] = f[j] => i = j BY <1>1, <1>4, <1>5, <1>6, <1>7
  <2>2. QED BY <1>4, <2>1, NoMoreOfAny
<1>9. \A v : Cardinality(Where(d, v)) <= Cardinality(Where(c, v))
  <2>1. /\ \A i \in 1..Len(d) : f[i] \in 1..Len(c) /\ c[f[i]] = d[i]
        /\ \A i, j \in 1..Len(d) : f[i] = f[j] => i = j
    BY <1>4, <1>5, <1>6, <1>7
  <2>2. QED BY <1>4, <2>1, NoMoreOfAny
<1>10. QED BY <1>3, <1>8, <1>9, OftenerHasMoreIds DEF r, c, d

(* A list without one of its elements. *)
LEMMA ListWithout ==
    ASSUME NEW s, IsList(s), NEW k \in 1..Len(s)
    PROVE  /\ IsList(RemoveAt(s, k)) /\ Len(RemoveAt(s, k)) = Len(s) - 1
           /\ \A i \in 1..Len(s) - 1 : RemoveAt(s, k)[i] = IF i < k THEN s[i] ELSE s[i + 1]
<1> DEFINE n == Len(s)  a == SubSeq(s, 1, k - 1)  b == SubSeq(s, k + 1, n)
<1>1. n \in Nat /\ \A i \in 1..n : s[i] \in ToSet(s) BY ListFacts DEF ToSet
<1>2. /\ a \in Seq(ToSet(s)) /\ Len(a) = k - 1
      /\ \A i \in 1..k - 1 : a[i] = s[i]
  <2>1. /\ a \in Seq(ToSet(s)) /\ Len(a) = IF 1 <= k - 1 THEN (k - 1) - 1 + 1 ELSE 0
        /\ \A i \in 1..(k - 1) - 1 + 1 : a[i] = s[1 + i - 1] BY <1>1, SubSeqProperties
  <2> HIDE DEF a
  <2>2. QED BY <1>1, <2>1
<1>3. /\ b \in Seq(ToSet(s)) /\ Len(b) = n - k
      /\ \A i \in 1..n - k : b[i] = s[k + i]
  <2>1. /\ b \in Seq(ToSet(s)) /\ Len(b) = IF k + 1 <= n THEN n - (k + 1) + 1 ELSE 0
        /\ \A i \in 1..n - (k + 1) + 1 : b[i] = s[(k + 1) + i - 1] BY <1>1, SubSeqProperties
  <2> HIDE DEF b
  <2>2. QED BY <1>1, <2>1
<1>4. RemoveAt(s, k) = a \o b BY DEF RemoveAt
<1> HIDE DEF a, b
<1>5. IsList(a) /\ IsList(b) BY <1>2, <1>3, SeqIsList
<1>6. /\ IsList(a \o b) /\ Len(a \o b) = Len(a) + Len(b)
      /\ \A i \in 1..Len(a) : (a \o b)[i] = a[i]
      /\ \A i \in Len(a) + 1..Len(a) + Len(b) : (a \o b)[i] = b[i - Len(a)]
  BY <1>5, Concat
<1>7. ASSUME NEW i \in 1..n - 1 PROVE (a \o b)[i] = IF i < k THEN s[i] ELSE s[i + 1]
  <2>1. CASE i < k BY <1>1, <1>2, <1>6, <2>1
  <2>2. CASE ~(i < k)
    <3>1. i \in Len(a) + 1..Len(a) + Len(b) /\ i - Len(a) \in 1..n - k /\ k + (i - Len(a)) = i + 1
      BY <1>1, <1>2, <1>3, <2>2
    <3>2. QED BY <1>3, <1>6, <2>2, <3>1
  <2>3. QED BY <2>1, <2>2
<1>8. QED BY <1>1, <1>2, <1>3, <1>4, <1>6, <1>7

(* The blocks without one have no more of any content. *)
LEMMA WithoutHasNoOther ==
    ASSUME NEW s, IsList(s), NEW k \in 1..Len(s)
    PROVE  IdsGiven(RemoveAt(s, k)) \subseteq IdsGiven(s)
<1> DEFINE n == Len(s)  r == RemoveAt(s, k)  c == Contents(r)  d == Contents(s)
           f == [i \in 1..n - 1 |-> IF i < k THEN i ELSE i + 1]
<1>1. n \in Nat BY ListFacts
<1>2. /\ IsList(r) /\ Len(r) = n - 1
      /\ \A i \in 1..n - 1 : r[i] = IF i < k THEN s[i] ELSE s[i + 1]
  BY ListWithout
<1>3. IsList(c) /\ Len(c) = n - 1 /\ IsList(d) /\ Len(d) = n
  <2> HIDE DEF r
  <2> QED BY <1>2, IdsAreRanks
<1> HIDE DEF r
<1>4. \A i \in 1..n - 1 : f[i] \in 1..n /\ f[i] = IF i < k THEN i ELSE i + 1 BY <1>1
<1>5. \A i \in 1..n - 1 : d[f[i]] = c[i] BY <1>2, <1>4 DEF Contents
<1> HIDE DEF c, d, f
<1>6. \A v : Cardinality(Where(c, v)) <= Cardinality(Where(d, v))
  <2>1. /\ \A i \in 1..Len(c) : f[i] \in 1..Len(d) /\ d[f[i]] = c[i]
        /\ \A i, j \in 1..Len(c) : f[i] = f[j] => i = j BY <1>1, <1>3, <1>4, <1>5
  <2>2. QED BY <1>3, <2>1, NoMoreOfAny
<1>7. QED BY <1>2, <1>6, OftenerHasMoreIds DEF c, d, r

-------------------------------------------------------------------------------
(* What is taken off a JSON value is in it.                                *)

(* Elements picked, and elements joined, are elements. *)
LEMMA PickedElements ==
    ASSUME NEW seq, IsList(seq), NEW P, NEW t, t = Picked(seq, P)
    PROVE  /\ IsList(t) /\ DOMAIN t = 1..Len(t) /\ Len(t) \in Nat /\ DOMAIN seq = 1..Len(seq)
           /\ \A k \in DOMAIN t : \E i \in DOMAIN seq : i \in P /\ t[k] = seq[i]
           /\ \A i \in DOMAIN seq : i \in P => \E k \in DOMAIN t : t[k] = seq[i]
<1> DEFINE p == PickedAt(Len(seq), P)
<1>1. p = PickedAt(Len(seq), P) OBVIOUS
<1> HIDE DEF p
<1>2. /\ Enumerates(p, P \cap (1..Len(seq))) /\ Len(p) \in Nat
      /\ \A k \in 1..Len(p) : p[k] \in 1..Len(seq) /\ p[k] \in P
      /\ IsList(t) /\ Len(t) = Len(p)
      /\ \A k \in 1..Len(p) : t[k] = seq[p[k]]
  BY <1>1, PickedIs
<1>3. DOMAIN seq = 1..Len(seq) /\ DOMAIN t = 1..Len(t) BY <1>2, ListFacts
<1>4. ASSUME NEW i \in 1..Len(seq), i \in P PROVE \E k \in 1..Len(t) : t[k] = seq[i]
  BY <1>2, <1>4 DEF Enumerates
<1>5. QED BY <1>2, <1>3, <1>4

LEMMA FlatElements ==
    ASSUME NEW ss, ListsIn(ss), NEW t, t = FlattenSeq(ss)
    PROVE  /\ IsList(t) /\ DOMAIN t = 1..Len(t) /\ Len(t) \in Nat
           /\ \A k \in DOMAIN t : \E i \in DOMAIN ss : \E j \in DOMAIN ss[i] : t[k] = ss[i][j]
           /\ \A i \in DOMAIN ss : \A j \in DOMAIN ss[i] : \E k \in DOMAIN t : t[k] = ss[i][j]
<1> DEFINE at == PlacesOf(ss)
<1>1. IsList(t) /\ Len(at) \in Nat /\ JoinedAs(t, at, ss, Len(ss)) BY FlatIs
<1> HIDE DEF at
<1>2. DOMAIN t = 1..Len(t) /\ Len(t) \in Nat /\ Len(t) = Len(at) BY <1>1, ListFacts DEF JoinedAs
<1>3. DOMAIN ss = 1..Len(ss) /\ \A i \in DOMAIN ss : DOMAIN ss[i] = 1..Len(ss[i])
  BY ListFacts DEF ListsIn
<1>4. ASSUME NEW k \in DOMAIN t PROVE \E i \in DOMAIN ss : \E j \in DOMAIN ss[i] : t[k] = ss[i][j]
  BY <1>1, <1>2, <1>3 DEF JoinedAs
<1>5. ASSUME NEW i \in DOMAIN ss, NEW j \in DOMAIN ss[i] PROVE \E k \in DOMAIN t : t[k] = ss[i][j]
  <2>1. PICK k \in 1..Len(at) : at[k] = <<i, j>> BY <1>1, <1>3 DEF JoinedAs
  <2>2. t[k] = ss[at[k][1]][at[k][2]] BY <1>1 DEF JoinedAs
  <2>3. QED BY <1>2, <2>1, <2>2
<1>6. QED BY <1>1, <1>2, <1>4, <1>5

(* Lists of none and of one. *)
LEMMA NoneIsAList == IsList(<<>>) /\ DOMAIN <<>> = {} /\ Len(<<>>) = 0
<1>1. IsList(<<>>) /\ Len(<<>>) = 0 BY EmptySeq, SeqIsList
<1>2. QED BY <1>1, ListFacts

LEMMA OneIsAList ==
    ASSUME NEW x
    PROVE  IsList(<<x>>) /\ DOMAIN <<x>> = {1} /\ Len(<<x>>) = 1
<1>1. <<x>> \in Seq({x}) OBVIOUS
<1>2. IsList(<<x>>) BY <1>1, SeqIsList
<1>3. QED BY <1>2

-------------------------------------------------------------------------------
(* The nodes of a value that was found in another are that other's nodes.  *)
From(w, v) ==
    IsList(w) /\ \A k \in DOMAIN w : \E i \in DOMAIN v : w[k].is = v[i].is /\ w[k].text = v[i].text

LEMMA FromIsTransitive ==
    ASSUME NEW u, NEW v, NEW w, From(u, v), From(v, w)
    PROVE  From(u, w)
BY DEF From

(* A part, a field and an item of a value have its nodes. *)
LEMMA PartIsFrom ==
    ASSUME NEW v, IsList(v), NEW path
    PROVE  From(Part(v, path), v)
<1> DEFINE P == {i \in DOMAIN v : IsPrefix(path, v[i].at)}
           f == Picked(v, P)
           part == [i \in DOMAIN f |->
                      [at |-> SubSeq(f[i].at, Len(path) + 1, Len(f[i].at)), is |-> f[i].is, text |-> f[i].text]]
<1>1. Part(v, path) = part BY DEF Part, Each, Filtered
<1>2. IsList(f) /\ \A k \in DOMAIN f : \E i \in DOMAIN v : f[k] = v[i]
  <2> HIDE DEF P
  <2> QED BY PickedElements
<1> HIDE DEF f
<1>3. \A k \in DOMAIN f : part[k].is = f[k].is /\ part[k].text = f[k].text OBVIOUS
<1>4. part = [i \in DOMAIN f |-> part[i]] OBVIOUS
<1> HIDE DEF part
<1>5. IsList(part) /\ DOMAIN part = DOMAIN f BY <1>2, <1>4, MappedIs
<1>6. QED BY <1>1, <1>2, <1>3, <1>5 DEF From

LEMMA FieldIsFrom ==
    ASSUME NEW v, IsList(v), NEW name
    PROVE  From(Field(v, name), v)
BY PartIsFrom DEF Field

LEMMA ItemsAreFrom ==
    ASSUME NEW v, IsList(v)
    PROVE  IsList(Items(v)) /\ \A k \in DOMAIN Items(v) : From(Items(v)[k], v)
<1>1. CASE Kind(v) = "list"
  <2> DEFINE P == {i \in DOMAIN v : Len(v[i].at) = 1}
             f == Picked(v, P)
             items == [i \in DOMAIN f |-> Part(v, f[i].at)]
  <2>1. Items(v) = items BY <1>1 DEF Items, Each, Filtered
  <2>2. IsList(f)
    <3> HIDE DEF P
    <3> QED BY PickedElements
  <2> HIDE DEF f
  <2>3. \A k \in DOMAIN f : From(items[k], v) BY PartIsFrom
  <2>4. items = [i \in DOMAIN f |-> items[i]] OBVIOUS
  <2> HIDE DEF items
  <2>5. QED BY <2>1, <2>2, <2>3, <2>4, MappedIs
<1>2. CASE Kind(v) # "list" BY <1>2, OneIsAList DEF Items, From
<1>3. QED BY <1>1, <1>2

-------------------------------------------------------------------------------
(* What a reader sees in a value: its leaves, bare of blanks, and lines. *)
Reads(v, text) == \E leaf \in PayloadLeaves(v) : text = Trim(leaf) \/ text \in ToSet(Lines(leaf))
AllRead(v, texts) == IsList(texts) /\ \A k \in DOMAIN texts : Reads(v, texts[k])

(* Display strings, one and several, are read. *)
LEMMA DisplayIsRead ==
    ASSUME NEW v, NEW w, From(w, v)
    PROVE  AllRead(v, AsDisplayString(w)) /\ Len(AsDisplayString(w)) <= 1
BY ListFacts, OneIsAList, NoneIsAList DEF AsDisplayString, Kind, Nothing, From, PayloadLeaves, Reads,
   AllRead

LEMMA JoinedIsRead ==
    ASSUME NEW v, NEW ss, IsList(ss), \A k \in DOMAIN ss : AllRead(v, ss[k])
    PROVE  AllRead(v, FlattenSeq(ss))
<1>1. ListsIn(ss) BY DEF ListsIn, AllRead
<1> DEFINE t == FlattenSeq(ss)
<1>2. /\ IsList(t)
      /\ \A k \in DOMAIN t : \E i \in DOMAIN ss : \E j \in DOMAIN ss[i] : t[k] = ss[i][j]
  BY <1>1, FlatElements
<1> HIDE DEF t
<1>3. AllRead(v, t) BY <1>2 DEF AllRead
<1>4. QED BY <1>3 DEF t

LEMMA DisplayedAreRead ==
    ASSUME NEW v, NEW values, IsList(values), \A k \in DOMAIN values : From(values[k], v)
    PROVE  AllRead(v, Displayed(values))
<1> DEFINE ss == [k \in DOMAIN values |-> AsDisplayString(values[k])]
<1>1. Displayed(values) = FlattenSeq(ss) BY DEF Displayed, Each
<1>2. \A k \in DOMAIN values : AllRead(v, ss[k]) BY DisplayIsRead
<1>3. ss = [k \in DOMAIN values |-> ss[k]] OBVIOUS
<1> HIDE DEF ss
<1>4. QED BY <1>1, <1>2, <1>3, JoinedIsRead, MappedIs

LEMMA FirstIsRead ==
    ASSUME NEW v, NEW texts, AllRead(v, texts)
    PROVE  AllRead(v, FirstOf(texts))
BY ListFacts, OneIsAList DEF FirstOf, AllRead

-------------------------------------------------------------------------------
(* Texts: what is done to them leaves texts, and runs of runs are runs.    *)

(* A piece of a text, from m to n. *)
LEMMA PieceIsList ==
    ASSUME NEW text, IsList(text), NEW m \in Int, NEW n \in Int, m >= 1, n <= Len(text)
    PROVE  /\ IsList(SubSeq(text, m, n))
           /\ Len(SubSeq(text, m, n)) = IF m <= n THEN n - m + 1 ELSE 0
           /\ \A i \in 1..n - m + 1 : SubSeq(text, m, n)[i] = text[m + i - 1]
<1>1. /\ SubSeq(text, m, n) \in Seq(ToSet(text))
      /\ Len(SubSeq(text, m, n)) = IF m <= n THEN n - m + 1 ELSE 0
      /\ \A i \in 1..n - m + 1 : SubSeq(text, m, n)[i] = text[m + i - 1]
  BY SubSeqProperties, ListFacts DEF ToSet
<1>2. QED BY <1>1, SeqIsList

(* Its first n. *)
LEMMA StartIsList ==
    ASSUME NEW text, IsList(text), NEW n \in 0..Len(text)
    PROVE  /\ IsList(SubSeq(text, 1, n)) /\ Len(SubSeq(text, 1, n)) = n
           /\ \A i \in 1..n : SubSeq(text, 1, n)[i] = text[i]
<1> DEFINE s == SubSeq(text, 1, n)
<1>1. n \in Int /\ 1 \in Int /\ 1 >= 1 /\ n <= Len(text) /\ n >= 0 BY ListFacts
<1>2. /\ IsList(s) /\ Len(s) = (IF 1 <= n THEN n - 1 + 1 ELSE 0)
      /\ \A i \in 1..n - 1 + 1 : s[i] = text[1 + i - 1]
  BY ONLY IsList(text), <1>1, PieceIsList
<1> HIDE DEF s
<1>3. Len(s) = n BY <1>1, <1>2
<1>4. ASSUME NEW i \in 1..n PROVE s[i] = text[i]
  <2>1. i \in 1..n - 1 + 1 /\ 1 + i - 1 = i BY <1>1
  <2>2. QED BY <1>2, <2>1
<1>5. QED BY <1>2, <1>3, <1>4 DEF s

(* Trimmed, cut in lines, collapsed and normalized, a text stays one. *)
LEMMA TrimIsList ==
    ASSUME NEW text, IsList(text)
    PROVE  IsList(Trim(text))
<1> DEFINE inked == {i \in DOMAIN text : text[i] \notin Blanks}
<1>1. Len(text) \in Nat /\ DOMAIN text = 1..Len(text) BY ListFacts
<1>2. CASE inked = {} BY <1>2, NoneIsAList DEF Trim
<1>3. CASE inked # {}
  <2>1. Trim(text) = SubSeq(text, Min(inked), Max(inked)) BY <1>3 DEF Trim
  <2>2. inked \subseteq 1..Len(text) BY <1>1
  <2>3. inked \subseteq Nat /\ inked \subseteq 0..Len(text) BY <1>1, <2>2
  <2> HIDE DEF inked
  <2>4. Min(inked) \in 1..Len(text) /\ Max(inked) \in 1..Len(text)
    BY <1>1, <1>3, <2>2, <2>3, Least, Most
  <2>5. QED BY <1>1, <2>1, <2>4, PieceIsList
<1>4. QED BY <1>2, <1>3

LEMMA LinesAreLists ==
    ASSUME NEW text, IsList(text)
    PROVE  ListsIn(Lines(text))
<1> DEFINE cuts == {0, Len(text) + 1} \cup {i \in DOMAIN text : text[i] = "/"}
           lines == [i \in 1..Len(text) + 1 |->
                       Trim(SubSeq(text, i, Min({cut \in cuts : cut >= i}) - 1))]
           P == {i \in DOMAIN lines : i - 1 \in cuts}
           f == Picked(lines, P)
           Q == {i \in DOMAIN f : f[i] # <<>>}
<1>1. Lines(text) = Picked(f, Q) BY DEF Lines, Filtered
<1>2. Len(text) \in Nat /\ DOMAIN text = 1..Len(text) BY ListFacts
<1>3. cuts \subseteq Nat /\ Len(text) + 1 \in cuts /\ \A c \in cuts : c <= Len(text) + 1 BY <1>2
<1> HIDE DEF cuts
<1>4. ASSUME NEW i \in 1..Len(text) + 1 PROVE IsList(lines[i])
  <2> DEFINE later == {cut \in cuts : cut >= i}
  <2>1. later \subseteq Nat /\ later # {} /\ \A c \in later : c <= Len(text) + 1
    <3>1. later \subseteq cuts OBVIOUS
    <3>2. Len(text) + 1 \in later BY <1>2, <1>3
    <3> HIDE DEF later
    <3>3. QED BY <1>3, <3>1, <3>2
  <2>2. lines[i] = Trim(SubSeq(text, i, Min(later) - 1)) OBVIOUS
  <2> HIDE DEF later
  <2>3. Min(later) \in Nat /\ Min(later) <= Len(text) + 1 BY <2>1, Least
  <2>4. QED BY <1>2, <2>2, <2>3, TrimIsList, PieceIsList
<1>5. lines = [i \in 1..Len(text) + 1 |-> lines[i]] OBVIOUS
<1> HIDE DEF lines
<1>6. IsList(lines) /\ DOMAIN lines = 1..Len(text) + 1 BY <1>2, <1>5, AFunctionIsAList
<1>7. IsList(f) /\ \A k \in DOMAIN f : \E i \in DOMAIN lines : f[k] = lines[i]
  <2>1. f = Picked(lines, P) OBVIOUS
  <2> HIDE DEF P, f
  <2>2. QED BY <1>6, <2>1, PickedElements
<1> HIDE DEF f
<1>8. IsList(Picked(f, Q)) /\ \A k \in DOMAIN Picked(f, Q) : \E i \in DOMAIN f : Picked(f, Q)[k] = f[i]
  <2> HIDE DEF Q
  <2> QED BY <1>7, PickedElements
<1> HIDE DEF Q
<1>9. QED BY <1>1, <1>4, <1>6, <1>7, <1>8 DEF ListsIn

LEMMA CollapsedIsList ==
    ASSUME NEW text, IsList(text)
    PROVE  IsList(Collapsed(text))
<1> DEFINE t == Trim(text)
           P == {i \in DOMAIN t : t[i] \notin Blanks \/ t[i - 1] \notin Blanks}
           f == Picked(t, P)
           c == [i \in DOMAIN f |-> IF f[i] \in Blanks THEN "_" ELSE f[i]]
<1>1. Collapsed(text) = c BY DEF Collapsed, Each
<1>2. IsList(t) BY TrimIsList
<1>3. IsList(f)
  <2> HIDE DEF P, t
  <2> QED BY <1>2, PickedElements
<1> HIDE DEF f
<1>4. c = [i \in DOMAIN f |-> c[i]] OBVIOUS
<1> HIDE DEF c
<1>5. QED BY <1>1, <1>3, <1>4, MappedIs

LEMMA NormalizedIsList ==
    ASSUME NEW text, IsList(text)
    PROVE  IsList(NormalizeForSupport(text))
<1>1. IsList(Unbroken(text))
  <2> DEFINE P == {i \in DOMAIN text :
        ~\E h \in 1..i : BreaksWord(text, h) /\ \A k \in h + 1..i : text[k] \in Blanks}
  <2> HIDE DEF P
  <2>1. QED BY PickedElements DEF Unbroken
<1>2. QED BY <1>1, CollapsedIsList DEF NormalizeForSupport

(* So does what is read of a page. *)
LEMMA HtmlIsReadAsAList ==
    ASSUME NEW html, IsList(html)
    PROVE  IsList(HtmlToText(html))
<1> DEFINE P == {i \in DOMAIN html : html[i] # "<b>"}
           f == Picked(html, P)
           u == [i \in DOMAIN f |-> CASE f[i] = "<!>" -> "_" [] f[i] = "<p>" -> "/" [] OTHER -> f[i]]
           d == [i \in DOMAIN u |-> IF u[i] = "&nbsp;" THEN "_" ELSE u[i]]
           l == Lines(d)
           lines == [i \in DOMAIN l |-> Collapsed(l[i])]
           joined == [k \in DOMAIN lines |-> (IF k = 1 THEN <<>> ELSE <<"/">>) \o lines[k]]
<1>1. DecodeEntities(Untagged(html)) = d BY DEF DecodeEntities, Each, Untagged, Filtered
<1>2. IsList(f)
  <2> HIDE DEF P
  <2> QED BY PickedElements
<1> HIDE DEF f
<1>3. IsList(u)
  <2>1. u = [i \in DOMAIN f |-> u[i]] OBVIOUS
  <2> HIDE DEF u
  <2>2. QED BY <1>2, <2>1, MappedIs
<1> HIDE DEF u
<1>4. IsList(d)
  <2>1. d = [i \in DOMAIN u |-> d[i]] OBVIOUS
  <2> HIDE DEF d
  <2>2. QED BY <1>3, <2>1, MappedIs
<1>5. HtmlToText(html) = FlattenSeq(joined) BY <1>1 DEF HtmlToText, Each
<1> HIDE DEF d
<1>6. ListsIn(l) BY <1>4, LinesAreLists
<1> HIDE DEF l
<1>7. IsList(lines) /\ \A i \in DOMAIN lines : IsList(lines[i])
  <2>1. \A i \in DOMAIN l : IsList(lines[i]) BY <1>6, CollapsedIsList DEF ListsIn
  <2>2. lines = [i \in DOMAIN l |-> lines[i]] OBVIOUS
  <2> HIDE DEF lines
  <2>3. QED BY <1>6, <2>1, <2>2, MappedIs DEF ListsIn
<1> HIDE DEF lines
<1>8. IsList(joined) /\ \A i \in DOMAIN joined : IsList(joined[i])
  <2>1. \A i \in DOMAIN lines : IsList(joined[i]) BY <1>7, NoneIsAList, OneIsAList, Concat
  <2>2. joined = [i \in DOMAIN lines |-> joined[i]] OBVIOUS
  <2> HIDE DEF joined
  <2>3. QED BY <1>7, <2>1, <2>2, MappedIs
<1>9. ListsIn(joined) BY <1>8 DEF ListsIn
<1> HIDE DEF joined
<1>10. QED BY <1>5, <1>9, FlatElements

-------------------------------------------------------------------------------
(* A run of a run of a text is a run of the text. *)
LEMMA RunsOfRuns ==
    ASSUME NEW a, IsList(a), NEW b, IsList(b), NEW c, IsList(c), Includes(a, b), Includes(b, c)
    PROVE  Includes(a, c)
<1> DEFINE la == Len(a)  lb == Len(b)  lc == Len(c)
<1>1. la \in Nat /\ lb \in Nat /\ lc \in Nat BY ListFacts
<1>2. PICK i \in 0..la - lb : SubSeq(a, i + 1, i + lb) = b BY DEF Includes
<1>3. PICK j \in 0..lb - lc : SubSeq(b, j + 1, j + lc) = c BY DEF Includes
<1>4. /\ i + 1 \in Int /\ i + lb \in Int /\ i + 1 >= 1 /\ i + lb <= la
      /\ j + 1 \in Int /\ j + lc \in Int /\ j + 1 >= 1 /\ j + lc <= lb
  BY <1>1
<1>5. \A k \in 1..lb : b[k] = a[i + k] BY <1>1, <1>2, <1>4, PieceIsList
<1> DEFINE m == i + j  d == SubSeq(a, m + 1, m + lc)
<1>6. m \in 0..la - lc /\ m + 1 \in Int /\ m + lc \in Int /\ m + 1 >= 1 /\ m + lc <= la BY <1>1
<1>7. /\ IsList(d) /\ Len(d) = IF m + 1 <= m + lc THEN (m + lc) - (m + 1) + 1 ELSE 0
      /\ \A k \in 1..(m + lc) - (m + 1) + 1 : d[k] = a[(m + 1) + k - 1]
  <2> HIDE DEF m
  <2> QED BY <1>6, PieceIsList
<1> HIDE DEF d
<1>8. Len(d) = lc BY <1>1, <1>6, <1>7
<1>9. ASSUME NEW k \in 1..lc PROVE d[k] = c[k]
  <2>1. k \in 1..(m + lc) - (m + 1) + 1 /\ (m + 1) + k - 1 = i + (j + k) /\ j + k \in 1..lb BY <1>1
  <2>2. d[k] = a[i + (j + k)] BY <1>7, <2>1
  <2>3. QED BY <1>1, <1>3, <1>4, <1>5, <2>1, <2>2, PieceIsList
<1>10. d = c BY <1>7, <1>8, <1>9, ListEqual
<1>11. QED BY <1>6, <1>10 DEF Includes, d

-------------------------------------------------------------------------------
(* A capture (url-jsonld-adapter.ts, model-adapter): each text of a block  *)
(* is one its source has.                                                  *)

(* The author shown is read off the value. *)
LEMMA AuthorIsRead ==
    ASSUME NEW v, NEW w, From(w, v)
    PROVE  AllRead(v, AuthorDisplay(w))
<1> DEFINE Name(author) == AsDisplayString(IF IsObject(author) THEN Field(author, "name") ELSE author)
           P == {i \in DOMAIN w : w[i].is # "list" /\ ThroughLists(w[i].at, {})}
           f == Picked(w, P)
           ss == [k \in DOMAIN f |-> Name(Part(w, f[k].at))]
<1>1. AuthorDisplay(w) = FirstOf(FlattenSeq(ss)) BY DEF AuthorDisplay, Each, Filtered
<1>2. IsList(w) BY DEF From
<1>3. IsList(f)
  <2> HIDE DEF P
  <2> QED BY <1>2, PickedElements
<1> HIDE DEF f
<1>4. ASSUME NEW k \in DOMAIN f PROVE AllRead(v, ss[k])
  <2> DEFINE author == Part(w, f[k].at)
  <2>1. From(author, v) BY <1>2, PartIsFrom, FromIsTransitive
  <2> HIDE DEF author
  <2>2. AllRead(v, Name(author)) BY <2>1, DisplayIsRead, FieldIsFrom, FromIsTransitive DEF From
  <2>3. QED BY <2>2 DEF author
<1>5. ss = [k \in DOMAIN f |-> ss[k]] OBVIOUS
<1> HIDE DEF ss
<1>6. QED BY <1>1, <1>3, <1>4, <1>5, FirstIsRead, JoinedIsRead, MappedIs

(* Steps as they are read off: their texts, each with a heading. *)
StepsRead(v, steps) == IsList(steps) /\ \A k \in DOMAIN steps : Reads(v, steps[k].text)

(* An element's steps, and the instructions', are read. *)
LEMMA StepsAreRead ==
    ASSUME NEW v, NEW w, From(w, v), NEW path
    PROVE  StepsRead(v, StepsFromElement(w, path))
<1> DEFINE e == Part(w, path)
           pair == <<Field(e, "text"), Field(e, "name")>>
           texts == CASE Kind(e) = "text" -> AsDisplayString(e)
                      [] IsObject(e) /\ ~IsHowToSection(e) -> FirstOf(Displayed(pair))
                      [] OTHER -> <<>>
           steps == [k \in DOMAIN texts |-> [heading |-> HeadingOf(w, path), text |-> texts[k]]]
<1>1. StepsFromElement(w, path) = steps BY DEF StepsFromElement, Each
<1>2. IsList(w) BY DEF From
<1>3. From(e, v) BY <1>2, PartIsFrom, FromIsTransitive
<1> HIDE DEF e
<1>4. IsList(e) BY <1>3 DEF From
<1>5. AllRead(v, Displayed(pair))
  <2>1. IsList(pair)
    <3>1. pair \in Seq({Field(e, "text"), Field(e, "name")}) OBVIOUS
    <3>2. QED BY <3>1, SeqIsList
  <2>2. \A k \in DOMAIN pair : From(pair[k], v) BY <1>3, <1>4, FieldIsFrom, FromIsTransitive
  <2> HIDE DEF pair
  <2>3. QED BY <2>1, <2>2, DisplayedAreRead
<1> HIDE DEF pair
<1>6. AllRead(v, texts) BY <1>3, <1>5, NoneIsAList, DisplayIsRead, FirstIsRead DEF AllRead, IsObject
<1> HIDE DEF texts
<1>7. \A k \in DOMAIN texts : steps[k].text = texts[k] OBVIOUS
<1>8. steps = [k \in DOMAIN texts |-> steps[k]] OBVIOUS
<1> HIDE DEF steps
<1>9. QED BY <1>1, <1>6, <1>7, <1>8, MappedIs DEF StepsRead, AllRead

LEMMA InstructionsAreRead ==
    ASSUME NEW v, IsValue(v), NEW w, From(w, v)
    PROVE  StepsRead(v, InstructionSteps(w))
<1>1. IsList(w) BY DEF From
<1>2. CASE Kind(w) = "text"
  <2> DEFINE lines == Lines(w[1].text)
             steps == [k \in DOMAIN lines |-> [heading |-> <<>>, text |-> lines[k]]]
  <2>1. InstructionSteps(w) = steps BY <1>2 DEF InstructionSteps, Each
  <2>2. 1 \in DOMAIN w /\ w[1].is = "text" BY <1>1, <1>2, ListFacts DEF Kind, Nothing
  <2>3. PICK i \in DOMAIN v : w[1].is = v[i].is /\ w[1].text = v[i].text BY <2>2 DEF From
  <2>4. IsList(lines) BY <2>3, LinesAreLists DEF IsValue, ListOf, Every, ListsIn
  <2>5. \A k \in DOMAIN lines : Reads(v, lines[k]) BY <2>2, <2>3 DEF Reads, PayloadLeaves, ToSet
  <2> HIDE DEF lines
  <2>6. \A k \in DOMAIN lines : steps[k].text = lines[k] OBVIOUS
  <2>7. steps = [k \in DOMAIN lines |-> steps[k]] OBVIOUS
  <2> HIDE DEF steps
  <2>8. QED BY <2>1, <2>4, <2>5, <2>6, <2>7, MappedIs DEF StepsRead
<1>3. CASE Kind(w) # "text"
  <2> DEFINE P == {i \in DOMAIN w : IsElement(w[i].at)}
             f == Picked(w, P)
             ss == [k \in DOMAIN f |-> StepsFromElement(w, f[k].at)]
  <2>1. InstructionSteps(w) = FlattenSeq(ss) BY <1>3 DEF InstructionSteps, Each, Filtered
  <2>2. IsList(f)
    <3> HIDE DEF P
    <3> QED BY <1>1, PickedElements
  <2> HIDE DEF f
  <2>3. \A k \in DOMAIN f : StepsRead(v, ss[k]) BY StepsAreRead
  <2>4. ss = [k \in DOMAIN f |-> ss[k]] OBVIOUS
  <2> HIDE DEF ss
  <2> DEFINE t == FlattenSeq(ss)
  <2> HIDE DEF t
  <2>5. QED BY <2>1, <2>2, <2>3, <2>4, FlatElements, MappedIs DEF t, StepsRead, ListsIn
<1>4. QED BY <1>2, <1>3

(* Steps joined. *)
LEMMA StepsReadJoin ==
    ASSUME NEW v, NEW a, NEW b, StepsRead(v, a), StepsRead(v, b)
    PROVE  StepsRead(v, a \o b)
<1>1. /\ IsList(a) /\ IsList(b) /\ IsList(a \o b)
      /\ DOMAIN (a \o b) = 1..Len(a) + Len(b)
      /\ \A i \in 1..Len(a) : (a \o b)[i] = a[i]
      /\ \A i \in Len(a) + 1..Len(a) + Len(b) : (a \o b)[i] = b[i - Len(a)]
  BY Concat DEF StepsRead
<1> DEFINE c == a \o b
<1> HIDE DEF c
<1>2. ASSUME NEW k \in 1..Len(a) + Len(b) PROVE Reads(v, c[k].text) BY <1>1, ListFacts DEF StepsRead, c
<1>3. QED BY <1>1, <1>2 DEF StepsRead, c

(* A recipe's blocks: those of each part, in order.                        *)
Block(type, heading, texts) ==
    [k \in DOMAIN texts |-> [type |-> type, heading |-> heading, text |-> texts[k]]]
Metadata(recipe, field) == Block("metadata", << <<field>> >>, AsDisplayString(Field(recipe, field)))
Listed(steps) ==
    [k \in DOMAIN steps |-> [type |-> "instruction", heading |-> steps[k].heading, text |-> steps[k].text]]

LEMMA BlocksAreJoined ==
    ASSUME NEW recipe
    PROVE  RecipeToRawBlocks(recipe) =
               Block("title", <<>>, AsDisplayString(Field(recipe, "name")))
               \o Block("author", <<>>, AuthorDisplay(Field(recipe, "author")))
               \o Block("metadata", << <<"recipeYield">> >>, DisplayYield(Field(recipe, "recipeYield")))
               \o Metadata(recipe, "prepTime") \o Metadata(recipe, "cookTime")
               \o Metadata(recipe, "totalTime") \o Metadata(recipe, "description")
               \o Block("ingredient", <<>>, IngredientLines(Field(recipe, "recipeIngredient")))
               \o Listed(InstructionSteps(Field(recipe, "recipeInstructions")))
BY DEF RecipeToRawBlocks, Each, Block, Metadata, Listed

LEMMA PartsAreRead ==
    ASSUME NEW recipe, IsValue(recipe)
    PROVE  /\ \A field : AllRead(recipe, AsDisplayString(Field(recipe, field)))
           /\ AllRead(recipe, AuthorDisplay(Field(recipe, "author")))
           /\ AllRead(recipe, DisplayYield(Field(recipe, "recipeYield")))
           /\ AllRead(recipe, IngredientLines(Field(recipe, "recipeIngredient")))
           /\ StepsRead(recipe, InstructionSteps(Field(recipe, "recipeInstructions")))
<1>1. ASSUME NEW w, From(w, recipe) PROVE AllRead(recipe, Displayed(Items(w)))
  BY <1>1, ItemsAreFrom, FromIsTransitive, DisplayedAreRead DEF From
<1>2. QED
  BY <1>1, DisplayIsRead, AuthorIsRead, FirstIsRead, InstructionsAreRead, FieldIsFrom DEF DisplayYield,
     IngredientLines, IsValue, ListOf

(* Blocks are taken off a recipe as its leaves read. *)
LEMMA BlocksAreRead ==
    ASSUME NEW recipe, IsValue(recipe)
    PROVE  StepsRead(recipe, RecipeToRawBlocks(recipe))
<1> DEFINE steps == InstructionSteps(Field(recipe, "recipeInstructions"))
           b1 == Block("title", <<>>, AsDisplayString(Field(recipe, "name")))
           b2 == Block("author", <<>>, AuthorDisplay(Field(recipe, "author")))
           b3 == Block("metadata", << <<"recipeYield">> >>, DisplayYield(Field(recipe, "recipeYield")))
           b4 == Metadata(recipe, "prepTime")
           b5 == Metadata(recipe, "cookTime")
           b6 == Metadata(recipe, "totalTime")
           b7 == Metadata(recipe, "description")
           b8 == Block("ingredient", <<>>, IngredientLines(Field(recipe, "recipeIngredient")))
           b9 == Listed(steps)
<1>1. ASSUME NEW type, NEW heading, NEW texts, AllRead(recipe, texts)
      PROVE  StepsRead(recipe, Block(type, heading, texts))
  <2> DEFINE b == Block(type, heading, texts)
  <2> HIDE DEF b
  <2>1. QED BY <1>1, MappedIs DEF b, StepsRead, AllRead, Block
<1>2. StepsRead(recipe, b9)
  <2>1. StepsRead(recipe, steps) BY PartsAreRead
  <2> HIDE DEF steps
  <2>2. b9 = [k \in DOMAIN steps |-> b9[k]] /\ \A k \in DOMAIN steps : b9[k].text = steps[k].text
    BY DEF Listed
  <2> HIDE DEF b9
  <2>3. QED BY <2>1, <2>2, MappedIs DEF StepsRead
<1>3. /\ StepsRead(recipe, b1) /\ StepsRead(recipe, b2) /\ StepsRead(recipe, b3)
      /\ StepsRead(recipe, b4) /\ StepsRead(recipe, b5) /\ StepsRead(recipe, b6)
      /\ StepsRead(recipe, b7) /\ StepsRead(recipe, b8)
  BY <1>1, PartsAreRead DEF Metadata
<1>4. RecipeToRawBlocks(recipe) = b1 \o b2 \o b3 \o b4 \o b5 \o b6 \o b7 \o b8 \o b9 BY BlocksAreJoined
<1> HIDE DEF b1, b2, b3, b4, b5, b6, b7, b8, b9
<1>5. QED BY <1>2, <1>3, <1>4, StepsReadJoin

(* Lists of JSON values. *)
Values(seq) == IsList(seq) /\ \A k \in DOMAIN seq : IsValue(seq[k])

(* The path begins another.                                                *)
Begins(path, at) == Len(path) <= Len(at) /\ \A d \in 1..Len(path) : at[d] = path[d]

(* A path is a prefix of those it begins. *)
LEMMA PrefixBegins ==
    ASSUME NEW path, IsList(path), NEW at, IsList(at)
    PROVE  IsPrefix(path, at) <=> Begins(path, at)
<1> DEFINE l == Len(path)
<1>1. ASSUME l <= Len(at) PROVE (SubSeq(path, 1, l) = SubSeq(at, 1, l)) <=> \A d \in 1..l : at[d] = path[d]
  <2> DEFINE a == SubSeq(path, 1, l)  b == SubSeq(at, 1, l)
  <2> HIDE DEF a, b
  <2>1. QED BY <1>1, ListEqual, PieceIsList, ListFacts DEF a, b
<1>2. QED BY <1>1 DEF Begins, IsPrefix

(* The nodes of a part are those its path begins, in their order, each at  *)
(* what is left of its path.                                               *)
NodesOfPart(w, v, path, p) ==
    /\ IsList(w) /\ Len(w) = Len(p) /\ Len(p) \in Nat
    /\ Enumerates(p, {i \in 1..Len(v) : Begins(path, v[i].at)})
    /\ \A k \in 1..Len(p) :
           /\ p[k] \in 1..Len(v) /\ Begins(path, v[p[k]].at)
           /\ w[k].is = v[p[k]].is /\ w[k].text = v[p[k]].text
           /\ IsList(w[k].at) /\ Len(path) + Len(w[k].at) = Len(v[p[k]].at)
           /\ \A d \in 1..Len(w[k].at) : w[k].at[d] = v[p[k]].at[Len(path) + d]

(* Part gives the nodes of the part. *)
LEMMA PartHasNodes ==
    ASSUME NEW v, IsValue(v), NEW path, IsList(path)
    PROVE  \E p : NodesOfPart(Part(v, path), v, path, p)
<1> DEFINE P == {i \in DOMAIN v : IsPrefix(path, v[i].at)}
           B == {i \in 1..Len(v) : Begins(path, v[i].at)}
           f == Picked(v, P)
           p == PickedAt(Len(v), P)
           part == [i \in DOMAIN f |->
                      [at |-> SubSeq(f[i].at, Len(path) + 1, Len(f[i].at)), is |-> f[i].is, text |-> f[i].text]]
<1>1. Part(v, path) = part BY DEF Part, Each, Filtered
<1>2. IsList(v) /\ \A i \in DOMAIN v : IsList(v[i].at) /\ IsList(v[i].text) BY DEF IsValue, ListOf, Every
<1>3. DOMAIN v = 1..Len(v) /\ Len(v) \in Nat /\ Len(path) \in Nat BY <1>2, ListFacts
<1>4. P = B BY <1>2, <1>3, PrefixBegins
<1>5. B \subseteq 1..Len(v) /\ \A i \in B : Begins(path, v[i].at) OBVIOUS
<1>6. P \cap (1..Len(v)) = B BY <1>4, <1>5
<1> HIDE DEF P, B
<1>7. /\ Enumerates(p, B) /\ Len(p) \in Nat
      /\ \A k \in 1..Len(p) : p[k] \in 1..Len(v) /\ p[k] \in B
      /\ IsList(f) /\ Len(f) = Len(p)
      /\ \A k \in 1..Len(p) : f[k] = v[p[k]]
  <2>1. p = PickedAt(Len(v), P) OBVIOUS
  <2> HIDE DEF p
  <2>2. QED BY <1>2, <1>4, <1>6, <2>1, PickedIs
<1> HIDE DEF p, f
<1>8. ASSUME NEW k \in 1..Len(p)
      PROVE  /\ part[k].is = v[p[k]].is /\ part[k].text = v[p[k]].text
             /\ IsList(part[k].at) /\ Len(path) + Len(part[k].at) = Len(v[p[k]].at)
             /\ \A d \in 1..Len(part[k].at) : part[k].at[d] = v[p[k]].at[Len(path) + d]
  <2> DEFINE at == v[p[k]].at  m == Len(path) + 1  n == Len(at)  s == SubSeq(at, m, n)
  <2>1. IsList(at) /\ Begins(path, at) BY <1>2, <1>3, <1>5, <1>7
  <2>2. m \in Int /\ n \in Int /\ m >= 1 /\ n <= Len(at) /\ m <= n + 1
    BY <1>3, <2>1, ListFacts DEF Begins
  <2>3. part[k].at = s /\ part[k].is = v[p[k]].is /\ part[k].text = v[p[k]].text BY <1>7, ListFacts
  <2>4. Len(path) = m - 1 BY <1>3
  <2> HIDE DEF part, m, n, at
  <2>5. IsList(s) /\ Len(s) = (IF m <= n THEN n - m + 1 ELSE 0) /\ \A d \in 1..n - m + 1 : s[d] = at[m + d - 1]
    BY <2>1, <2>2, PieceIsList
  <2> HIDE DEF s
  <2>6. Len(s) = n - m + 1 BY <2>2, <2>5
  <2>7. ASSUME NEW d \in 1..Len(s) PROVE s[d] = at[Len(path) + d] BY <2>2, <2>4, <2>5, <2>6
  <2>8. QED BY <2>2, <2>3, <2>4, <2>5, <2>6, <2>7 DEF at, n
<1>9. IsList(part) /\ Len(part) = Len(p)
  <2>1. part = [i \in DOMAIN f |-> part[i]] OBVIOUS
  <2> HIDE DEF part
  <2>2. QED BY <1>7, <2>1, MappedIs
<1> HIDE DEF part
<1>10. NodesOfPart(part, v, path, p) BY <1>5, <1>7, <1>8, <1>9 DEF NodesOfPart, B
<1>11. QED BY <1>1, <1>10

(* What is left of paths that are as long and go on alike is alike.        *)
LEMMA SamePath ==
    ASSUME NEW path, IsList(path), NEW a, IsList(a), NEW b, IsList(b), Begins(path, a), Begins(path, b),
           Len(a) = Len(b), \A d \in 1..Len(a) - Len(path) : a[Len(path) + d] = b[Len(path) + d]
    PROVE  a = b
<1>1. Len(path) \in Nat /\ Len(a) \in Nat BY ListFacts
<1>2. ASSUME NEW e \in 1..Len(a) PROVE a[e] = b[e]
  <2>1. CASE e \in 1..Len(path) BY <2>1 DEF Begins
  <2>2. CASE e \notin 1..Len(path) BY <1>1, <2>2
  <2>3. QED BY <2>1, <2>2
<1>3. QED BY <1>2, ListEqual

(* A part of a value is one. *)
LEMMA PartIsValue ==
    ASSUME NEW v, IsValue(v), NEW path, IsList(path)
    PROVE  IsValue(Part(v, path))
<1> DEFINE w == Part(v, path)  l == Len(path)
<1>1. PICK p : NodesOfPart(w, v, path, p) BY PartHasNodes
<1>2. IsList(v) /\ (\A i \in DOMAIN v : IsList(v[i].at) /\ IsList(v[i].text)) /\ IsTree(v)
  BY DEF IsValue, ListOf, Every
<1> HIDE DEF w
<1>3. IsList(w) /\ DOMAIN w = 1..Len(p) /\ Len(p) \in Nat /\ DOMAIN v = 1..Len(v) /\ l \in Nat
  BY <1>1, <1>2, ListFacts DEF NodesOfPart
<1> DEFINE B == {i \in 1..Len(v) : Begins(path, v[i].at)}
<1>4. B \subseteq 1..Len(v) /\ Len(v) \in Nat /\ Enumerates(p, B) BY <1>1, <1>2, ListFacts DEF NodesOfPart
<1>5. /\ \A k \in 1..Len(p) :
             /\ p[k] \in 1..Len(v) /\ Begins(path, v[p[k]].at)
             /\ w[k].is = v[p[k]].is /\ w[k].text = v[p[k]].text
             /\ IsList(w[k].at) /\ l + Len(w[k].at) = Len(v[p[k]].at)
             /\ \A d \in 1..Len(w[k].at) : w[k].at[d] = v[p[k]].at[l + d]
             /\ IsList(v[p[k]].at) /\ IsList(v[p[k]].text) /\ Len(w[k].at) \in Nat
  BY <1>1, <1>2, <1>3, ListFacts DEF NodesOfPart
<1>6. ASSUME NEW j \in 1..Len(p), NEW k \in 1..Len(p), w[j].at = w[k].at PROVE j = k
  <2>1. Len(v[p[j]].at) = Len(v[p[k]].at) BY <1>5, <1>6
  <2>2. \A d \in 1..Len(v[p[j]].at) - l : v[p[j]].at[l + d] = v[p[k]].at[l + d]
    <3>1. Len(v[p[j]].at) - l = Len(w[j].at) BY <1>3, <1>5
    <3>2. \A d \in 1..Len(w[j].at) : w[j].at[d] = v[p[k]].at[l + d] BY <1>5, <1>6
    <3> HIDE DEF l
    <3>3. QED BY <1>5, <3>1, <3>2
  <2>3. v[p[j]].at = v[p[k]].at BY <1>5, <2>1, <2>2, SamePath
  <2>4. p[j] = p[k] BY <1>2, <1>3, <1>5, <2>3 DEF IsTree
  <2>5. QED BY <1>4, <2>4, EnumerationIsOneByOne
<1>7. ASSUME NEW k \in 1..Len(p), NEW d \in 0..Len(w[k].at) - 1
      PROVE  \E j \in 1..k - 1 : /\ w[j].at = SubSeq(w[k].at, 1, d)
                                  /\ w[j].is = IF IsItem(w[k].at[d + 1]) THEN "list" ELSE "object"
  <2> DEFINE at == v[p[k]].at  up == l + d
  <2>1. up \in 0..Len(at) - 1 /\ up \in Nat /\ up <= Len(at) /\ d \in Nat /\ Len(at) \in Nat
        /\ d <= Len(w[k].at) /\ w[k].at[d + 1] = at[up + 1]
    <3>1. Len(w[k].at) \in Nat /\ l + Len(w[k].at) = Len(at) BY <1>5
    <3>2. d + 1 \in 1..Len(w[k].at) /\ l + (d + 1) = up + 1 BY <1>3, <3>1
    <3>3. w[k].at[d + 1] = at[l + (d + 1)] BY <1>5, <3>2
    <3>4. w[k].at[d + 1] = at[up + 1]
      <4> HIDE DEF at, up, l
      <4>1. QED BY <3>2, <3>3
    <3>5. up \in 0..Len(at) - 1 /\ up \in Nat /\ up <= Len(at) /\ d \in Nat /\ d <= Len(w[k].at)
      <4> HIDE DEF at, l
      <4>1. QED BY <1>3, <3>1
    <3> HIDE DEF at, up, l
    <3>6. QED BY <3>1, <3>4, <3>5
  <2>2. PICK i \in 1..p[k] - 1 : /\ v[i].at = SubSeq(at, 1, up)
                                /\ v[i].is = IF IsItem(at[up + 1]) THEN "list" ELSE "object"
    BY <1>2, <1>3, <1>5, <2>1 DEF IsTree
  <2>3. i \in 1..Len(v) /\ i < p[k] BY <1>4, <1>5
  <2>4. Len(v[i].at) = up /\ \A e \in 1..up : v[i].at[e] = at[e]
    <3>1. IsList(at) /\ up \in 0..Len(at) BY <1>5, <2>1
    <3> HIDE DEF up, at
    <3>2. Len(SubSeq(at, 1, up)) = up /\ \A e \in 1..up : SubSeq(at, 1, up)[e] = at[e]
      BY ONLY <3>1, StartIsList
    <3>3. ASSUME NEW e \in 1..up PROVE v[i].at[e] = at[e] BY <2>1, <2>2, <3>2
    <3>4. QED BY <2>1, <2>2, <3>2, <3>3
  <2>5. Begins(path, v[i].at)
    <3>1. Begins(path, at) BY <1>5
    <3>2. \A e \in 1..l : e \in 1..up BY <1>3, <2>1
    <3>3. l <= up BY <1>3, <2>1
    <3> HIDE DEF at, up
    <3>4. QED BY <2>4, <3>1, <3>2, <3>3 DEF Begins
  <2>6. PICK j \in 1..Len(p) : p[j] = i BY <1>4, <2>3, <2>5 DEF Enumerates
  <2>7. j < k BY <1>4, <2>3, <2>6, EnumerationIsOneByOne
  <2>8. j \in 1..k - 1 BY <1>3, <2>7
  <2>9. w[j].at = SubSeq(w[k].at, 1, d)
    <3> DEFINE s == SubSeq(w[k].at, 1, d)
    <3>1. /\ IsList(s) /\ Len(s) = d
          /\ \A e \in 1..d : s[e] = w[k].at[e]
      <4> DEFINE tail == w[k].at
      <4>1. IsList(tail) /\ d \in 0..Len(tail) BY <1>5, <2>1
      <4> HIDE DEF tail
      <4>2. /\ IsList(SubSeq(tail, 1, d)) /\ Len(SubSeq(tail, 1, d)) = d
            /\ \A e \in 1..d : SubSeq(tail, 1, d)[e] = tail[e]
        BY ONLY <4>1, StartIsList
      <4>3. QED BY <4>2 DEF tail
    <3> HIDE DEF s
    <3>2. Len(s) = d BY <3>1
    <3>3. \A e \in 1..d : s[e] = w[k].at[e] BY <3>1
    <3>4. IsList(w[j].at) /\ l + Len(w[j].at) = up /\ Len(w[j].at) \in Nat BY <1>5, <2>4, <2>6
    <3>5. Len(w[j].at) = d BY <1>3, <2>1, <3>4
    <3>6. ASSUME NEW e \in 1..d PROVE w[j].at[e] = s[e]
      <4>1. l + e \in 1..up
        <5> HIDE DEF l
        <5>1. QED BY <1>3, <2>1
      <4>2. v[i].at[l + e] = at[l + e]
        <5> HIDE DEF at, up
        <5>1. QED BY <2>4, <4>1
      <4>3. e \in 1..Len(w[k].at) BY <2>1, <1>5
      <4>4. QED BY <1>5, <2>6, <3>3, <3>5, <4>2, <4>3
    <3>7. QED BY <3>1, <3>2, <3>4, <3>5, <3>6, ListEqual DEF s
  <2>10. w[j].is = IF IsItem(w[k].at[d + 1]) THEN "list" ELSE "object"
    <3> HIDE DEF at, up
    <3>1. QED BY <1>5, <2>1, <2>2, <2>6
  <2>11. QED BY <2>8, <2>9, <2>10
<1>8. ASSUME NEW k \in 1..Len(p), NEW d \in DOMAIN w[k].at PROVE IsStep(w[k].at[d])
  <2>1. d \in 1..Len(w[k].at) BY <1>5, <1>8, ListFacts
  <2>2. l + d \in 1..Len(v[p[k]].at) BY <1>3, <1>5, <2>1
  <2>3. l + d \in DOMAIN v[p[k]].at BY <1>5, <2>2, ListFacts
  <2>4. w[k].at[d] = v[p[k]].at[l + d] BY <1>5, <2>1
  <2> HIDE DEF l
  <2>5. QED BY <1>2, <1>3, <1>5, <2>3, <2>4 DEF IsTree
<1>9. ASSUME NEW j \in 1..Len(p), NEW k \in 1..Len(p), ReadBefore(w[j].at, w[k].at) PROVE j < k
  <2> DEFINE a == v[p[j]].at  b == v[p[k]].at  x == w[j].at  y == w[k].at
  <2>1. /\ Len(x) \in Nat /\ Len(y) \in Nat /\ DOMAIN x = 1..Len(x) /\ DOMAIN y = 1..Len(y)
        /\ Len(a) = l + Len(x) /\ Len(b) = l + Len(y) /\ DOMAIN a = 1..Len(a) /\ DOMAIN b = 1..Len(b)
        /\ (\A e \in 1..Len(x) : x[e] = a[l + e]) /\ (\A e \in 1..Len(y) : y[e] = b[l + e])
        /\ \A e \in 1..l : a[e] = b[e]
    BY <1>5, ListFacts DEF Begins
  <2>2. ReadBefore(x, y) BY <1>9
  <2> HIDE DEF a, b, x, y, l
  <2>3. PICK d \in DOMAIN x \cap DOMAIN y :
            /\ \A e \in 1..d - 1 : x[e] = y[e]
            /\ IsItem(x[d]) /\ IsItem(y[d]) /\ x[d][2] < y[d][2]
    BY <2>2 DEF ReadBefore
  <2>4. d \in 1..Len(x) /\ d \in 1..Len(y) BY <2>1, <2>3
  <2>5. l + d \in DOMAIN a \cap DOMAIN b /\ a[l + d] = x[d] /\ b[l + d] = y[d] BY <1>3, <2>1, <2>4
  <2>6. ASSUME NEW e \in 1..(l + d) - 1 PROVE a[e] = b[e]
    <3>1. CASE e \in 1..l BY <2>1, <3>1
    <3>2. CASE e \notin 1..l
      <4>1. e - l \in 1..d - 1 /\ l + (e - l) = e BY <1>3, <2>1, <2>4, <3>2
      <4>2. e - l \in 1..Len(x) /\ e - l \in 1..Len(y) BY <2>1, <2>4, <4>1
      <4>3. x[e - l] = y[e - l] BY <2>3, <4>1
      <4>4. x[e - l] = a[l + (e - l)] /\ y[e - l] = b[l + (e - l)] BY <2>1, <4>2
      <4>5. QED BY <4>1, <4>3, <4>4
    <3>3. QED BY <3>1, <3>2
  <2>7. ReadBefore(a, b) BY <2>3, <2>5, <2>6 DEF ReadBefore
  <2>8. p[j] < p[k] BY <1>2, <1>3, <1>5, <2>7 DEF IsTree, a, b
  <2>9. \A f, g \in 1..Len(p) : p[f] < p[g] => f < g BY <1>4, EnumerationIsOneByOne
  <2>10. QED BY <2>8, <2>9
<1>10. IsTree(w) BY <1>3, <1>6, <1>7, <1>8, <1>9 DEF IsTree
<1>11. IsValue(w) BY <1>3, <1>5, <1>10 DEF IsValue, ListOf, Every
<1>12. QED BY <1>11 DEF w

LEMMA PickedValues ==
    ASSUME NEW seq, Values(seq), NEW P
    PROVE  Values(Picked(seq, P))
<1> DEFINE t == Picked(seq, P)
<1>1. IsList(t) /\ \A k \in DOMAIN t : \E i \in DOMAIN seq : t[k] = seq[i] BY PickedElements DEF Values
<1> HIDE DEF t
<1>2. Values(t) BY <1>1 DEF Values
<1>3. QED BY <1>2 DEF t

LEMMA ObjectsAreValues ==
    ASSUME NEW page, IsPage(page)
    PROVE  Values(LoadLdObjects(page))
<1>1. IsList(page.scripts) /\ \A i \in DOMAIN page.scripts : ListOf(page.scripts[i], IsValue)
  BY DEF IsPage, ListOf, Every
<1> DEFINE scripts == page.scripts
           ss == [i \in DOMAIN scripts |-> IF scripts[i] = <<>> THEN <<>> ELSE IterNodes(scripts[i][1])]
<1>2. LoadLdObjects(page) = FlattenSeq(ss) BY DEF LoadLdObjects, Each
<1>3. ASSUME NEW v, IsValue(v) PROVE Values(IterNodes(v))
  <2> DEFINE P == {i \in DOMAIN v : v[i].is = "object" /\ ThroughLists(v[i].at, {"@graph"})}
             f == Picked(v, P)
             parts == [i \in DOMAIN f |-> Part(v, f[i].at)]
  <2>1. IterNodes(v) = parts BY DEF IterNodes, Each, Filtered
  <2>2. IsList(f) /\ \A k \in DOMAIN f : \E i \in DOMAIN v : f[k] = v[i]
    <3>1. IsList(v) BY <1>3 DEF IsValue, ListOf
    <3> HIDE DEF P
    <3>2. QED BY <3>1, PickedElements
  <2> HIDE DEF f
  <2>3. \A k \in DOMAIN f : IsValue(parts[k]) BY <1>3, <2>2, PartIsValue DEF IsValue, ListOf, Every
  <2>4. parts = [i \in DOMAIN f |-> parts[i]] OBVIOUS
  <2> HIDE DEF parts
  <2>5. QED BY <2>1, <2>2, <2>3, <2>4, MappedIs DEF Values
<1>4. ASSUME NEW i \in DOMAIN scripts PROVE Values(ss[i])
  <2>1. CASE scripts[i] = <<>> BY <2>1, NoneIsAList DEF Values
  <2>2. CASE scripts[i] # <<>> BY <1>1, <1>3, <2>2, ListFacts DEF ListOf, Every
  <2>3. QED BY <2>1, <2>2
<1>5. ss = [i \in DOMAIN scripts |-> ss[i]] OBVIOUS
<1> HIDE DEF ss
<1>6. IsList(ss) /\ DOMAIN ss = DOMAIN scripts BY <1>1, <1>5, MappedIs
<1>7. ListsIn(ss) BY <1>4, <1>6 DEF ListsIn, Values
<1> DEFINE t == FlattenSeq(ss)
<1>8. /\ IsList(t)
      /\ \A k \in DOMAIN t : \E i \in DOMAIN ss : \E j \in DOMAIN ss[i] : t[k] = ss[i][j]
  BY <1>7, FlatElements
<1> HIDE DEF t
<1>9. Values(t) BY <1>4, <1>6, <1>8 DEF Values
<1>10. QED BY <1>2, <1>9 DEF t

(* A recipe has as many required fields as it misses none of. *)
LEMMA CountIsMissing ==
    ASSUME NEW r
    PROVE  /\ RequiredSatisfiedCount(r) \in 0..4
           /\ (MissingRequired(r) = <<>>) <=> (RequiredSatisfiedCount(r) = 4)
<1> DEFINE Q == {i \in DOMAIN Required : ~NonEmpty(Field(r, Required[i]))}
           missing == Picked(Required, Q)
<1>1. IsList(Required) /\ Len(Required) = 4
  <2>1. Required = [i \in 1..4 |-> Required[i]] BY DEF Required
  <2>2. QED BY <2>1, AFunctionIsAList
<1>2. Q \subseteq 1..4 BY <1>1, ListFacts
<1>3. MissingRequired(r) = missing BY DEF MissingRequired, Filtered
<1> HIDE DEF Q
<1>4. Len(missing) = Cardinality(Q) BY <1>1, <1>2, PickedCounts
<1>5. Cardinality(Q) \in Nat /\ Cardinality(Q) <= 4 BY <1>2, PlacesAreFinite
<1> HIDE DEF missing
<1>6. QED BY <1>1, <1>3, <1>4, <1>5, ListFacts, PickedElements DEF RequiredSatisfiedCount

(* The richest of nodes is one of them. *)
LEMMA TheRichestIsOne ==
    ASSUME NEW nodes, IsList(nodes), nodes # <<>>
    PROVE  \E i \in DOMAIN nodes :
              /\ Richest(nodes) = nodes[i]
              /\ \A j \in DOMAIN nodes : RequiredSatisfiedCount(nodes[j]) <= RequiredSatisfiedCount(nodes[i])
<1> DEFINE counts == {RequiredSatisfiedCount(nodes[i]) : i \in DOMAIN nodes}
           P == {i \in DOMAIN nodes : RequiredSatisfiedCount(nodes[i]) = Max(counts)}
           f == Picked(nodes, P)
<1>1. Richest(nodes) = f[1] BY DEF Richest, Filtered
<1>2. 1 \in DOMAIN nodes BY ListFacts
<1>3. counts \subseteq 0..4 /\ counts # {} BY <1>2, CountIsMissing
<1>4. Max(counts) \in counts /\ \A c \in counts : c <= Max(counts)
  <2> HIDE DEF counts
  <2> QED BY <1>3, Most
<1>5. PICK i \in DOMAIN nodes : i \in P BY <1>4
<1>6. \A j \in P : j \in DOMAIN nodes /\ RequiredSatisfiedCount(nodes[j]) = Max(counts) OBVIOUS
<1>7. \A j \in DOMAIN nodes : RequiredSatisfiedCount(nodes[j]) <= Max(counts) BY <1>4
<1> HIDE DEF P
<1>8. /\ IsList(f) /\ \A k \in DOMAIN f : \E j \in DOMAIN nodes : j \in P /\ f[k] = nodes[j]
      /\ \E k \in DOMAIN f : f[k] = nodes[i]
  BY <1>5, PickedElements
<1> HIDE DEF f
<1>9. PICK j \in DOMAIN nodes : j \in P /\ f[1] = nodes[j] BY <1>8, ListFacts
<1> HIDE DEF counts
<1>10. QED BY <1>1, <1>9, <1>6, <1>7

(* The places where a key is met first: one for each key.                  *)
FirstPlaces(n, key) == PickedAt(n, {i \in 1..n : \A j \in 1..i - 1 : key[j] # key[i]})

\* What they are: every key is met at one of them, and at one only.
AreFirst(f, n, key) ==
    /\ IsList(f) /\ DOMAIN f = 1..Len(f)
    /\ \A m \in DOMAIN f : f[m] \in 1..n
    /\ \A i \in 1..n : \E m \in DOMAIN f : key[f[m]] = key[i]
    /\ \A m, k \in DOMAIN f : key[f[m]] = key[f[k]] => m = k

LEMMA FirstPlacesAre ==
    ASSUME NEW n \in Nat, NEW key, NEW f, f = FirstPlaces(n, key)
    PROVE  AreFirst(f, n, key)
<1> DEFINE P == {i \in 1..n : \A j \in 1..i - 1 : key[j] # key[i]}
<1>1. P \subseteq 1..n /\ \A i \in P : \A j \in 1..i - 1 : key[j] # key[i] OBVIOUS
<1>2. \A i \in 1..n : i \in P <=> \A j \in 1..i - 1 : key[j] # key[i] OBVIOUS
<1>3. f = PickedAt(n, P) BY DEF FirstPlaces
<1> HIDE DEF P
<1>4. Enumerates(f, P) BY <1>1, <1>3, PlacesAreEnumerated
<1>5. IsList(f) /\ DOMAIN f = 1..Len(f) /\ Len(f) \in Nat BY <1>4, ListFacts DEF Enumerates
<1>6. \A m \in DOMAIN f : f[m] \in P /\ f[m] \in 1..n BY <1>1, <1>4, <1>5 DEF Enumerates
<1>7. ASSUME NEW i \in 1..n PROVE \E m \in DOMAIN f : key[f[m]] = key[i]
  <2> DEFINE T == {j \in 1..n : key[j] = key[i]}  least == Min(T)
  <2>1. T \subseteq Nat /\ i \in T OBVIOUS
  <2>2. \A j \in 1..n : key[j] = key[i] => j \in T OBVIOUS
  <2>3. \A j \in T : j \in 1..n /\ key[j] = key[i] OBVIOUS
  <2> HIDE DEF T
  <2>4. least \in T /\ \A x \in T : least <= x BY <2>1, Least
  <2> HIDE DEF least
  <2>5. least \in P BY <1>2, <2>2, <2>3, <2>4
  <2>6. PICK m \in 1..Len(f) : f[m] = least BY <1>4, <2>5 DEF Enumerates
  <2>7. QED BY <1>5, <2>3, <2>4, <2>6
<1>8. ASSUME NEW m \in DOMAIN f, NEW k \in DOMAIN f, m < k PROVE key[f[m]] # key[f[k]]
  BY <1>1, <1>4, <1>5, <1>6, <1>8 DEF Enumerates
<1>9. \A m, k \in DOMAIN f : key[f[m]] = key[f[k]] => m = k BY <1>5, <1>8
<1>10. QED BY <1>5, <1>6, <1>7, <1>9 DEF AreFirst

(* The recipes among nodes of one name: one, or one for each of their ids. *)
LEMMA RecipesOfOneName ==
    ASSUME NEW members, IsList(members), members # <<>>, NEW r, r = RecipesOf(members)
    PROVE  /\ IsList(r) /\ r # <<>>
           /\ \A m \in DOMAIN r : \E i \in DOMAIN members : r[m] = members[i]
           /\ \A m, k \in DOMAIN r : m # k => DifferById(r[m], r[k])
           /\ \A i \in DOMAIN members : \E m \in DOMAIN r :
                  /\ ~DifferById(members[i], r[m])
                  /\ Len(r) = 1 => RequiredSatisfiedCount(members[i]) <= RequiredSatisfiedCount(r[m])
           /\ \A m \in DOMAIN r : IdOf(r[m]) = <<>> =>
                  \A i, j \in DOMAIN members : ~DifferById(members[i], members[j])
<1> DEFINE known == Known(members)
           id == [k \in 1..Len(known) |-> IdOf(known[k])]
           f == FirstPlaces(Len(known), id)
           byId == ById(members)
<1>1. /\ IsList(known) /\ DOMAIN known = 1..Len(known) /\ Len(known) \in Nat
      /\ \A k \in DOMAIN known : IdOf(known[k]) # <<>> /\ \E i \in DOMAIN members : known[k] = members[i]
      /\ \A i \in DOMAIN members : IdOf(members[i]) # <<>> => \E k \in DOMAIN known : known[k] = members[i]
  <2> DEFINE P == {i \in DOMAIN members : IdOf(members[i]) # <<>>}
  <2>1. known = Picked(members, P) BY DEF Known, Filtered
  <2>2. \A i \in DOMAIN members : i \in P <=> IdOf(members[i]) # <<>> OBVIOUS
  <2> HIDE DEF P, known
  <2>3. QED BY <2>1, <2>2, PickedElements
<1>2. byId = [m \in DOMAIN f |-> OfId(known, f[m])]
  <2> DEFINE ids == [i \in DOMAIN known |-> i]
             g == Groups(known, LAMBDA k : IdOf(known[k]))
             P == {i \in DOMAIN ids : \A j \in 1..ids[i] - 1 : IdOf(known[j]) # IdOf(known[ids[i]])}
             Q == {i \in 1..Len(known) : \A j \in 1..i - 1 : id[j] # id[i]}
  <2>1. byId = [m \in DOMAIN g |-> OfId(known, g[m])] BY DEF ById, Each
  <2>2. g = Picked(ids, P) BY DEF Groups, Filtered
  <2>3. ids = [i \in 1..Len(known) |-> i] BY <1>1
  <2>4. \A i \in 1..Len(known) : \A j \in 1..i - 1 : j \in 1..Len(known) BY <1>1
  <2>5. P = Q
    <3> HIDE DEF known
    <3>1. \A i \in 1..Len(known) : id[i] = IdOf(known[i]) /\ ids[i] = i BY <2>3
    <3>2. DOMAIN ids = 1..Len(known) BY <2>3
    <3> HIDE DEF id, ids
    <3>3. QED BY <2>4, <3>1, <3>2
  <2>6. f = Picked(ids, Q) BY <2>3 DEF FirstPlaces, PickedAt
  <2> HIDE DEF P, Q, ids, g, f, known, byId
  <2>7. QED BY <2>1, <2>2, <2>5, <2>6
<1> HIDE DEF known
<1>3. /\ IsList(f) /\ DOMAIN f = 1..Len(f)
      /\ \A m \in DOMAIN f : f[m] \in DOMAIN known
      /\ \A i \in DOMAIN known : \E m \in DOMAIN f : IdOf(known[f[m]]) = IdOf(known[i])
      /\ \A m, k \in DOMAIN f : IdOf(known[f[m]]) = IdOf(known[f[k]]) => m = k
  <2>1. \A i \in 1..Len(known) : id[i] = IdOf(known[i]) OBVIOUS
  <2>2. f = FirstPlaces(Len(known), id) OBVIOUS
  <2> HIDE DEF id, f
  <2>3. /\ IsList(f) /\ DOMAIN f = 1..Len(f)
        /\ \A m \in DOMAIN f : f[m] \in 1..Len(known)
        /\ \A i \in 1..Len(known) : \E m \in DOMAIN f : id[f[m]] = id[i]
        /\ \A m, k \in DOMAIN f : id[f[m]] = id[f[k]] => m = k
    <3> DEFINE n == Len(known)
    <3>1. f = FirstPlaces(n, id) /\ n \in Nat BY <1>1, <2>2
    <3> HIDE DEF n
    <3>2. /\ IsList(f) /\ DOMAIN f = 1..Len(f)
          /\ \A m \in DOMAIN f : f[m] \in 1..n
          /\ \A i \in 1..n : \E m \in DOMAIN f : id[f[m]] = id[i]
          /\ \A m, k \in DOMAIN f : id[f[m]] = id[f[k]] => m = k
      BY <3>1, FirstPlacesAre DEF AreFirst
    <3>3. QED BY <3>2 DEF n
  <2>4. DOMAIN known = 1..Len(known) BY <1>1
  <2>5. ASSUME NEW m \in DOMAIN f, NEW k \in DOMAIN f, IdOf(known[f[m]]) = IdOf(known[f[k]]) PROVE m = k
    <3>1. f[m] \in 1..Len(known) /\ f[k] \in 1..Len(known) BY <2>3
    <3>2. id[f[m]] = id[f[k]] BY <2>1, <2>5, <3>1
    <3>3. QED BY <2>3, <3>2
  <2>6. QED BY <2>1, <2>3, <2>4, <2>5
<1> HIDE DEF f, byId
<1>4. IsList(byId) /\ DOMAIN byId = DOMAIN f /\ Len(byId) = Len(f) /\ Len(f) \in Nat
  BY <1>2, <1>3, MappedIs, ListFacts
<1>5. ASSUME NEW m \in DOMAIN f
      PROVE  /\ IdOf(Richest(byId[m])) = IdOf(known[f[m]])
             /\ \E i \in DOMAIN members : Richest(byId[m]) = members[i]
  <2> DEFINE P == {i \in DOMAIN known : IdOf(known[i]) = IdOf(known[f[m]])}  t == byId[m]
  <2>1. t = Picked(known, P) BY <1>2 DEF OfId, Filtered
  <2>2. f[m] \in P /\ \A i \in P : i \in DOMAIN known /\ IdOf(known[i]) = IdOf(known[f[m]]) BY <1>3
  <2> HIDE DEF P, t
  <2>3. /\ IsList(t) /\ DOMAIN t = 1..Len(t)
        /\ \A k \in DOMAIN t : \E i \in DOMAIN known : i \in P /\ t[k] = known[i]
        /\ \E k \in DOMAIN t : t[k] = known[f[m]]
    <3>1. IsList(known) /\ f[m] \in DOMAIN known BY <1>1, <1>3
    <3>2. QED BY <2>1, <2>2, <3>1, PickedElements
  <2>4. t # <<>> BY <2>3, NoneIsAList
  <2>5. PICK k \in DOMAIN t : Richest(t) = t[k] BY <2>3, <2>4, TheRichestIsOne
  <2>6. QED BY <1>1, <2>2, <2>3, <2>5 DEF t
<1>6. PICK best \in DOMAIN members :
         /\ Richest(members) = members[best]
         /\ \A j \in DOMAIN members : RequiredSatisfiedCount(members[j]) <= RequiredSatisfiedCount(members[best])
  BY TheRichestIsOne
<1>7. CASE Len(byId) > 1
  <2>1. r = [m \in DOMAIN byId |-> Richest(byId[m])] BY <1>7 DEF RecipesOf, Each, byId
  <2>2. IsList(r) /\ DOMAIN r = DOMAIN f /\ Len(r) = Len(byId) /\ Len(r) \in Nat
    BY <1>4, <2>1, MappedIs, ListFacts
  <2>3. \A m \in DOMAIN r : /\ IdOf(r[m]) = IdOf(known[f[m]]) /\ IdOf(r[m]) # <<>>
                             /\ \E i \in DOMAIN members : r[m] = members[i]
    BY <1>1, <1>3, <1>4, <1>5, <2>1, <2>2
  <2>4. \A m, k \in DOMAIN r : m # k => DifferById(r[m], r[k]) BY <1>3, <2>2, <2>3 DEF DifferById
  <2>5. r # <<>> /\ Len(r) # 1 /\ 1 \in DOMAIN r BY <1>3, <1>4, <1>7, <2>2, NoneIsAList
  <2>6. ASSUME NEW i \in DOMAIN members PROVE \E m \in DOMAIN r : ~DifferById(members[i], r[m])
    BY <1>1, <1>3, <2>2, <2>3, <2>5 DEF DifferById
  <2>7. QED BY <2>2, <2>3, <2>4, <2>5, <2>6
<1>8. CASE ~(Len(byId) > 1)
  BY <1>1, <1>3, <1>4, <1>6, <1>8, OneIsAList, NoneIsAList DEF RecipesOf, byId, DifferById
<1>9. QED BY <1>7, <1>8

(* What a page's recipes are of its recipe nodes, each of them at a place. *)
Told(nodes, recipes, w) ==
    /\ \A k \in DOMAIN recipes : w[k] \in DOMAIN nodes /\ recipes[k] = nodes[w[k]]
    /\ \A j, k \in DOMAIN recipes : j # k => w[j] # w[k] /\ ~SameRecipe(recipes[j], recipes[k])
    /\ \A i \in DOMAIN nodes : \E k \in DOMAIN recipes :
           /\ i = w[k] \/ SameRecipe(nodes[i], recipes[k])
           /\ Len(recipes) = 1 => RequiredSatisfiedCount(nodes[i]) <= RequiredSatisfiedCount(recipes[k])
    /\ \A k \in DOMAIN recipes : NameOf(recipes[k]) # <<>> /\ IdOf(recipes[k]) = <<>> =>
           \A i, j \in DOMAIN nodes :
               NameOf(nodes[i]) = NameOf(recipes[k]) /\ NameOf(nodes[j]) = NameOf(recipes[k]) =>
                   ~DifferById(nodes[i], nodes[j])

(* What tells two nodes apart, and what does not. *)
LEMMA KeysTell ==
    ASSUME NEW nodes, NEW i, NEW j
    PROVE  /\ SameRecipe(nodes[i], nodes[j]) => KeyAt(nodes, i) = KeyAt(nodes, j)
           /\ KeyAt(nodes, i) = KeyAt(nodes, j) =>
                 /\ NameOf(nodes[i]) = NameOf(nodes[j])
                 /\ ~DifferById(nodes[i], nodes[j]) => i = j \/ SameRecipe(nodes[i], nodes[j])
<1> DEFINE a == NameOf(nodes[i])  b == NameOf(nodes[j])  x == IdOf(nodes[i])  y == IdOf(nodes[j])
<1>1. KeyAt(nodes, i) = IF a # <<>> THEN <<"name", a>> ELSE IF x # <<>> THEN <<"id", x>> ELSE <<"#", i>>
  BY DEF KeyAt
<1>2. KeyAt(nodes, j) = IF b # <<>> THEN <<"name", b>> ELSE IF y # <<>> THEN <<"id", y>> ELSE <<"#", j>>
  BY DEF KeyAt
<1>3. SameRecipe(nodes[i], nodes[j]) <=>
          /\ a = b /\ ~DifferById(nodes[i], nodes[j]) /\ (a # <<>> \/ (x # <<>> /\ x = y))
  BY DEF SameRecipe
<1> HIDE DEF a, b, x, y
<1>4. ASSUME KeyAt(nodes, i) = KeyAt(nodes, j) PROVE a = b /\ (a # <<>> \/ (x # <<>> /\ x = y) \/ i = j)
  BY <1>1, <1>2, <1>4
<1>5. QED BY <1>1, <1>2, <1>3, <1>4 DEF a, b, DifferById

(* The recipes of a page are told.                                         *)
LEMMA RecipesAreTold ==
    ASSUME NEW objects, IsList(objects)
    PROVE  /\ IsList(DistinctRecipes(objects))
           /\ \E w : Told(Filtered(objects, IsRecipe), DistinctRecipes(objects), w)
<1> DEFINE nodes == Filtered(objects, IsRecipe)
           recipes == DistinctRecipes(objects)
           n == Len(nodes)
           key == [i \in 1..n |-> KeyAt(nodes, i)]
           f == FirstPlaces(n, key)
           all == [m \in DOMAIN f |-> RecipesOf(Members(nodes, f[m]))]
           at == PlacesOf(all)
<1>1. IsList(nodes) /\ DOMAIN nodes = 1..n /\ n \in Nat BY PickedElements DEF Filtered
<1>2. recipes = FlattenSeq(all)
  <2> DEFINE ids == [i \in DOMAIN nodes |-> i]
             g == Groups(nodes, LAMBDA i : KeyAt(nodes, i))
             P == {i \in DOMAIN ids : \A j \in 1..ids[i] - 1 : KeyAt(nodes, j) # KeyAt(nodes, ids[i])}
             Q == {i \in 1..n : \A j \in 1..i - 1 : key[j] # key[i]}
  <2>1. recipes = FlattenSeq([m \in DOMAIN g |-> RecipesOf(Members(nodes, g[m]))]) BY DEF DistinctRecipes, Each
  <2>2. g = Picked(ids, P) BY DEF Groups, Filtered
  <2> HIDE DEF recipes, nodes, g
  <2>3. ids = [i \in 1..n |-> i] BY <1>1
  <2>4. \A i \in 1..n : \A j \in 1..i - 1 : j \in 1..n BY <1>1
  <2>5. P = Q
    <3>1. \A i \in 1..n : key[i] = KeyAt(nodes, i) /\ ids[i] = i BY <2>3
    <3>2. DOMAIN ids = 1..n BY <2>3
    <3> HIDE DEF key, ids, n
    <3>3. QED BY <2>4, <3>1, <3>2
  <2>6. f = Picked(ids, Q) BY <2>3 DEF FirstPlaces, PickedAt
  <2> HIDE DEF P, Q, ids, f, n
  <2>7. QED BY <2>1, <2>2, <2>5, <2>6
<1> HIDE DEF recipes, nodes
<1> HIDE DEF n
<1>3. /\ IsList(f) /\ DOMAIN f = 1..Len(f)
      /\ \A m \in DOMAIN f : f[m] \in DOMAIN nodes
      /\ \A i \in DOMAIN nodes : \E m \in DOMAIN f : KeyAt(nodes, f[m]) = KeyAt(nodes, i)
      /\ \A m, k \in DOMAIN f : KeyAt(nodes, f[m]) = KeyAt(nodes, f[k]) => m = k
  <2>1. \A i \in 1..n : key[i] = KeyAt(nodes, i) OBVIOUS
  <2>2. f = FirstPlaces(n, key) OBVIOUS
  <2> HIDE DEF key, f
  <2>3. n \in Nat BY <1>1
  <2>4. /\ IsList(f) /\ DOMAIN f = 1..Len(f)
        /\ \A m \in DOMAIN f : f[m] \in 1..n
        /\ \A i \in 1..n : \E m \in DOMAIN f : key[f[m]] = key[i]
        /\ \A m, k \in DOMAIN f : key[f[m]] = key[f[k]] => m = k
    <3>1. AreFirst(f, n, key) BY <2>2, <2>3, FirstPlacesAre
    <3>2. QED BY <3>1 DEF AreFirst
  <2>5. ASSUME NEW i \in DOMAIN nodes PROVE \E m \in DOMAIN f : KeyAt(nodes, f[m]) = KeyAt(nodes, i)
    <3>1. PICK m \in DOMAIN f : key[f[m]] = key[i] BY <1>1, <2>4
    <3>2. key[f[m]] = KeyAt(nodes, f[m]) /\ key[i] = KeyAt(nodes, i) BY <1>1, <2>1, <2>4
    <3>3. QED BY <3>1, <3>2
  <2>6. ASSUME NEW m \in DOMAIN f, NEW k \in DOMAIN f, KeyAt(nodes, f[m]) = KeyAt(nodes, f[k]) PROVE m = k
    <3>1. key[f[m]] = key[f[k]] BY <2>1, <2>4, <2>6
    <3>2. QED BY <2>4, <3>1
  <2>7. QED BY <1>1, <2>4, <2>5, <2>6
<1> HIDE DEF f
<1>4. ASSUME NEW m \in DOMAIN f
      PROVE  /\ IsList(all[m]) /\ 1 \in DOMAIN all[m] /\ DOMAIN all[m] = 1..Len(all[m])
             /\ \A j \in DOMAIN all[m] : \E i \in DOMAIN nodes :
                    all[m][j] = nodes[i] /\ KeyAt(nodes, i) = KeyAt(nodes, f[m])
             /\ \A j, k \in DOMAIN all[m] : j # k => DifferById(all[m][j], all[m][k])
             /\ \A i \in DOMAIN nodes : KeyAt(nodes, i) = KeyAt(nodes, f[m]) =>
                    \E j \in DOMAIN all[m] :
                       /\ ~DifferById(nodes[i], all[m][j])
                       /\ Len(all[m]) = 1 =>
                             RequiredSatisfiedCount(nodes[i]) <= RequiredSatisfiedCount(all[m][j])
             /\ \A j \in DOMAIN all[m] : IdOf(all[m][j]) = <<>> =>
                    \A i, k \in DOMAIN nodes :
                       KeyAt(nodes, i) = KeyAt(nodes, f[m]) /\ KeyAt(nodes, k) = KeyAt(nodes, f[m]) =>
                           ~DifferById(nodes[i], nodes[k])
  <2> DEFINE P == {i \in DOMAIN nodes : KeyAt(nodes, i) = KeyAt(nodes, f[m])}
             members == Picked(nodes, P)
             r == RecipesOf(members)
  <2>1. all[m] = r BY DEF Members
  <2>2. \A i \in DOMAIN nodes : i \in P <=> KeyAt(nodes, i) = KeyAt(nodes, f[m]) OBVIOUS
  <2>3. f[m] \in DOMAIN nodes /\ f[m] \in P BY <1>3
  <2>4. members = Picked(nodes, P) /\ r = RecipesOf(members) OBVIOUS
  <2> HIDE DEF P, members, r, all
  <2>5. /\ IsList(members) /\ DOMAIN members = 1..Len(members)
        /\ \A k \in DOMAIN members : \E i \in DOMAIN nodes : i \in P /\ members[k] = nodes[i]
        /\ \A i \in DOMAIN nodes : i \in P => \E k \in DOMAIN members : members[k] = nodes[i]
    BY <1>1, <2>4, PickedElements
  <2>6. members # <<>> BY <2>3, <2>5, NoneIsAList
  <2>7. /\ IsList(r) /\ r # <<>>
        /\ \A j \in DOMAIN r : \E i \in DOMAIN members : r[j] = members[i]
        /\ \A j, k \in DOMAIN r : j # k => DifferById(r[j], r[k])
        /\ \A i \in DOMAIN members : \E j \in DOMAIN r :
               /\ ~DifferById(members[i], r[j])
               /\ Len(r) = 1 => RequiredSatisfiedCount(members[i]) <= RequiredSatisfiedCount(r[j])
        /\ \A j \in DOMAIN r : IdOf(r[j]) = <<>> =>
               \A i, k \in DOMAIN members : ~DifferById(members[i], members[k])
    BY <2>4, <2>5, <2>6, RecipesOfOneName
  <2>8. DOMAIN r = 1..Len(r) /\ 1 \in DOMAIN r BY <2>7, ListFacts
  <2>9. \A j \in DOMAIN r : \E i \in DOMAIN nodes : r[j] = nodes[i] /\ i \in P BY <2>5, <2>7
  <2>10. ASSUME NEW i \in DOMAIN nodes, i \in P
         PROVE  \E j \in DOMAIN r :
                   /\ ~DifferById(nodes[i], r[j])
                   /\ Len(r) = 1 => RequiredSatisfiedCount(nodes[i]) <= RequiredSatisfiedCount(r[j])
    <3>1. PICK k \in DOMAIN members : members[k] = nodes[i] BY <2>5, <2>10
    <3>2. QED BY <2>7, <3>1
  <2>11. ASSUME NEW j \in DOMAIN r, IdOf(r[j]) = <<>>,
                NEW i \in DOMAIN nodes, NEW k \in DOMAIN nodes, i \in P, k \in P
         PROVE  ~DifferById(nodes[i], nodes[k])
    <3>1. PICK a \in DOMAIN members, b \in DOMAIN members : members[a] = nodes[i] /\ members[b] = nodes[k]
      BY <2>5, <2>11
    <3>2. QED BY <2>7, <2>11, <3>1
  <2>12. QED BY <2>1, <2>2, <2>7, <2>8, <2>9, <2>10, <2>11
<1>5. all = [m \in DOMAIN f |-> all[m]] OBVIOUS
<1> HIDE DEF all
<1>6. IsList(all) /\ DOMAIN all = DOMAIN f /\ DOMAIN all = 1..Len(all) BY <1>3, <1>5, MappedIs, ListFacts
<1>7. ListsIn(all) BY <1>4, <1>6 DEF ListsIn
<1>8. IsList(recipes) /\ Len(at) \in Nat /\ JoinedAs(recipes, at, all, Len(all)) BY <1>2, <1>7, FlatIs
<1> HIDE DEF at
<1>9. DOMAIN recipes = 1..Len(at) /\ Len(recipes) = Len(at) BY <1>8, ListFacts DEF JoinedAs
<1>10. \A k \in DOMAIN recipes : /\ at[k] = <<at[k][1], at[k][2]>> /\ at[k][1] \in DOMAIN f
                                 /\ at[k][2] \in DOMAIN all[at[k][1]]
                                 /\ recipes[k] = all[at[k][1]][at[k][2]]
  BY <1>4, <1>6, <1>8, <1>9 DEF JoinedAs
<1>11. \A m \in DOMAIN f : \A j \in DOMAIN all[m] : \E k \in DOMAIN recipes : at[k] = <<m, j>>
  <2> TAKE m \in DOMAIN f
  <2> TAKE j \in DOMAIN all[m]
  <2>1. m \in 1..Len(all) /\ j \in 1..Len(all[m]) BY <1>4, <1>6
  <2>2. \E k \in 1..Len(at) : at[k] = <<m, j>> BY <1>8, <2>1 DEF JoinedAs
  <2>3. QED BY <1>9, <2>2
<1>12. \A j, k \in DOMAIN recipes : j # k => at[j][1] # at[k][1] \/ at[j][2] # at[k][2]
  <2>1. ASSUME NEW j \in DOMAIN recipes, NEW k \in DOMAIN recipes, j < k
        PROVE  at[j][1] # at[k][1] \/ at[j][2] # at[k][2]
    <3>1. at[j][1] < at[k][1] \/ (at[j][1] = at[k][1] /\ at[j][2] < at[k][2])
      BY <1>8, <1>9, <2>1 DEF JoinedAs
    <3>2. \A i \in DOMAIN recipes : at[i][1] \in Nat /\ at[i][2] \in Nat
      <4> TAKE i \in DOMAIN recipes
      <4> DEFINE m == at[i][1]
      <4>1. m \in DOMAIN f /\ at[i][2] \in DOMAIN all[m] BY <1>10
      <4>2. DOMAIN all[m] = 1..Len(all[m]) BY <1>4, <4>1
      <4> HIDE DEF m
      <4>3. at[i][2] \in Nat BY <4>1, <4>2
      <4>4. m \in Nat BY <1>3, <4>1
      <4>5. QED BY <4>3, <4>4 DEF m
    <3>3. QED BY <3>1, <3>2
  <2> TAKE j, k \in DOMAIN recipes
  <2>2. j = k \/ j < k \/ k < j BY <1>9
  <2>3. QED BY <2>1, <2>2
<1> DEFINE At(k, i) == i \in DOMAIN nodes /\ recipes[k] = nodes[i] /\ KeyAt(nodes, i) = KeyAt(nodes, f[at[k][1]])
           w == [k \in DOMAIN recipes |-> CHOOSE i \in DOMAIN nodes : At(k, i)]
<1>13. \A k \in DOMAIN recipes : At(k, w[k])
  <2> TAKE k \in DOMAIN recipes
  <2>1. \E i \in DOMAIN nodes : At(k, i) BY <1>4, <1>10
  <2> HIDE DEF At
  <2>2. QED BY <2>1
<1> HIDE DEF w
<1>14. ASSUME NEW j \in DOMAIN recipes, NEW k \in DOMAIN recipes, j # k
       PROVE  w[j] # w[k] /\ ~SameRecipe(recipes[j], recipes[k])
  <2>1. At(j, w[j]) /\ At(k, w[k]) BY <1>13
  <2>2. CASE at[j][1] = at[k][1]
    <3>1. at[j][2] # at[k][2] BY <1>12, <1>14, <2>2
    <3>2. DifferById(recipes[j], recipes[k]) BY <1>4, <1>10, <2>2, <3>1
    <3>3. QED BY <2>1, <3>2 DEF DifferById, SameRecipe
  <2>3. CASE at[j][1] # at[k][1]
    <3>1. KeyAt(nodes, w[j]) # KeyAt(nodes, w[k]) BY <1>3, <1>10, <2>1, <2>3
    <3>2. QED BY <2>1, <3>1, KeysTell
  <2>4. QED BY <2>2, <2>3
<1>15. ASSUME NEW i \in DOMAIN nodes
       PROVE  \E k \in DOMAIN recipes :
                 /\ i = w[k] \/ SameRecipe(nodes[i], recipes[k])
                 /\ Len(recipes) = 1 => RequiredSatisfiedCount(nodes[i]) <= RequiredSatisfiedCount(recipes[k])
  <2>1. PICK m \in DOMAIN f : KeyAt(nodes, f[m]) = KeyAt(nodes, i) BY <1>3
  <2>2. PICK j \in DOMAIN all[m] :
           /\ ~DifferById(nodes[i], all[m][j])
           /\ Len(all[m]) = 1 => RequiredSatisfiedCount(nodes[i]) <= RequiredSatisfiedCount(all[m][j])
    BY <1>4, <2>1
  <2>3. PICK k \in DOMAIN recipes : at[k] = <<m, j>> BY <1>11
  <2>4. recipes[k] = all[m][j] /\ at[k][1] = m BY <1>10, <2>3
  <2>5. recipes[k] = nodes[w[k]] /\ KeyAt(nodes, w[k]) = KeyAt(nodes, i) BY <1>13, <2>1, <2>4
  <2>6. i = w[k] \/ SameRecipe(nodes[i], recipes[k]) BY <2>2, <2>4, <2>5, KeysTell
  <2>7. Len(recipes) = 1 => Len(all[m]) = 1
    <3>1. SUFFICES ASSUME Len(recipes) = 1, Len(all[m]) # 1 PROVE FALSE OBVIOUS
    <3>2. 1 \in DOMAIN all[m] /\ 2 \in DOMAIN all[m]
      <4>1. 1 \in DOMAIN all[m] /\ DOMAIN all[m] = 1..Len(all[m]) /\ IsList(all[m]) BY <1>4
      <4> DEFINE l == Len(all[m])
      <4>2. l \in Nat BY <4>1, ListFacts
      <4>3. l # 1 /\ DOMAIN all[m] = 1..l BY <3>1, <4>1
      <4> HIDE DEF l
      <4>4. QED BY <4>1, <4>2, <4>3
    <3>3. PICK a \in DOMAIN recipes, b \in DOMAIN recipes : at[a] = <<m, 1>> /\ at[b] = <<m, 2>>
      BY <1>11, <3>2
    <3>4. a = b BY <1>9, <3>1
    <3>5. QED BY <3>3, <3>4
  <2>8. QED BY <2>2, <2>4, <2>6, <2>7
<1>16. ASSUME NEW k \in DOMAIN recipes, NameOf(recipes[k]) # <<>>, IdOf(recipes[k]) = <<>>,
              NEW i \in DOMAIN nodes, NEW j \in DOMAIN nodes,
              NameOf(nodes[i]) = NameOf(recipes[k]), NameOf(nodes[j]) = NameOf(recipes[k])
       PROVE  ~DifferById(nodes[i], nodes[j])
  <2>1. At(k, w[k]) BY <1>13
  <2>2. KeyAt(nodes, i) = KeyAt(nodes, w[k]) /\ KeyAt(nodes, j) = KeyAt(nodes, w[k])
    BY <1>16, <2>1 DEF KeyAt
  <2>3. KeyAt(nodes, w[k]) = KeyAt(nodes, f[at[k][1]]) BY <2>1
  <2> DEFINE m == at[k][1]  l == at[k][2]
  <2>4. m \in DOMAIN f /\ l \in DOMAIN all[m] /\ IdOf(all[m][l]) = <<>> BY <1>10, <1>16
  <2>5. KeyAt(nodes, i) = KeyAt(nodes, f[m]) /\ KeyAt(nodes, j) = KeyAt(nodes, f[m]) BY <2>2, <2>3
  <2> HIDE DEF m, l
  <2>6. QED BY <1>4, <1>16, <2>4, <2>5
<1>17. \A k \in DOMAIN recipes : w[k] \in DOMAIN nodes /\ recipes[k] = nodes[w[k]] BY <1>13
<1>18. Told(nodes, recipes, w) BY <1>14, <1>15, <1>16, <1>17 DEF Told
<1>19. QED BY <1>8, <1>18 DEF nodes, recipes

(* A page's recipes are values, each an object of the page. *)
LEMMA RecipesAreValues ==
    ASSUME NEW objects, Values(objects)
    PROVE  Values(DistinctRecipes(objects))
<1> DEFINE nodes == Filtered(objects, IsRecipe)  recipes == DistinctRecipes(objects)
<1>1. Values(nodes) BY PickedValues DEF Filtered
<1>2. IsList(objects) BY DEF Values
<1>3. IsList(recipes) /\ \E w : Told(nodes, recipes, w) BY <1>2, RecipesAreTold
<1> HIDE DEF nodes, recipes
<1>4. Values(recipes) BY <1>1, <1>3 DEF Told, Values
<1>5. QED BY <1>4 DEF recipes

(* What is captured of a page without a model is one of its recipes. *)
LEMMA DeclaredIsAValue ==
    ASSUME NEW page, IsPage(page), ~IsRefused(CaptureJsonLd(page))
    PROVE  \E r : /\ IsValue(r) /\ DistinctRecipes(LoadLdObjects(page)) = <<r>>
                  /\ CaptureJsonLd(page) =
                        [sourceType |-> "url", blocks |-> RecipeToRawBlocks(r), payload |-> <<r>>]
<1> DEFINE recipes == DistinctRecipes(LoadLdObjects(page))
           missing == IF recipes = <<>> THEN Required ELSE MissingRequired(recipes[1])
           e == Extraction(recipes, missing)
<1>1. CaptureJsonLd(page) = CaptureExtracted(e)
  BY DEF CaptureJsonLd, ExtractRecipeJsonLd, Extracted
<1>2. DistinctRecipes(LoadLdObjects(page)) = recipes OBVIOUS
<1>3. Values(recipes) BY ObjectsAreValues, RecipesAreValues
<1> HIDE DEF recipes
<1>4. Len(recipes) \in Nat BY <1>3, ListFacts DEF Values
<1>5. e.kind = "sufficient" /\ e.recipe = recipes[1] /\ missing = <<>> /\ Len(recipes) <= 1
  <2> HIDE DEF missing
  <2>1. CASE Len(recipes) > 1 BY <1>1, <1>4, <2>1 DEF Extraction, CaptureExtracted, IsRefused
  <2>2. CASE Len(recipes) <= 1 /\ missing # <<>>
    BY <1>1, <1>4, <2>2 DEF Extraction, CaptureExtracted, IsRefused
  <2>3. CASE Len(recipes) <= 1 /\ missing = <<>> BY <1>4, <2>3 DEF Extraction
  <2>4. QED BY <1>4, <2>1, <2>2, <2>3
<1>6. recipes # <<>> BY <1>5 DEF Required
<1>7. IsValue(recipes[1]) BY <1>3, <1>6, ListFacts DEF Values
<1>8. CaptureExtracted(e) =
          [sourceType |-> "url", blocks |-> RecipeToRawBlocks(e.recipe), payload |-> <<e.recipe>>]
  <2> HIDE DEF e
  <2> QED BY <1>5 DEF CaptureExtracted
<1>9. recipes = <<recipes[1]>>
  <2>1. IsList(recipes) /\ Len(recipes) = 1
    <3>1. IsList(recipes) BY <1>3 DEF Values
    <3>2. Len(recipes) <= 1 BY <1>5
    <3>3. QED BY <1>4, <1>6, <3>1, <3>2, ListFacts
  <2>2. IsList(<<recipes[1]>>) /\ Len(<<recipes[1]>>) = 1 /\ <<recipes[1]>>[1] = recipes[1] BY OneIsAList
  <2>3. QED BY <2>1, <2>2, ListEqual
<1>10. QED BY <1>2, <1>1, <1>5, <1>7, <1>8, <1>9

\* A page of several recipes is refused with what it holds.
LEMMA SeveralAreRefused ==
    ASSUME NEW page, NEW recipes, recipes = DistinctRecipes(LoadLdObjects(page)), Len(recipes) > 1
    PROVE  CaptureJsonLd(page) = [refused |-> "MultipleRecipesError", inventory |-> InventoryOf(recipes)]
<1> DEFINE missing == IF recipes = <<>> THEN Required ELSE MissingRequired(recipes[1])
           e == Extraction(recipes, missing)
<1>1. CaptureJsonLd(page) = CaptureExtracted(e)
  BY DEF CaptureJsonLd, ExtractRecipeJsonLd, Extracted
<1>2. e = [kind |-> "multiple", inventory |-> InventoryOf(recipes)]
  <2> HIDE DEF missing
  <2>1. QED BY DEF Extraction
<1> HIDE DEF e
<1>3. QED BY <1>1, <1>2 DEF CaptureExtracted

-------------------------------------------------------------------------------
(* A snapshot and what it supports (claim-support.ts, validate.ts).        *)

(* A wording is a run of one of the texts. *)
SaidBy(texts, wording) ==
    \E text \in texts : Includes(NormalizeForSupport(text), NormalizeForSupport(wording))

(* What a snapshot of a source is when it has been captured. *)
ReadOff(source, s) ==
    /\ IsSourceSnapshot(s)
    /\ \A i \in DOMAIN s.blocks : s.blocks[i].id = AssignIds(s.blocks)[i].id
    /\ Given(s.payload) => IsValue(s.payload[1])
    /\ source.provenance # "photo" =>
           /\ s.sourceType \in VerifiedTypes
           /\ \A i \in DOMAIN s.blocks : SaidBy(ReadableTexts(source, s), s.blocks[i].text)

(* What a kept recipe is: its claims supported, its references resolved. *)
Supported(s, recipe) ==
    /\ IsContractual(recipe)
    /\ VerifyClaimSupport(s, recipe)
    /\ ResolveSourceRefs(s, recipe)
    /\ VerifyTitleGrounding(s, recipe)

(* A text is a run of itself. *)
LEMMA RunsOfItself ==
    ASSUME NEW a, IsList(a)
    PROVE  Includes(a, a)
BY ListFacts, SubSeqFull DEF IsList, Includes

(* The texts a reader of a source sees are lists of symbols. *)
LEMMA ReadableTextsAreLists ==
    ASSUME NEW source, IsPage(source.page), NEW s, Given(s.payload) => IsValue(s.payload[1]),
           NEW text \in ReadableTexts(source, s)
    PROVE  IsList(text) /\ IsList(NormalizeForSupport(text))
BY HtmlIsReadAsAList, TrimIsList, LinesAreLists, NormalizedIsList DEF ReadableTexts, IsPage, Input,
   Given, PayloadLeaves, IsValue, ListOf, Every, ListsIn, ToSet

-------------------------------------------------------------------------------
(* A snapshot is its capture with ids, and nothing else of it changes.    *)
LEMMA SnapshotKeeps ==
    ASSUME NEW read, NEW s, s = CaptureSnapshot(read), ~IsRefused(s)
    PROVE  /\ ~IsRefused(read)
           /\ IsSourceSnapshot(s)
           /\ s.sourceType = read.sourceType /\ s.payload = read.payload
           /\ DOMAIN s.blocks = DOMAIN read.blocks
           /\ \A i \in DOMAIN s.blocks : s.blocks[i].text = read.blocks[i].text
           /\ \A i \in DOMAIN s.blocks : s.blocks[i].id = AssignIds(s.blocks)[i].id
<1> DEFINE b == read.blocks  a == AssignIds(b)
           t == [sourceType |-> read.sourceType, blocks |-> a, payload |-> read.payload]
<1>1. ~IsRefused(read) BY DEF CaptureSnapshot
<1>2. s = t /\ IsSourceSnapshot(t)
  <2>1. s = IF IsSourceSnapshot(t) THEN t ELSE Refused("ZodError") BY <1>1 DEF CaptureSnapshot
  <2> HIDE DEF t
  <2>2. QED BY <2>1 DEF IsRefused, Refused
<1>3. DOMAIN a = DOMAIN b BY DEF AssignIds
<1>4. \A i \in DOMAIN b : a[i].text = b[i].text /\ Content(a[i]) = Content(b[i]) BY DEF AssignIds, Content
<1>5. IsList(a) BY <1>2 DEF IsSourceSnapshot, ListOf
<1>6. ASSUME NEW i \in DOMAIN b PROVE a[i].id = AssignIds(a)[i].id
  <2>1. a[i].id = <<Content(b[i]), Cardinality({j \in 1..i - 1 : Content(b[j]) = Content(b[i])})>>
    BY DEF AssignIds
  <2> HIDE DEF a, b
  <2>2. {j \in 1..i - 1 : Content(a[j]) = Content(a[i])} = {j \in 1..i - 1 : Content(b[j]) = Content(b[i])}
    BY <1>3, <1>4, <1>5, ListFacts
  <2>3. QED BY <1>3, <1>4, <2>1, <2>2 DEF AssignIds
<1>7. QED BY <1>1, <1>2, <1>3, <1>4, <1>6

(* A page's declared recipe is captured as it reads. *)
LEMMA DeclaredIsReadOff ==
    ASSUME NEW source, IsPage(source.page), source.provenance = "url",
           NEW s, s = CaptureSnapshot(CaptureJsonLd(source.page)), ~IsRefused(s)
    PROVE  ReadOff(source, s)
<1> DEFINE read == CaptureJsonLd(source.page)
<1>1. /\ ~IsRefused(read) /\ IsSourceSnapshot(s)
      /\ s.sourceType = read.sourceType /\ s.payload = read.payload
      /\ DOMAIN s.blocks = DOMAIN read.blocks
      /\ \A i \in DOMAIN s.blocks : s.blocks[i].text = read.blocks[i].text
      /\ \A i \in DOMAIN s.blocks : s.blocks[i].id = AssignIds(s.blocks)[i].id
  <2>1. s = CaptureSnapshot(read) OBVIOUS
  <2> HIDE DEF read
  <2>2. QED BY <2>1, SnapshotKeeps
<1>2. PICK r : /\ IsValue(r)
               /\ read = [sourceType |-> "url", blocks |-> RecipeToRawBlocks(r), payload |-> <<r>>]
  BY <1>1, DeclaredIsAValue
<1> HIDE DEF read
<1>3. s.sourceType \in VerifiedTypes /\ s.payload # <<>> /\ s.payload[1] = r
  BY <1>1, <1>2 DEF VerifiedTypes
<1>4. ASSUME NEW i \in DOMAIN s.blocks PROVE SaidBy(ReadableTexts(source, s), s.blocks[i].text)
  <2> DEFINE text == s.blocks[i].text
  <2>1. Reads(r, text) BY <1>1, <1>2, BlocksAreRead DEF StepsRead
  <2>2. PICK leaf \in PayloadLeaves(r) : text = Trim(leaf) \/ text \in ToSet(Lines(leaf))
    BY <2>1 DEF Reads
  <2>3. IsList(text) BY <1>1 DEF IsSourceSnapshot, ListOf, Every, IsSnapshotBlock
  <2> HIDE DEF text
  <2>4. QED BY <1>3, <2>2, <2>3, NormalizedIsList, RunsOfItself DEF text, SaidBy, ReadableTexts
<1>5. QED BY <1>1, <1>2, <1>3, <1>4 DEF ReadOff

(* So is what a model captures: its blocks are runs of what it was given. *)
LEMMA ModelsAreReadOff ==
    ASSUME NEW source, NEW reply,
           NEW s, s = CaptureSnapshot(CaptureByModel(source.provenance, Input(source), reply)), ~IsRefused(s)
    PROVE  ReadOff(source, s)
<1> DEFINE type == SourceTypeOf(source.provenance)
           read == CaptureByModel(source.provenance, Input(source), reply)
<1>1. /\ ~IsRefused(read) /\ IsSourceSnapshot(s)
      /\ s.sourceType = read.sourceType /\ s.payload = read.payload
      /\ DOMAIN s.blocks = DOMAIN read.blocks
      /\ \A i \in DOMAIN s.blocks : s.blocks[i].text = read.blocks[i].text
      /\ \A i \in DOMAIN s.blocks : s.blocks[i].id = AssignIds(s.blocks)[i].id
  <2>1. s = CaptureSnapshot(read) OBVIOUS
  <2> HIDE DEF read
  <2>2. QED BY <2>1, SnapshotKeeps
<1>2. /\ VerifyCaptureSupport(type, Input(source), reply.blocks)
      /\ read = [sourceType |-> type, blocks |-> ReadBlocks(reply.blocks), payload |-> <<>>]
  <2> DEFINE unread == ~BlocksReadable(reply.blocks)
             unsaid == ~VerifyCaptureSupport(type, Input(source), reply.blocks)
             uncounted == ~CountIsKnown(reply)
             many == reply.recipeCount > 1
             taken == [sourceType |-> type, blocks |-> ReadBlocks(reply.blocks), payload |-> <<>>]
  <2>1. read = CASE unread -> Refused("ModelReplyError")
                 [] unsaid -> Refused("UnsupportedCaptureError")
                 [] uncounted -> Refused("UnknownRecipeCountError")
                 [] many -> Refused("MultipleRecipesError")
                 [] OTHER -> taken
    BY DEF CaptureByModel
  <2> HIDE DEF read, unread, unsaid, uncounted, many, taken
  <2>2. QED BY <1>1, <2>1 DEF unsaid, taken, IsRefused, Refused
<1> HIDE DEF read
<1>3. s.payload = <<>> /\ s.sourceType = type BY <1>1, <1>2
<1>4. ASSUME source.provenance # "photo"
      PROVE  /\ s.sourceType \in VerifiedTypes
             /\ \A i \in DOMAIN s.blocks : SaidBy(ReadableTexts(source, s), s.blocks[i].text)
  <2>1. type \in VerifiedTypes BY <1>4 DEF SourceTypeOf, VerifiedTypes
  <2> HIDE DEF type
  <2>2. QED
    BY <1>1, <1>2, <1>3, <2>1 DEF SaidBy, ReadBlocks, Each, VerifyCaptureSupport, Every, ReadableTexts
<1>5. QED BY <1>1, <1>3, <1>4 DEF ReadOff, Given

-------------------------------------------------------------------------------
(* The leaves of a part are leaves of the value. *)
LEMMA PartHasItsLeaves ==
    ASSUME NEW v, IsList(v), NEW path
    PROVE  PayloadLeaves(Part(v, path)) \subseteq PayloadLeaves(v)
BY PartIsFrom DEF From, PayloadLeaves

(* What a snapshot is cited for is what its source says. *)
LEMMA EvidenceIsSaid ==
    ASSUME NEW source, IsPage(source.page), source.provenance # "photo",
           NEW s, ReadOff(source, s), NEW refs, NEW text \in EvidenceOf(s, refs),
           NEW wording, IsList(wording), Includes(NormalizeForSupport(text), NormalizeForSupport(wording))
    PROVE  SaidBy(ReadableTexts(source, s), wording)
<1> DEFINE P == {j \in DOMAIN s.blocks : \E i \in DOMAIN refs : refs[i].blockId = <<s.blocks[j].id>>}
           blocks == Cited(s, refs)
           pointed == {refs[i].payloadPointer[1] : i \in {j \in DOMAIN refs : Given(refs[j].payloadPointer)}}
<1>1. IsList(s.blocks) /\ \A i \in DOMAIN s.blocks : IsList(s.blocks[i].text)
  BY DEF ReadOff, IsSourceSnapshot, ListOf, Every, IsSnapshotBlock
<1>2. blocks = Picked(s.blocks, P) BY DEF Cited, Filtered
<1> HIDE DEF P
<1>3. \A k \in DOMAIN blocks : \E i \in DOMAIN s.blocks : blocks[k] = s.blocks[i]
  BY <1>1, <1>2, PickedElements
<1>4. \/ \E k \in DOMAIN blocks : text = blocks[k].text
      \/ /\ Given(s.payload)
         /\ \E p \in pointed : text \in PayloadLeaves(ResolvePointer(s.payload[1], p))
  <2> HIDE DEF blocks, pointed
  <2>1. text \in {blocks[i].text : i \in DOMAIN blocks}
           \cup IF Given(s.payload)
                THEN UNION {PayloadLeaves(ResolvePointer(s.payload[1], p)) : p \in pointed} ELSE {}
    BY DEF EvidenceOf, blocks, pointed
  <2>2. CASE Given(s.payload) BY <2>1, <2>2
  <2>3. CASE ~Given(s.payload) BY <2>1, <2>3
  <2>4. QED BY <2>2, <2>3
<1> HIDE DEF blocks, pointed
<1>5. CASE \E k \in DOMAIN blocks : text = blocks[k].text
  BY <1>1, <1>3, <1>5, NormalizedIsList, ReadableTextsAreLists, RunsOfRuns DEF ReadOff, SaidBy
<1>6. CASE Given(s.payload) /\ \E p \in pointed : text \in PayloadLeaves(ResolvePointer(s.payload[1], p))
  BY <1>6, PartHasItsLeaves DEF ReadOff, IsValue, ListOf, ResolvePointer, ReadableTexts, Given, SaidBy
<1>7. QED BY <1>4, <1>5, <1>6

(* Each wording of a recipe is a claim of it. *)
LEMMA WordingsAreClaims ==
    ASSUME NEW recipe, IsContractual(recipe), NEW wording \in Wordings(recipe.title \o recipe.facts),
           Trim(wording) # <<>>
    PROVE  IsList(wording) /\ \E k \in DOMAIN CollectClaims(recipe) : CollectClaims(recipe)[k].text = wording
<1> DEFINE facts == recipe.facts  title == recipe.title  both == title \o facts
           scope == CHOOSE scope : scope = [place \in 0..Len(facts) |->
                       IF place = 0 THEN <<>>
                       ELSE IF facts[place].sourceRefs # <<>> THEN facts[place].sourceRefs
                       ELSE scope[facts[place].around]]
           a == [i \in DOMAIN title |-> [text |-> title[i].sourceText, refs |-> title[i].sourceRefs]]
           b == [i \in DOMAIN facts |-> [text |-> facts[i].sourceText, refs |-> scope[i]]]
           claims == a \o b
           P == {i \in DOMAIN claims : Trim(claims[i].text) # <<>>}
<1>1. CollectClaims(recipe) = Picked(claims, P) BY DEF CollectClaims, Filtered, Each
<1>2. /\ IsList(facts) /\ \A i \in DOMAIN facts : IsList(facts[i].sourceText)
      /\ IsList(title) /\ \A i \in DOMAIN title : IsList(title[i].sourceText)
  BY DEF IsContractual, ListOf, Every, IsFact
<1>3. PICK i \in DOMAIN both : both[i].sourceText = wording BY DEF Wordings
<1> HIDE DEF scope
<1>4. IsList(a) /\ Len(a) = Len(title) /\ \A k \in DOMAIN title : a[k].text = title[k].sourceText
  <2>1. a = [k \in DOMAIN title |-> a[k]] OBVIOUS
  <2>2. \A k \in DOMAIN title : a[k].text = title[k].sourceText OBVIOUS
  <2> HIDE DEF a
  <2>3. QED BY <1>2, <2>1, <2>2, MappedIs
<1>5. IsList(b) /\ Len(b) = Len(facts) /\ \A k \in DOMAIN facts : b[k].text = facts[k].sourceText
  <2>1. b = [k \in DOMAIN facts |-> b[k]] OBVIOUS
  <2>2. \A k \in DOMAIN facts : b[k].text = facts[k].sourceText OBVIOUS
  <2> HIDE DEF b
  <2>3. QED BY <1>2, <2>1, <2>2, MappedIs
<1> HIDE DEF a, b
<1>6. /\ Len(title) \in Nat /\ Len(facts) \in Nat
      /\ DOMAIN title = 1..Len(title) /\ DOMAIN facts = 1..Len(facts)
  BY <1>2, ListFacts
<1>7. /\ IsList(claims) /\ DOMAIN claims = 1..Len(a) + Len(b)
      /\ \A k \in 1..Len(a) : claims[k] = a[k]
      /\ \A k \in Len(a) + 1..Len(a) + Len(b) : claims[k] = b[k - Len(a)]
  <2>1. claims = a \o b OBVIOUS
  <2> HIDE DEF claims
  <2>2. IsList(a) /\ IsList(b) BY <1>4, <1>5
  <2>3. IsList(claims) /\ DOMAIN claims = 1..Len(a) + Len(b) BY <2>1, <2>2, Concat
  <2>4. \A k \in 1..Len(a) : claims[k] = a[k] BY <2>1, <2>2, Concat
  <2>5. \A k \in Len(a) + 1..Len(a) + Len(b) : claims[k] = b[k - Len(a)] BY <2>1, <2>2, Concat
  <2>6. QED BY <2>3, <2>4, <2>5
<1>8. /\ DOMAIN both = 1..Len(title) + Len(facts)
      /\ \A k \in 1..Len(title) : both[k] = title[k]
      /\ \A k \in Len(title) + 1..Len(title) + Len(facts) : both[k] = facts[k - Len(title)]
  <2>1. both = title \o facts OBVIOUS
  <2> HIDE DEF both, title, facts
  <2>2. QED BY <1>2, <2>1, Concat
<1> HIDE DEF claims, both, facts, title
<1>9. i \in DOMAIN claims /\ claims[i].text = wording /\ IsList(wording)
  <2>1. CASE i \in 1..Len(title) BY <1>2, <1>3, <1>4, <1>5, <1>6, <1>7, <1>8, <2>1
  <2>2. CASE i \in Len(title) + 1..Len(title) + Len(facts)
    <3>1. i - Len(title) \in DOMAIN facts BY <1>6, <2>2
    <3>2. QED BY <1>2, <1>3, <1>4, <1>5, <1>6, <1>7, <1>8, <2>2, <3>1
  <2>3. QED BY <1>6, <1>8, <2>1, <2>2
<1>10. i \in P BY <1>9
<1> HIDE DEF P
<1> DEFINE t == Picked(claims, P)
<1>11. \E k \in DOMAIN t : t[k] = claims[i]
  <2>1. t = Picked(claims, P) OBVIOUS
  <2> HIDE DEF t
  <2>2. QED BY <1>7, <1>9, <1>10, <2>1, PickedElements
<1>12. QED BY <1>1, <1>9, <1>11

-------------------------------------------------------------------------------
(* The invariant, step by step.                                            *)

(* What is shown of a recipe and its plan. *)
Shown(recipe, suppress, served, pictureSource, plan) ==
    [plan |-> plan,
     cooking |-> IF plan = Untraceable THEN None ELSE CookingPage(plan),
     page |-> RecipePage(recipe, served, pictureSource),
     card |-> LibraryCard(recipe, served),
     published |-> MapCanonicalToSchemaOrg(recipe)]

(* What is known of a document at each stage. *)
DocumentsInv ==
    /\ subject \in Subjects
    /\ stage \in {"source", "reading", "captured", "normalizing", "kept", "refused",
                  "recipe", "planned", "shown"}
    /\ stage \in {"source", "reading", "captured", "normalizing", "kept"} => subject.is = "source"
    /\ stage \in {"captured", "normalizing", "kept"} => ReadOff(subject, snapshot)
    /\ stage = "kept" => Supported(snapshot, result)
    /\ stage \in {"recipe", "planned", "shown"} => subject.is = "recipe"
    /\ stage = "planned" => result = DeriveCookingPlan(subject.recipe, subject.suppress)
    /\ stage = "shown" =>
           result = Shown(subject.recipe, subject.suppress, subject.served, subject.pictureSource,
                          DeriveCookingPlan(subject.recipe, subject.suppress))

(* It holds of what there is to start from, and every step keeps it. *)
LEMMA DocumentsInvInit == Init => DocumentsInv
BY SubjectsAssumption DEF Init, DocumentsInv

\* Asking, whatever is asked about, changes no more than the stage.
LEMMA AskingKeeps ==
    ASSUME DocumentsInv, subject.is = "source", NEW texts, NEW at,
           at \in {"reading", "normalizing"}, at = "normalizing" => stage = "captured",
           AskAbout(texts, at)
    PROVE  DocumentsInv'
BY DEF Settle, DocumentsInv, AskAbout

LEMMA AskingAgainKeeps ==
    ASSUME DocumentsInv, NEW rejected, AskAgain(rejected)
    PROVE  DocumentsInv'
BY DEF Settle, DocumentsInv, AskAgain

LEMMA CapturingKeeps ==
    ASSUME DocumentsInv, subject.is = "source", NEW read, Captured(read),
           ~IsRefused(read) => ReadOff(subject, read)
    PROVE  DocumentsInv'
BY DEF Captured, Settle, DocumentsInv

LEMMA ReadSourceKeeps == DocumentsInv /\ ReadSource => DocumentsInv'
<1> SUFFICES ASSUME DocumentsInv, ReadSource PROVE DocumentsInv' OBVIOUS
<1>1. subject.is = "source" /\ IsPage(subject.page)
  BY SubjectsAssumption DEF DocumentsInv, ReadSource
<1>2. CASE AskAbout({Input(subject)}, "reading") BY <1>1, <1>2, AskingKeeps
<1>3. CASE subject.provenance = "url" /\ Captured(CaptureSnapshot(CaptureJsonLd(subject.page)))
  <2> DEFINE read == CaptureSnapshot(CaptureJsonLd(subject.page))
  <2> HIDE DEF read
  <2>1. QED BY <1>1, <1>3, CapturingKeeps, DeclaredIsReadOff
<1>4. QED BY <1>2, <1>3 DEF ReadSource, ReadDeclared

LEMMA ModelReadsKeeps == DocumentsInv /\ ModelReads => DocumentsInv'
<1> SUFFICES ASSUME DocumentsInv, ModelReads PROVE DocumentsInv' OBVIOUS
<1>1. PICK reply \in Replies(subject) :
        LET read == CaptureSnapshot(CaptureByModel(subject.provenance, Input(subject), reply))
        IN  IF AsksAgain(read) THEN AskAgain(TextsIn(reply.blocks)) ELSE Captured(read)
  BY DEF ModelReads
<1> DEFINE read == CaptureSnapshot(CaptureByModel(subject.provenance, Input(subject), reply))
<1> HIDE DEF read
<1>2. QED BY <1>1, CapturingKeeps, AskingAgainKeeps, ModelsAreReadOff DEF DocumentsInv, ModelReads

LEMMA BeginNormalizationKeeps == DocumentsInv /\ BeginNormalization => DocumentsInv'
BY AskingKeeps DEF DocumentsInv, BeginNormalization

\* A normalization that is kept is the model's own, and has passed every check.
(* What Normalize keeps, it has checked. *)
LEMMA KeptIsSupported ==
    ASSUME NEW s, NEW draft, NEW kept, kept = Normalize(s, draft), ~IsRefused(kept)
    PROVE  Supported(s, kept)
<1> DEFINE unread == ~IsContractual(draft)  unsaid == ~VerifyClaimSupport(s, draft)
           unresolved == ~ResolveSourceRefs(s, draft)  ungrounded == ~VerifyTitleGrounding(s, draft)
<1> HIDE DEF unread, unsaid, unresolved, ungrounded
<1>1. QED BY DEF Supported, unread, unsaid, unresolved, ungrounded, IsRefused, Refused, Normalize

LEMMA ModelNormalizesKeeps == DocumentsInv /\ ModelNormalizes => DocumentsInv'
<1> SUFFICES ASSUME DocumentsInv, ModelNormalizes PROVE DocumentsInv' OBVIOUS
<1>1. PICK draft \in Drafts(snapshot) :
        LET kept == Normalize(snapshot, draft)
        IN  IF AsksAgain(kept) THEN AskAgain(Wordings(draft.title \o draft.facts))
            ELSE Settle(IF IsRefused(kept) THEN "refused" ELSE "kept", kept)
  BY DEF ModelNormalizes
<1> DEFINE kept == Normalize(snapshot, draft)
<1>2. ~IsRefused(kept) => Supported(snapshot, kept) BY KeptIsSupported
<1>3. AskAgain(Wordings(draft.title \o draft.facts))
      \/ Settle(IF IsRefused(kept) THEN "refused" ELSE "kept", kept) BY <1>1
<1> HIDE DEF kept
<1>4. CASE Settle(IF IsRefused(kept) THEN "refused" ELSE "kept", kept)
  BY <1>2, <1>4 DEF Settle, DocumentsInv, ModelNormalizes
<1>5. QED BY <1>3, <1>4, AskingAgainKeeps

LEMMA DeriveKeeps == DocumentsInv /\ Derive => DocumentsInv'
BY DEF Derive, Settle, DocumentsInv

LEMMA ShowKeeps == DocumentsInv /\ Show => DocumentsInv'
BY DEF Show, Settle, Shown, DocumentsInv

(* The invariant holds of every document, whatever the models reply and    *)
(* however often they are asked.                                           *)
THEOREM DocumentsAreInv == Spec => []DocumentsInv
<1>1. ASSUME DocumentsInv, [Next]_vars PROVE DocumentsInv'
  <2>1. CASE UNCHANGED vars BY <1>1, <2>1 DEF vars, DocumentsInv
  <2>2. CASE Next
    BY <1>1, <2>2, ReadSourceKeeps, ModelReadsKeeps, BeginNormalizationKeeps, ModelNormalizesKeeps,
       DeriveKeeps, ShowKeeps DEF Next
  <2>3. QED BY <1>1, <2>1, <2>2
<1>2. QED BY <1>1, DocumentsInvInit, PTL DEF Spec

(* Block ids say what a block is (assignIds of block-id-policy.ts): however *)
(* a source was captured, no two blocks of its snapshot share an id, the   *)
(* same blocks in another order get the same ids, and a block that goes    *)
(* takes the id of no block of other content with it.                      *)
THEOREM IdsAreContents == Spec => []BlockIdsAreContents
<1>1. ASSUME DocumentsInv PROVE BlockIdsAreContents
  <2> DEFINE blocks == snapshot.blocks  ids == {blocks[i].id : i \in DOMAIN blocks}
  <2> SUFFICES ASSUME stage = "captured"
               PROVE  /\ Cardinality(ids) = Len(blocks)
                      /\ IdsGiven(Reverse(blocks)) = ids
                      /\ \A i \in DOMAIN blocks :
                             /\ IdsGiven(RemoveAt(blocks, i)) \subseteq ids
                             /\ Cardinality(IdsGiven(RemoveAt(blocks, i))) = Len(blocks) - 1
    BY DEF BlockIdsAreContents, IdsGiven
  <2>1. /\ IsList(blocks)
        /\ \A i \in DOMAIN blocks : blocks[i].id = AssignIds(blocks)[i].id
    BY <1>1 DEF DocumentsInv, ReadOff, IsSourceSnapshot, ListOf
  <2> HIDE DEF blocks
  <2>2. ids = IdsGiven(blocks) BY <2>1 DEF IdsGiven
  <2> HIDE DEF ids
  <2>3. ASSUME NEW i \in DOMAIN blocks
        PROVE  /\ IdsGiven(RemoveAt(blocks, i)) \subseteq ids
               /\ Cardinality(IdsGiven(RemoveAt(blocks, i))) = Len(blocks) - 1
    BY <2>1, <2>2, ListFacts, ListWithout, WithoutHasNoOther, AsManyIds
  <2>4. QED BY <2>1, <2>2, <2>3, AsManyIds, ReversedHasTheSame
<1>2. QED BY <1>1, DocumentsAreInv, PTL

-------------------------------------------------------------------------------
(* A kept recipe is quoted.                                                *)

(* Every wording of a supported recipe is a run of a readable text. *)
LEMMA WordingsAreQuoted ==
    ASSUME NEW source, IsPage(source.page), source.provenance # "photo",
           NEW s, ReadOff(source, s), NEW recipe, Supported(s, recipe),
           NEW wording \in Wordings(recipe.title \o recipe.facts), Trim(wording) # <<>>
    PROVE  SaidBy(ReadableTexts(source, s), wording)
<1> DEFINE claims == CollectClaims(recipe)
<1>1. PICK k \in DOMAIN claims : IsList(wording) /\ claims[k].text = wording
  BY WordingsAreClaims DEF Supported
<1>2. PICK text \in EvidenceOf(s, claims[k].refs) :
          Includes(NormalizeForSupport(text), NormalizeForSupport(wording))
  BY <1>1 DEF SupportedBy, Supported, VerifyClaimSupport, Every, ReadOff
<1> HIDE DEF claims
<1>3. QED BY <1>1, <1>2, EvidenceIsSaid

(* Its title is what a block captured as one says. *)
LEMMA TitlesAreTitles ==
    ASSUME NEW s, IsSourceSnapshot(s), NEW recipe, Supported(s, recipe), Given(recipe.title),
           NEW titles, titles = {s.blocks[i].text : i \in {j \in DOMAIN s.blocks : s.blocks[j].type = "title"}}
    PROVE  SupportedBy(titles, recipe.title[1].sourceText)
<1> DEFINE cited == Cited(s, recipe.title[1].sourceRefs)
           quoted == {cited[i].text : i \in {j \in DOMAIN cited : cited[j].type = "title"}}
           P == {j \in DOMAIN s.blocks : \E i \in DOMAIN recipe.title[1].sourceRefs :
                    recipe.title[1].sourceRefs[i].blockId = <<s.blocks[j].id>>}
<1>1. SupportedBy(quoted, recipe.title[1].sourceText) BY DEF Supported, VerifyTitleGrounding
<1>2. cited = Picked(s.blocks, P) BY DEF Cited, Filtered
<1>3. IsList(s.blocks) BY DEF IsSourceSnapshot, ListOf
<1> HIDE DEF P
<1> HIDE DEF cited
<1>4. \A text \in quoted : text \in titles BY <1>2, <1>3, PickedElements
<1> HIDE DEF quoted
<1>5. QED BY <1>1, <1>4 DEF SupportedBy

(* A recipe that is kept says what its source says (claim-support.ts,      *)
(* validate.ts, title-grounding.ts): whatever a model captured and whatever *)
(* it made of that, each wording is one unbroken run of what a reader of   *)
(* the source sees, the title is what a title block says, and every block  *)
(* it names was captured.                                                  *)
THEOREM KeptIsQuoted == Spec => []KeptRecipesAreQuoted
<1>1. ASSUME DocumentsInv PROVE KeptRecipesAreQuoted
  <2> DEFINE sources == {NormalizeForSupport(text) : text \in ReadableTexts(subject, snapshot)}
             titles == {snapshot.blocks[i].text :
                           i \in {j \in DOMAIN snapshot.blocks : snapshot.blocks[j].type = "title"}}
             refs == CollectSourceRefs(result)
  <2> SUFFICES ASSUME stage = "kept"
      PROVE /\ subject.provenance # "photo" =>
                 \A wording \in Wordings(result.title \o result.facts) :
                     Trim(wording) # <<>> =>
                         \E text \in sources : Includes(text, NormalizeForSupport(wording))
            /\ Given(result.title) => SupportedBy(titles, result.title[1].sourceText)
            /\ \A i \in DOMAIN refs : Given(refs[i].blockId) =>
                   \E j \in DOMAIN snapshot.blocks : snapshot.blocks[j].id = refs[i].blockId[1]
    BY DEF KeptRecipesAreQuoted
  <2>1. IsPage(subject.page) /\ ReadOff(subject, snapshot) /\ Supported(snapshot, result)
    BY <1>1, SubjectsAssumption DEF DocumentsInv
  <2>2. ASSUME subject.provenance # "photo", NEW wording \in Wordings(result.title \o result.facts),
               Trim(wording) # <<>>
        PROVE  \E text \in sources : Includes(text, NormalizeForSupport(wording))
    BY <2>1, <2>2, WordingsAreQuoted DEF SaidBy
  <2>3. ASSUME NEW i \in DOMAIN refs, Given(refs[i].blockId)
        PROVE  \E j \in DOMAIN snapshot.blocks : snapshot.blocks[j].id = refs[i].blockId[1]
    BY <2>1, <2>3 DEF Supported, ResolveSourceRefs, Every
  <2>4. QED BY <2>1, <2>2, <2>3, TitlesAreTitles DEF ReadOff
<1>2. QED BY <1>1, DocumentsAreInv, PTL

-------------------------------------------------------------------------------
(* The Cooking Plan (derive.ts): what a step uses, and what its unit needs. *)

\* A list made of another element by element.
(* A list made element by element; joined lists of one shape. *)
LEMMA EachIs ==
    ASSUME NEW s, IsList(s), NEW t, DOMAIN t = DOMAIN s, t = [i \in DOMAIN t |-> t[i]]
    PROVE  IsList(t) /\ Len(t) = Len(s) /\ DOMAIN t = 1..Len(s) /\ Len(s) \in Nat
BY MappedIs, ListFacts

\* Lists of the same lengths are joined at the same places.
LEMMA SameShape ==
    ASSUME NEW ss, ListsIn(ss), NEW tt, ListsIn(tt), DOMAIN tt = DOMAIN ss,
           \A i \in DOMAIN ss : DOMAIN tt[i] = DOMAIN ss[i]
    PROVE  PlacesOf(tt) = PlacesOf(ss)
<1> DEFINE ps == [i \in DOMAIN ss |-> [j \in DOMAIN ss[i] |-> <<i, j>>]]
           pt == [i \in DOMAIN tt |-> [j \in DOMAIN tt[i] |-> <<i, j>>]]
<1>1. ps = pt OBVIOUS
<1> HIDE DEF ps, pt
<1>2. QED BY <1>1 DEF PlacesOf, ps, pt

(* The last of the elements with an id is one of them. *)
LEMMA TheLastIsOne ==
    ASSUME NEW elements, IsList(elements), NEW id, IsNamed(elements, id)
    PROVE  \E i \in DOMAIN elements : elements[i].id = id /\ LastWithId(elements, id) = elements[i]
<1> DEFINE T == {i \in DOMAIN elements : elements[i].id = id}
<1>1. T # {} BY DEF IsNamed
<1>2. Len(elements) \in Nat /\ DOMAIN elements = 1..Len(elements) BY ListFacts
<1>3. T \subseteq 0..Len(elements) BY <1>2
<1> DEFINE last == Max(T)
<1>4. last \in T /\ \A x \in T : x <= last
  <2> HIDE DEF T
  <2>1. QED BY <1>1, <1>2, <1>3, Most
<1> HIDE DEF last
<1>5. QED BY <1>4 DEF LastWithId

(* The steps and the ingredients of a recipe are as the contract has them. *)
LEMMA StepsAreSteps ==
    ASSUME NEW recipe, IsCanonicalRecipe(recipe)
    PROVE  /\ ListOf(Steps(recipe), IsInstructionStep)
           /\ DOMAIN Steps(recipe) = 1..Len(Steps(recipe)) /\ Len(Steps(recipe)) \in Nat
<1> DEFINE sections == recipe.instructionSections
           ss == [i \in DOMAIN sections |-> sections[i].steps]
           steps == Steps(recipe)
<1>1. IsList(sections) /\ \A i \in DOMAIN sections : ListOf(sections[i].steps, IsInstructionStep)
  BY DEF IsCanonicalRecipe, ListOf, Every, IsInstructionSection
<1>2. steps = FlattenSeq(ss) BY DEF Steps, Each
<1>3. \A i \in DOMAIN sections : ss[i] = sections[i].steps OBVIOUS
<1>4. DOMAIN ss = DOMAIN sections /\ ss = [i \in DOMAIN ss |-> ss[i]] OBVIOUS
<1> HIDE DEF ss, sections, steps
<1>5. QED BY <1>1, <1>2, <1>3, <1>4, FlatElements, EachIs DEF ListOf, Every, steps, ListsIn

LEMMA IngredientsAreIngredients ==
    ASSUME NEW recipe, IsCanonicalRecipe(recipe)
    PROVE  /\ ListOf(Ingredients(recipe), IsIngredient)
           /\ DOMAIN Ingredients(recipe) = 1..Len(Ingredients(recipe)) /\ Len(Ingredients(recipe)) \in Nat
<1> DEFINE groups == recipe.ingredientGroups
           ss == [i \in DOMAIN groups |-> groups[i].ingredients]
           all == Ingredients(recipe)
<1>1. IsList(groups) /\ \A i \in DOMAIN groups : ListOf(groups[i].ingredients, IsIngredient)
  BY DEF IsCanonicalRecipe, ListOf, Every, IsIngredientGroup
<1>2. all = FlattenSeq(ss) BY DEF Ingredients, Each
<1>3. \A i \in DOMAIN groups : ss[i] = groups[i].ingredients OBVIOUS
<1>4. DOMAIN ss = DOMAIN groups /\ ss = [i \in DOMAIN ss |-> ss[i]] OBVIOUS
<1> HIDE DEF ss, groups, all
<1>5. QED BY <1>1, <1>2, <1>3, <1>4, FlatElements, EachIs DEF ListOf, Every, all, ListsIn

(* The steps with their sections are the steps, in the same order. *)
LEMMA SectionsKeepSteps ==
    ASSUME NEW recipe, IsCanonicalRecipe(recipe)
    PROVE  /\ IsList(StepsWithSections(recipe)) /\ DOMAIN StepsWithSections(recipe) = DOMAIN Steps(recipe)
           /\ Len(StepsWithSections(recipe)) = Len(Steps(recipe))
           /\ \A n \in DOMAIN Steps(recipe) :
                  /\ StepsWithSections(recipe)[n].step = Steps(recipe)[n]
                  /\ Optional(StepsWithSections(recipe)[n].sectionTitle, IsText)
<1> DEFINE sections == recipe.instructionSections
           ss == [i \in DOMAIN sections |-> sections[i].steps]
           Of(i) == [j \in DOMAIN sections[i].steps |->
                        [step |-> sections[i].steps[j], sectionTitle |-> sections[i].title]]
           tt == [i \in DOMAIN sections |-> Of(i)]
           steps == Steps(recipe)
           ordered == StepsWithSections(recipe)
<1>1. /\ IsList(sections)
      /\ \A i \in DOMAIN sections : IsList(sections[i].steps) /\ Optional(sections[i].title, IsText)
  BY DEF IsCanonicalRecipe, ListOf, Every, IsInstructionSection
<1>2. steps = FlattenSeq(ss) BY DEF Steps, Each
<1>3. ordered = FlattenSeq(tt) BY DEF StepsWithSections, Each
<1>4. DOMAIN ss = DOMAIN sections /\ ss = [i \in DOMAIN ss |-> ss[i]]
      /\ \A i \in DOMAIN sections : ss[i] = sections[i].steps OBVIOUS
<1>5. \A i \in DOMAIN sections :
         /\ Of(i) = [j \in DOMAIN sections[i].steps |-> Of(i)[j]]
         /\ DOMAIN Of(i) = DOMAIN sections[i].steps
         /\ \A j \in DOMAIN sections[i].steps :
                Of(i)[j].step = sections[i].steps[j] /\ Of(i)[j].sectionTitle = sections[i].title
  OBVIOUS
<1> HIDE DEF Of
<1>6. DOMAIN tt = DOMAIN sections /\ tt = [i \in DOMAIN tt |-> tt[i]]
      /\ \A i \in DOMAIN sections : tt[i] = Of(i) OBVIOUS
<1> HIDE DEF ss, tt, sections, steps, ordered
<1>7. ListsIn(ss) BY <1>1, <1>4, EachIs DEF ListsIn
<1>8. ListsIn(tt) BY <1>1, <1>5, <1>6, EachIs, MappedIs DEF ListsIn
<1> DEFINE at == PlacesOf(ss)
<1>9. IsList(steps) /\ Len(at) \in Nat /\ JoinedAs(steps, at, ss, Len(ss)) BY <1>2, <1>7, FlatIs
<1>10. IsList(ordered) /\ JoinedAs(ordered, at, tt, Len(tt))
  BY <1>3, <1>4, <1>5, <1>6, <1>7, <1>8, FlatIs, SameShape
<1> HIDE DEF at
<1>11. Len(ordered) = Len(steps) /\ DOMAIN ordered = 1..Len(steps) /\ DOMAIN steps = 1..Len(steps)
  BY <1>9, <1>10, ListFacts DEF JoinedAs
<1>12. ASSUME NEW n \in DOMAIN steps
       PROVE  ordered[n].step = steps[n] /\ Optional(ordered[n].sectionTitle, IsText)
  <2>1. n \in 1..Len(at) BY <1>9, <1>11 DEF JoinedAs
  <2> DEFINE i == at[n][1]  j == at[n][2]
  <2>2. i \in DOMAIN sections /\ j \in DOMAIN sections[i].steps /\ steps[n] = ss[i][j]
    BY <1>4, <1>7, <1>9, <2>1, ListFacts DEF JoinedAs, ListsIn
  <2>3. ordered[n] = tt[i][j] BY <1>10, <2>1 DEF JoinedAs
  <2> HIDE DEF i, j
  <2>4. QED BY <1>1, <1>4, <1>5, <1>6, <2>2, <2>3
<1>13. QED BY <1>10, <1>11, <1>12 DEF steps, ordered

(* What a use may be aimed at. *)
IsTarget(t) ==
    /\ t.element \in {"ingredient", "preparedComponent"} /\ Filled(t.id) /\ IsText(t.name)
    /\ Optional(t.quantityExpression, IsValueExpression) /\ Optional(t.unit, IsText)
    /\ AreRefs(t.sourceRefs)

(* A field that is given is one. *)
LEMMA OptionalIs ==
    ASSUME NEW field, Optional(field, IsText), Given(field)
    PROVE  IsText(field[1]) /\ DOMAIN field = {1}
<1>1. IsList(field) /\ Len(field) <= 1 BY DEF Optional, ListOf
<1>2. Len(field) \in Nat /\ Len(field) # 0 /\ DOMAIN field = 1..Len(field) BY <1>1, ListFacts DEF Given
<1>3. QED BY <1>1, <1>2 DEF Optional, ListOf, Every

(* The words of an amount. *)
LEMMA WordsOf ==
    ASSUME NEW field, Optional(field, IsValueExpression), NEW unit, Optional(unit, IsText)
    PROVE  IsWorded(AmountText(field, unit)) /\ IsMeasurable(field) \in BOOLEAN
<1>1. CASE ~Given(field) BY <1>1, NoneIsAList DEF AmountText, IsWorded, ListOf, Every, IsMeasurable
<1>2. CASE Given(field)
  <2>1. IsText(field[1].sourceText)
    BY <1>2, ListFacts DEF Optional, ListOf, Every, IsValueExpression, Given
  <2> DEFINE word == field[1].sourceText  amount == AmountText(field, unit)
  <2>2. amount = <<word>> \/ (amount = <<word, unit[1]>> /\ Given(unit))
    BY <1>2 DEF AmountText, WordingWithUnit, Wording, OneOf
  <2> HIDE DEF word, amount
  <2>3. ASSUME amount = <<word>> PROVE IsWorded(amount)
    <3>1. amount \in Seq(STRING) BY <2>1, <2>3 DEF IsText, word
    <3>2. QED BY <3>1, SeqIsList DEF IsWorded, ListOf, Every, IsText
  <2>4. ASSUME amount = <<word, unit[1]>>, Given(unit) PROVE IsWorded(amount)
    <3>1. amount \in Seq(STRING) BY <2>1, <2>4, OptionalIs DEF IsText, word
    <3>2. QED BY <3>1, SeqIsList DEF IsWorded, ListOf, Every, IsText
  <2>5. QED BY <2>2, <2>3, <2>4 DEF IsMeasurable, amount
<1>3. QED BY <1>1, <1>2

LEMMA NoIndex == Optional(<<>>, LAMBDA i : i \in Nat)
BY NoneIsAList DEF Optional, ListOf, Every

(* Origins as the contract has them. *)
LEMMA OriginIs ==
    ASSUME NEW element \in CanonicalElementKind, NEW id, Filled(id), NEW refs, AreRefs(refs)
    PROVE  /\ IsOrigin(Origin(element, id, refs))
           /\ Origin(element, id, refs).id = id /\ Origin(element, id, refs).index = <<>>
BY NoIndex DEF IsOrigin, Origin

LEMMA OriginInStepIs ==
    ASSUME NEW element \in CanonicalElementKind, NEW step, Filled(step.id), NEW i \in Nat,
           NEW refs, AreRefs(refs)
    PROVE  IsOrigin(OriginInStep(element, step, i, refs))
BY OneIsAList DEF Optional, ListOf, Every, IsOrigin, OriginInStep

(* An amount is told by its use, or where the whole is used by what is used. *)
LEMMA AmountIsPlanned ==
    ASSUME NEW use, IsUse(use), NEW target, IsTarget(target), NEW whole \in BOOLEAN,
           NEW a, a = PlanAmount(use, target, whole)
    PROVE  /\ IsPlanAmount(a) /\ a.origin.id = target.id
           /\ Given(use.quantityExpression) => a.text = AmountText(use.quantityExpression, use.unit)
           /\ ~Given(use.quantityExpression) /\ whole =>
                  a.text = AmountText(target.quantityExpression, target.unit)
           /\ ~Given(use.quantityExpression) /\ ~whole => a.text = <<>>
<1> DEFINE teller == CASE Given(use.quantityExpression) -> <<use>>
                       [] ~Given(use.quantityExpression) /\ whole -> <<target>>
                       [] OTHER -> <<>>
           expression == IF Given(teller) THEN teller[1].quantityExpression ELSE <<>>
           text == IF Given(teller) THEN AmountText(expression, teller[1].unit) ELSE <<>>
           refs == IF use.sourceRefs # <<>> THEN use.sourceRefs ELSE target.sourceRefs
<1>1. a = [text |-> text, itemText |-> target.name, measurable |-> IsMeasurable(expression),
           origin |-> Origin(target.element, target.id, refs)]
  BY DEF PlanAmount
<1> DEFINE said == Given(use.quantityExpression)
<1>2. /\ said => teller = <<use>>
      /\ ~said /\ whole => teller = <<target>>
      /\ ~said /\ ~whole => teller = <<>>
  <2> HIDE DEF said
  <2>1. QED BY DEF said
<1> HIDE DEF teller
<1>3. /\ said => expression = use.quantityExpression /\ text = AmountText(use.quantityExpression, use.unit)
      /\ ~said /\ whole => /\ expression = target.quantityExpression
                           /\ text = AmountText(target.quantityExpression, target.unit)
      /\ ~said /\ ~whole => expression = <<>> /\ text = <<>> BY <1>2 DEF Given
<1> HIDE DEF expression, text
<1>4. IsWorded(text) /\ IsMeasurable(expression) \in BOOLEAN
  BY <1>3, WordsOf, NoneIsAList DEF IsUse, IsTarget, IsWorded, ListOf, Every, IsMeasurable
<1>5. AreRefs(refs) BY DEF IsUse, IsTarget
<1> HIDE DEF refs
<1>6. QED BY <1>1, <1>3, <1>4, <1>5, OriginIs DEF IsPlanAmount, IsTarget, CanonicalElementKind

(* A text that tells a use's amount: its own, or the whole's.             *)
TellsOf(recipe, use, text) ==
    \/ text = AmountText(use.quantityExpression, use.unit)
    \/ /\ ~Given(use.quantityExpression) /\ use.usage \in {"use_now", "use_all"}
       /\ \E i \in DOMAIN Ingredients(recipe) :
             /\ Ingredients(recipe)[i].id = use.of
             /\ text = AmountText(Ingredients(recipe)[i].quantityExpression, Ingredients(recipe)[i].unit)

TargetTells(recipe, use, target) ==
    \/ target.quantityExpression = <<>>
    \/ \E i \in DOMAIN Ingredients(recipe) :
          /\ Ingredients(recipe)[i].id = use.of
          /\ target.quantityExpression = Ingredients(recipe)[i].quantityExpression
          /\ target.unit = Ingredients(recipe)[i].unit

IsAimed(recipe, use, t) ==
    /\ t.use = use /\ IsUse(use) /\ IsTarget(t.target) /\ t.target.id = use.of
    /\ TargetTells(recipe, use, t.target)

AreAimed(recipe, uses, targets) ==
    /\ IsList(uses) /\ Len(uses) \in Nat /\ DOMAIN uses = 1..Len(uses)
    /\ IsList(targets) /\ Len(targets) = Len(uses) /\ DOMAIN targets = 1..Len(uses)
    /\ \A i \in 1..Len(uses) : IsAimed(recipe, uses[i], targets[i])

LEMMA UsesAreAimed ==
    ASSUME NEW recipe, IsCanonicalRecipe(recipe), NEW step, IsInstructionStep(step),
           UsesAreNamed(recipe, step),
           NEW uses, uses = step.ingredientUses \o step.componentUses,
           NEW targets, targets = Targets(recipe, step)
    PROVE  AreAimed(recipe, uses, targets)
<1> DEFINE a == step.ingredientUses  b == step.componentUses
           Pantry(u) == [use |-> u, target |-> IngredientTarget(LastWithId(Ingredients(recipe), u.of))]
           Made(u) == [use |-> u, target |-> ComponentTarget(LastWithId(recipe.preparedComponents, u.of))]
           ta == [i \in DOMAIN a |-> Pantry(a[i])]
           tb == [i \in DOMAIN b |-> Made(b[i])]
<1>1. targets = ta \o tb BY DEF Targets, Each
<1>2. /\ IsList(a) /\ \A i \in DOMAIN a : IsUse(a[i])
      /\ IsList(b) /\ \A i \in DOMAIN b : IsUse(b[i])
  BY DEF IsInstructionStep, ListOf, Every
<1>3. /\ \A i \in DOMAIN a : IsNamed(Ingredients(recipe), a[i].of)
      /\ \A i \in DOMAIN b : IsNamed(recipe.preparedComponents, b[i].of)
  BY DEF UsesAreNamed, Every
<1>4. ASSUME NEW i \in DOMAIN a PROVE IsAimed(recipe, a[i], Pantry(a[i]))
  <2> DEFINE u == a[i]  all == Ingredients(recipe)
  <2>1. IsList(all) /\ \A k \in DOMAIN all : IsIngredient(all[k])
    BY IngredientsAreIngredients DEF ListOf, Every
  <2>2. PICK k \in DOMAIN all : all[k].id = u.of /\ LastWithId(all, u.of) = all[k]
    BY <1>3, <2>1, TheLastIsOne
  <2> DEFINE t == IngredientTarget(all[k])
  <2>3. IsTarget(t) /\ t.id = u.of /\ t.quantityExpression = all[k].quantityExpression
        /\ t.unit = all[k].unit
    BY <2>1, <2>2 DEF IsTarget, IngredientTarget, IsIngredient
  <2>4. Pantry(u).use = u /\ Pantry(u).target = t BY <2>2
  <2> HIDE DEF Pantry, t, u
  <2>5. IsUse(u) BY <1>2 DEF u
  <2>6. QED BY <2>2, <2>3, <2>4, <2>5 DEF u, IsAimed, TargetTells
<1>5. ASSUME NEW i \in DOMAIN b PROVE IsAimed(recipe, b[i], Made(b[i]))
  <2> DEFINE u == b[i]  all == recipe.preparedComponents
  <2>1. IsList(all) /\ \A k \in DOMAIN all : IsPreparedComponent(all[k])
    BY DEF IsCanonicalRecipe, ListOf, Every
  <2>2. PICK k \in DOMAIN all : all[k].id = u.of /\ LastWithId(all, u.of) = all[k]
    BY <1>3, <2>1, TheLastIsOne
  <2> DEFINE t == ComponentTarget(all[k])
  <2>3. IsTarget(t) /\ t.id = u.of /\ t.quantityExpression = <<>>
    BY <2>1, <2>2, NoneIsAList DEF IsTarget, ComponentTarget, IsPreparedComponent, Optional, ListOf,
       Every
  <2>4. Made(u).use = u /\ Made(u).target = t BY <2>2
  <2> HIDE DEF Made, t, u
  <2>5. IsUse(u) BY <1>2 DEF u
  <2>6. QED BY <2>3, <2>4, <2>5 DEF u, IsAimed, TargetTells
<1> HIDE DEF Pantry, Made
<1>6. /\ ta = [i \in DOMAIN a |-> ta[i]] /\ \A i \in DOMAIN a : ta[i] = Pantry(a[i])
      /\ tb = [i \in DOMAIN b |-> tb[i]] /\ \A i \in DOMAIN b : tb[i] = Made(b[i])
  OBVIOUS
<1>7. uses = a \o b OBVIOUS
<1> HIDE DEF a, b, ta, tb
<1>8. /\ IsList(ta) /\ Len(ta) = Len(a) /\ IsList(tb) /\ Len(tb) = Len(b)
      /\ DOMAIN a = 1..Len(a) /\ DOMAIN b = 1..Len(b) /\ Len(a) \in Nat /\ Len(b) \in Nat
  BY <1>2, <1>6, MappedIs, ListFacts
<1>9. /\ IsList(uses) /\ Len(uses) = Len(a) + Len(b) /\ DOMAIN uses = 1..Len(a) + Len(b)
      /\ \A i \in 1..Len(a) : uses[i] = a[i]
      /\ \A i \in Len(a) + 1..Len(a) + Len(b) : uses[i] = b[i - Len(a)]
  BY <1>2, <1>7, Concat
<1>10. /\ IsList(targets) /\ Len(targets) = Len(a) + Len(b) /\ DOMAIN targets = 1..Len(a) + Len(b)
       /\ \A i \in 1..Len(a) : targets[i] = ta[i]
       /\ \A i \in Len(a) + 1..Len(a) + Len(b) : targets[i] = tb[i - Len(a)]
  <2>1. /\ IsList(targets) /\ Len(targets) = Len(ta) + Len(tb) /\ DOMAIN targets = 1..Len(ta) + Len(tb)
        /\ \A i \in 1..Len(ta) : targets[i] = ta[i]
        /\ \A i \in Len(ta) + 1..Len(ta) + Len(tb) : targets[i] = tb[i - Len(ta)]
    <3>1. IsList(ta) /\ IsList(tb) BY <1>8
    <3>2. QED BY <1>1, <3>1, Concat
  <2>2. QED BY <1>8, <2>1
<1>11. ASSUME NEW i \in 1..Len(uses) PROVE IsAimed(recipe, uses[i], targets[i])
  <2>1. CASE i \in 1..Len(a)
    <3>1. i \in DOMAIN a BY <1>8, <2>1
    <3>2. QED BY <1>4, <1>6, <1>9, <1>10, <2>1, <3>1
  <2>2. CASE i \in Len(a) + 1..Len(a) + Len(b)
    <3>1. i - Len(a) \in DOMAIN b BY <1>8, <2>2
    <3>2. QED BY <1>5, <1>6, <1>9, <1>10, <2>2, <3>1
  <2>3. i \in 1..Len(a) \/ i \in Len(a) + 1..Len(a) + Len(b) BY <1>8, <1>9
  <2>4. QED BY <2>1, <2>2, <2>3
<1>12. Len(uses) \in Nat /\ Len(targets) = Len(uses) BY <1>8, <1>9, <1>10
<1>13. QED BY <1>9, <1>10, <1>11, <1>12 DEF AreAimed

(* A list that has each of some places once. *)
OnceIn(p, P) ==
    /\ IsList(p)
    /\ \A k \in 1..Len(p) : p[k] \in P
    /\ \A i \in P : \E k \in 1..Len(p) : p[k] = i
    /\ \A j, k \in 1..Len(p) : p[j] = p[k] => j = k

(* An enumeration has each once; so have two joined that share none. *)
LEMMA EnumeratedOnce ==
    ASSUME NEW n \in Nat, NEW P, P \subseteq 1..n, NEW p, Enumerates(p, P)
    PROVE  OnceIn(p, P)
<1>1. \A j, k \in 1..Len(p) : p[j] = p[k] => j = k BY EnumerationIsOneByOne
<1>2. QED BY <1>1 DEF OnceIn, Enumerates

LEMMA JoinedOnce ==
    ASSUME NEW P, NEW R, P \cap R = {}, NEW p, NEW r, OnceIn(p, P), OnceIn(r, R)
    PROVE  OnceIn(p \o r, P \cup R)
<1> DEFINE q == p \o r
<1>1. q = p \o r OBVIOUS
<1> HIDE DEF q
<1>2. /\ Len(p) \in Nat /\ Len(r) \in Nat
      /\ IsList(q) /\ Len(q) = Len(p) + Len(r)
      /\ \A i \in 1..Len(p) : q[i] = p[i]
      /\ \A i \in 1..Len(r) : q[Len(p) + i] = r[i]
      /\ \A i \in Len(p) + 1..Len(p) + Len(r) : q[i] = r[i - Len(p)]
  BY <1>1, Concat, ListFacts DEF OnceIn
<1>3. \A k \in 1..Len(q) : \/ k \in 1..Len(p) /\ q[k] = p[k] /\ q[k] \in P
                           \/ /\ k - Len(p) \in 1..Len(r) /\ k \notin 1..Len(p)
                              /\ q[k] = r[k - Len(p)] /\ q[k] \in R BY <1>2 DEF OnceIn
<1>4. ASSUME NEW i \in P \cup R PROVE \E k \in 1..Len(q) : q[k] = i
  <2>1. CASE i \in P BY <1>2, <2>1 DEF OnceIn
  <2>2. CASE i \in R BY <1>2, <2>2 DEF OnceIn
  <2>3. QED BY <2>1, <2>2
<1>5. ASSUME NEW j \in 1..Len(q), NEW k \in 1..Len(q), q[j] = q[k] PROVE j = k
  BY <1>2, <1>3, <1>5 DEF OnceIn
<1>6. OnceIn(q, P \cup R) BY <1>2, <1>3, <1>4, <1>5 DEF OnceIn
<1>7. QED BY <1>6, <1>1

(* What stands where in a list of picked elements. *)
LEMMA PickedThere ==
    ASSUME NEW seq, IsList(seq), NEW P, NEW p, p = PickedAt(Len(seq), P), NEW t, t = Picked(seq, P),
           NEW k \in 1..Len(p)
    PROVE  t[k] = seq[p[k]]
<1>1. /\ Enumerates(p, P \cap (1..Len(seq)))
      /\ \A i \in 1..Len(p) : Picked(seq, P)[i] = seq[p[i]]
  BY PickedIs
<1>2. QED BY <1>1

AsOneOf(usage) == IF usage \in {"use_now", "use_all"} THEN {"use_now", "use_all"} ELSE {usage}

(* What a unit says it needs is what one of the uses is. *)
IsNeedOf(recipe, uses, need, i) ==
    /\ i \in 1..Len(uses) /\ need.amount.origin.id = uses[i].of
    /\ need.usages = AsOneOf(uses[i].usage) /\ TellsOf(recipe, uses[i], need.amount.text)

(* Needs that are the uses at the given places, one by one. *)
NeedsAt(recipe, uses, needs, p) ==
    /\ IsList(needs) /\ IsList(p) /\ Len(needs) = Len(p)
    /\ \A k \in 1..Len(p) : IsNeedOf(recipe, uses, needs[k], p[k])

(* Needs joined are the uses at the joined places. *)
LEMMA NeedsJoin ==
    ASSUME NEW recipe, NEW uses, NEW a, NEW p, NeedsAt(recipe, uses, a, p),
           NEW b, NEW r, NeedsAt(recipe, uses, b, r)
    PROVE  NeedsAt(recipe, uses, a \o b, p \o r)
<1> DEFINE q == p \o r  c == a \o b
<1>1. /\ Len(p) \in Nat /\ Len(r) \in Nat /\ IsList(q) /\ Len(q) = Len(p) + Len(r)
      /\ \A i \in 1..Len(p) : q[i] = p[i]
      /\ \A i \in Len(p) + 1..Len(p) + Len(r) : q[i] = r[i - Len(p)]
  BY Concat, ListFacts DEF NeedsAt
<1>2. /\ IsList(c) /\ Len(c) = Len(p) + Len(r)
      /\ \A i \in 1..Len(p) : c[i] = a[i]
      /\ \A i \in Len(p) + 1..Len(p) + Len(r) : c[i] = b[i - Len(p)] BY Concat DEF NeedsAt
<1> HIDE DEF q, c
<1>3. ASSUME NEW k \in 1..Len(q) PROVE IsNeedOf(recipe, uses, c[k], q[k])
  <2>1. CASE k \in 1..Len(p) BY <1>1, <1>2, <2>1 DEF NeedsAt
  <2>2. CASE k \in Len(p) + 1..Len(p) + Len(r) /\ k - Len(p) \in 1..Len(r)
    BY <1>1, <1>2, <2>2 DEF NeedsAt
  <2>3. QED BY <1>1, <2>1, <2>2
<1>4. QED BY <1>1, <1>2, <1>3 DEF c, q, NeedsAt

(* A use's amount as a unit tells it. *)
LEMMA AmountIsNeeded ==
    ASSUME NEW recipe, NEW use, NEW t, IsAimed(recipe, use, t), NEW whole \in BOOLEAN,
           whole => use.usage \in {"use_now", "use_all"},
           NEW a, a = PlanAmount(t.use, t.target, whole)
    PROVE  IsPlanAmount(a) /\ a.origin.id = use.of /\ TellsOf(recipe, use, a.text)
           /\ IsWorded(WholeOf(t.target))
<1>1. t.use = use /\ IsUse(use) /\ IsTarget(t.target) /\ t.target.id = use.of
      /\ TargetTells(recipe, use, t.target)
  BY DEF IsAimed
<1> DEFINE target == t.target  said == Given(use.quantityExpression)
<1> HIDE DEF target
<1>2. /\ IsPlanAmount(a) /\ a.origin.id = target.id
      /\ said => a.text = AmountText(use.quantityExpression, use.unit)
      /\ ~said /\ whole => a.text = AmountText(target.quantityExpression, target.unit)
      /\ ~said /\ ~whole => a.text = <<>> BY <1>1, AmountIsPlanned DEF target
<1>3. QED BY <1>1, <1>2, WordsOf DEF target, WholeOf, IsTarget, TellsOf, TargetTells, AmountText, Given

(* The amounts of a unit, its portions and what it sets aside. *)
AmountNeeds(a) == [k \in DOMAIN a |-> [amount |-> a[k], usages |-> {"use_now", "use_all"}]]
SplitNeeds(a) == [k \in DOMAIN a |-> [amount |-> a[k].amount, usages |->
    IF a[k].portion = "remaining" THEN {"use_remaining"} ELSE {"use_partial_unspecified"}]]
ReservedNeeds(a) == [k \in DOMAIN a |-> [amount |-> a[k].amount, usages |-> {"reserve_for_later"}]]
WholeUses(uses) == {i \in 1..Len(uses) : uses[i].usage \notin Splits \cup {"reserve_for_later"}}
SplitUses(uses) == {i \in 1..Len(uses) : uses[i].usage \in Splits}
ReservingUses(uses) == {i \in 1..Len(uses) : uses[i].usage = "reserve_for_later"}

(* A unit's amounts, portions and reserved amounts are its step's uses. *)
LEMMA AmountsAreNeeded ==
    ASSUME NEW recipe, NEW uses, NEW targets, IsList(targets), Len(targets) = Len(uses),
           \A i \in 1..Len(uses) : IsAimed(recipe, uses[i], targets[i])
    PROVE  /\ ListOf(Amounts(targets), IsPlanAmount)
           /\ NeedsAt(recipe, uses, AmountNeeds(Amounts(targets)), PickedAt(Len(targets), WholeUses(uses)))
<1> DEFINE a == Amounts(targets)  needs == AmountNeeds(a)  P == WholeUses(uses)
<1>1. \A i : i \in P <=> i \in 1..Len(uses) /\ uses[i].usage \notin Splits \cup {"reserve_for_later"}
  BY DEF WholeUses
<1>2. /\ needs = [k \in DOMAIN a |-> needs[k]]
      /\ \A k \in DOMAIN a : needs[k] = [amount |-> a[k], usages |-> {"use_now", "use_all"}]
  BY DEF AmountNeeds
<1>3. a = Amounts(targets) OBVIOUS
<1> HIDE DEF a, needs, P
<1> DEFINE Q == {i \in DOMAIN targets : targets[i].use.usage \notin Splits \cup {"reserve_for_later"}}
           t == Picked(targets, Q)  p == PickedAt(Len(targets), Q)
<1>4. a = [k \in DOMAIN t |-> PlanAmount(t[k].use, t[k].target, TRUE)] BY <1>3 DEF Amounts, Each, Filtered
<1>5. Q = P BY <1>1, ListFacts DEF IsAimed
<1>6. p = PickedAt(Len(targets), Q) /\ t = Picked(targets, Q) OBVIOUS
<1> HIDE DEF Q, p, t
<1>7. /\ Enumerates(p, Q \cap (1..Len(targets))) /\ Len(p) \in Nat
      /\ \A k \in 1..Len(p) : p[k] \in 1..Len(targets) /\ p[k] \in Q
      /\ IsList(t) /\ Len(t) = Len(p)
      /\ \A k \in 1..Len(p) : t[k] = targets[p[k]] BY <1>6, PickedIs, PickedThere
<1>8. IsList(a) /\ Len(a) = Len(p) /\ DOMAIN a = 1..Len(p) /\ DOMAIN t = 1..Len(p)
  BY <1>4, <1>7, MappedIs
<1>9. ASSUME NEW k \in 1..Len(p)
      PROVE  IsPlanAmount(a[k]) /\ IsNeedOf(recipe, uses, needs[k], p[k])
  <2> DEFINE u == uses[p[k]]
  <2>1. p[k] \in 1..Len(uses) /\ IsAimed(recipe, u, t[k]) BY <1>7
  <2> HIDE DEF u
  <2>2. u.usage \in {"use_now", "use_all"}
    BY <1>1, <1>5, <1>7, <2>1 DEF UsageKind, Splits, IsAimed, IsUse
  <2>3. IsPlanAmount(a[k]) /\ a[k].origin.id = u.of /\ TellsOf(recipe, u, a[k].text)
    <3> DEFINE whole == TRUE
    <3>1. whole \in BOOLEAN /\ (whole => u.usage \in {"use_now", "use_all"}) BY <2>2
    <3>2. a[k] = PlanAmount(t[k].use, t[k].target, whole) BY <1>4, <1>8
    <3> HIDE DEF whole
    <3>3. QED BY <2>1, <3>1, <3>2, AmountIsNeeded
  <2>4. QED BY <1>2, <1>8, <2>1, <2>2, <2>3 DEF IsNeedOf, u, AsOneOf
<1>10. QED
  BY <1>2, <1>5, <1>7, <1>8, <1>9, MappedIs DEF p, a, needs, P, ListOf, Every, NeedsAt, Enumerates

LEMMA SplitsAreNeeded ==
    ASSUME NEW recipe, NEW uses, NEW targets, IsList(targets), Len(targets) = Len(uses),
           \A i \in 1..Len(uses) : IsAimed(recipe, uses[i], targets[i])
    PROVE  /\ ListOf(SplitAmounts(targets), IsSplitAmount)
           /\ NeedsAt(recipe, uses, SplitNeeds(SplitAmounts(targets)), PickedAt(Len(targets), SplitUses(uses)))
<1> DEFINE a == SplitAmounts(targets)  needs == SplitNeeds(a)  P == SplitUses(uses)
<1>1. \A i : i \in P <=> i \in 1..Len(uses) /\ uses[i].usage \in Splits
  BY DEF SplitUses
<1>2. /\ needs = [k \in DOMAIN a |-> needs[k]]
      /\ \A k \in DOMAIN a : needs[k] = [amount |-> a[k].amount, usages |->
               IF a[k].portion = "remaining" THEN {"use_remaining"} ELSE {"use_partial_unspecified"}]
  BY DEF SplitNeeds
<1>3. a = SplitAmounts(targets) OBVIOUS
<1> HIDE DEF a, needs, P
<1> DEFINE Q == {i \in DOMAIN targets : targets[i].use.usage \in Splits}
           t == Picked(targets, Q)  p == PickedAt(Len(targets), Q)
           Portion(k) == IF t[k].use.usage = "use_remaining" THEN "remaining" ELSE "part_of"
<1>4. a = [k \in DOMAIN t |-> [amount |-> PlanAmount(t[k].use, t[k].target, FALSE),
                               portion |-> Portion(k), wholeText |-> WholeOf(t[k].target)]]
  BY <1>3 DEF SplitAmounts, Each, Filtered
<1>5. Q = P BY <1>1, ListFacts DEF IsAimed
<1>6. p = PickedAt(Len(targets), Q) /\ t = Picked(targets, Q) OBVIOUS
<1> HIDE DEF Q, p, t
<1>7. /\ Enumerates(p, Q \cap (1..Len(targets))) /\ Len(p) \in Nat
      /\ \A k \in 1..Len(p) : p[k] \in 1..Len(targets) /\ p[k] \in Q
      /\ IsList(t) /\ Len(t) = Len(p)
      /\ \A k \in 1..Len(p) : t[k] = targets[p[k]] BY <1>6, PickedIs, PickedThere
<1>8. IsList(a) /\ Len(a) = Len(p) /\ DOMAIN a = 1..Len(p) /\ DOMAIN t = 1..Len(p)
  BY <1>4, <1>7, MappedIs
<1>9. ASSUME NEW k \in 1..Len(p)
      PROVE  IsSplitAmount(a[k]) /\ IsNeedOf(recipe, uses, needs[k], p[k])
  <2> DEFINE u == uses[p[k]]  amount == PlanAmount(t[k].use, t[k].target, FALSE)
             whole == WholeOf(t[k].target)
  <2>1. p[k] \in 1..Len(uses) /\ IsAimed(recipe, u, t[k]) BY <1>7
  <2>2. a[k] = [amount |-> amount, portion |-> Portion(k), wholeText |-> whole] BY <1>4, <1>8
  <2>3. u.usage \in Splits BY <1>5, <1>7, <1>1
  <2>4. t[k].use = u BY <2>1 DEF IsAimed
  <2> HIDE DEF u
  <2>5. u.usage \notin {"use_now", "use_all"} BY <2>3 DEF Splits
  <2>6. amount = PlanAmount(t[k].use, t[k].target, FALSE) /\ whole = WholeOf(t[k].target) OBVIOUS
  <2> HIDE DEF amount, whole
  <2>7. IsPlanAmount(amount) /\ amount.origin.id = u.of /\ TellsOf(recipe, u, amount.text)
        /\ IsWorded(whole)
    <3> DEFINE inherits == FALSE
    <3>1. inherits \in BOOLEAN /\ (inherits => u.usage \in {"use_now", "use_all"}) OBVIOUS
    <3>2. amount = PlanAmount(t[k].use, t[k].target, inherits) BY <2>6
    <3> HIDE DEF inherits
    <3>3. IsPlanAmount(amount) /\ amount.origin.id = u.of /\ TellsOf(recipe, u, amount.text)
          /\ IsWorded(WholeOf(t[k].target))
      BY <2>1, <3>1, <3>2, AmountIsNeeded
    <3>4. QED BY <2>6, <3>3
  <2>8. Portion(k) = IF u.usage = "use_remaining" THEN "remaining" ELSE "part_of" BY <2>4
  <2> HIDE DEF Portion
  <2>9. /\ a[k].amount = amount /\ a[k].portion = Portion(k) /\ a[k].wholeText = whole
        /\ DOMAIN a[k] = {"amount", "portion", "wholeText"}
    BY <2>2
  <2>10. needs[k].amount = amount /\ needs[k].usages = AsOneOf(u.usage)
    <3>1. needs[k] = [amount |-> amount, usages |->
             IF Portion(k) = "remaining" THEN {"use_remaining"} ELSE {"use_partial_unspecified"}]
      BY <1>8, <1>2, <2>9
    <3>2. CASE u.usage = "use_remaining" BY <2>8, <3>1, <3>2 DEF AsOneOf
    <3>3. CASE u.usage = "use_partial_unspecified" BY <2>8, <3>1, <3>3 DEF AsOneOf
    <3>4. QED BY <2>3, <3>2, <3>3 DEF Splits
  <2>11. QED BY <2>8, <2>1, <2>7, <2>9, <2>10 DEF IsNeedOf, u, IsSplitAmount
<1>10. QED
  BY <1>2, <1>5, <1>7, <1>8, <1>9, MappedIs DEF p, a, needs, P, ListOf, Every, NeedsAt, Enumerates

LEMMA ReservedAreNeeded ==
    ASSUME NEW recipe, NEW uses, NEW targets, IsList(targets), Len(targets) = Len(uses),
           \A i \in 1..Len(uses) : IsAimed(recipe, uses[i], targets[i])
    PROVE  /\ ListOf(Reserved(targets), IsReservedAmount)
           /\ NeedsAt(recipe, uses, ReservedNeeds(Reserved(targets)), PickedAt(Len(targets), ReservingUses(uses)))
<1> DEFINE a == Reserved(targets)  needs == ReservedNeeds(a)  P == ReservingUses(uses)
<1>1. \A i : i \in P <=> i \in 1..Len(uses) /\ uses[i].usage = "reserve_for_later"
  BY DEF ReservingUses
<1>2. /\ needs = [k \in DOMAIN a |-> needs[k]]
      /\ \A k \in DOMAIN a : needs[k] = [amount |-> a[k].amount, usages |-> {"reserve_for_later"}]
  BY DEF ReservedNeeds
<1>3. a = Reserved(targets) OBVIOUS
<1> HIDE DEF a, needs, P
<1> DEFINE Q == {i \in DOMAIN targets : targets[i].use.usage = "reserve_for_later"}
           t == Picked(targets, Q)  p == PickedAt(Len(targets), Q)
<1>4. a = [k \in DOMAIN t |-> [amount |-> PlanAmount(t[k].use, t[k].target, FALSE), neededAtUnit |-> <<>>]]
  BY <1>3 DEF Reserved, Each, Filtered
<1>5. Q = P BY <1>1, ListFacts DEF IsAimed
<1>6. p = PickedAt(Len(targets), Q) /\ t = Picked(targets, Q) OBVIOUS
<1> HIDE DEF Q, p, t
<1>7. /\ Enumerates(p, Q \cap (1..Len(targets))) /\ Len(p) \in Nat
      /\ \A k \in 1..Len(p) : p[k] \in 1..Len(targets) /\ p[k] \in Q
      /\ IsList(t) /\ Len(t) = Len(p)
      /\ \A k \in 1..Len(p) : t[k] = targets[p[k]] BY <1>6, PickedIs, PickedThere
<1>8. IsList(a) /\ Len(a) = Len(p) /\ DOMAIN a = 1..Len(p) /\ DOMAIN t = 1..Len(p)
  BY <1>4, <1>7, MappedIs
<1>9. ASSUME NEW k \in 1..Len(p)
      PROVE  IsReservedAmount(a[k]) /\ IsNeedOf(recipe, uses, needs[k], p[k])
  <2> DEFINE u == uses[p[k]]  amount == PlanAmount(t[k].use, t[k].target, FALSE)
  <2>1. p[k] \in 1..Len(uses) /\ IsAimed(recipe, u, t[k]) BY <1>7
  <2>2. a[k] = [amount |-> amount, neededAtUnit |-> <<>>] BY <1>4, <1>8
  <2>3. u.usage = "reserve_for_later" BY <1>5, <1>7, <1>1
  <2> HIDE DEF u
  <2>4. amount = PlanAmount(t[k].use, t[k].target, FALSE) OBVIOUS
  <2> HIDE DEF amount
  <2>5. IsPlanAmount(amount) /\ amount.origin.id = u.of /\ TellsOf(recipe, u, amount.text)
    <3> DEFINE inherits == FALSE
    <3>1. inherits \in BOOLEAN /\ (inherits => u.usage \in {"use_now", "use_all"}) OBVIOUS
    <3>2. amount = PlanAmount(t[k].use, t[k].target, inherits) BY <2>4
    <3> HIDE DEF inherits
    <3>3. QED BY <2>1, <3>1, <3>2, AmountIsNeeded
  <2>6. QED
    BY <1>2, <1>8, <2>1, <2>2, <2>3, <2>5, NoneIsAList DEF IsNeedOf, u, IsReservedAmount, Optional,
       ListOf, Every, AsOneOf
<1>10. QED
  BY <1>2, <1>5, <1>7, <1>8, <1>9, MappedIs DEF p, a, needs, P, ListOf, Every, NeedsAt, Enumerates

(* Parameters that matter while a unit runs. *)
Critical(parameters) == ListOf(parameters, IsCriticalParameter)

LEMMA CriticalJoin ==
    ASSUME NEW a, NEW b, Critical(a), Critical(b)
    PROVE  Critical(a \o b)
<1> DEFINE c == a \o b
<1>1. /\ Len(a) \in Nat /\ Len(b) \in Nat /\ DOMAIN a = 1..Len(a) /\ DOMAIN b = 1..Len(b)
      /\ IsList(c) /\ DOMAIN c = 1..Len(a) + Len(b)
      /\ \A i \in 1..Len(a) : c[i] = a[i]
      /\ \A i \in Len(a) + 1..Len(a) + Len(b) : c[i] = b[i - Len(a)]
  BY Concat, ListFacts DEF Critical, ListOf
<1> HIDE DEF c
<1>2. ASSUME NEW i \in DOMAIN c PROVE IsCriticalParameter(c[i]) BY <1>1 DEF Critical, ListOf, Every
<1>3. Critical(c) BY <1>1, <1>2 DEF Critical, ListOf, Every
<1>4. QED BY <1>3 DEF c

LEMMA ParametersAreCritical ==
    ASSUME NEW seq, IsList(seq), NEW step, Filled(step.id),
           NEW kind \in {"duration", "temperature", "doneness", "wait"},
           NEW element \in CanonicalElementKind,
           NEW t, t = [i \in DOMAIN seq |-> t[i]],
           \A i \in DOMAIN seq : /\ AreRefs(seq[i].sourceRefs) /\ IsText(t[i].text) /\ t[i].kind = kind
                                 /\ t[i].origin = OriginInStep(element, step, i, seq[i].sourceRefs)
    PROVE  Critical(t)
<1>1. IsList(t) /\ DOMAIN t = 1..Len(seq) /\ DOMAIN seq = 1..Len(seq) /\ Len(seq) \in Nat
  BY MappedIs, ListFacts
<1>2. ASSUME NEW i \in DOMAIN t PROVE IsCriticalParameter(t[i])
  BY <1>1, OriginInStepIs DEF IsCriticalParameter
<1>3. QED BY <1>1, <1>2 DEF Critical, ListOf, Every

LEMMA CriticalIs ==
    ASSUME NEW step, IsInstructionStep(step)
    PROVE  Critical(CriticalOf(step))
<1> DEFINE d == [i \in DOMAIN step.durations |->
                   [text |-> Wording(step.durations[i].durationExpression), kind |-> "duration",
                    origin |-> OriginInStep("stepDuration", step, i, step.durations[i].sourceRefs)]]
           t == [i \in DOMAIN step.temperatures |->
                   [text |-> Wording(step.temperatures[i]), kind |-> "temperature",
                    origin |-> OriginInStep("stepTemperature", step, i, step.temperatures[i].sourceRefs)]]
           c == [i \in DOMAIN step.donenessCues |->
                   [text |-> Wording(step.donenessCues[i]), kind |-> "doneness",
                    origin |-> OriginInStep("stepDoneness", step, i, step.donenessCues[i].sourceRefs)]]
           w == [i \in DOMAIN step.waitCues |->
                   [text |-> Wording(step.waitCues[i]), kind |-> "wait",
                    origin |-> OriginInStep("stepWait", step, i, step.waitCues[i].sourceRefs)]]
<1>1. CriticalOf(step) = d \o t \o c \o w BY DEF CriticalOf
<1>2. /\ Filled(step.id) /\ IsList(step.durations) /\ IsList(step.temperatures)
      /\ IsList(step.donenessCues) /\ IsList(step.waitCues)
  BY DEF IsInstructionStep, ListOf
<1>3. Critical(d)
  <2>1. \A i \in DOMAIN step.durations : AreRefs(step.durations[i].sourceRefs) /\ IsText(d[i].text)
    BY DEF IsInstructionStep, ListOf, Every, IsStepDuration, IsDurationExpression, Wording
  <2>2. /\ d = [i \in DOMAIN step.durations |-> d[i]]
        /\ \A i \in DOMAIN step.durations : d[i].kind = "duration"
              /\ d[i].origin = OriginInStep("stepDuration", step, i, step.durations[i].sourceRefs)
    OBVIOUS
  <2> HIDE DEF d
  <2> DEFINE seq == step.durations  kind == "duration"  element == "stepDuration"
  <2>3. element \in CanonicalElementKind /\ kind \in {"duration", "temperature", "doneness", "wait"}
    BY DEF CanonicalElementKind
  <2>4. \A i \in DOMAIN seq : /\ AreRefs(seq[i].sourceRefs) /\ IsText(d[i].text) /\ d[i].kind = kind
            /\ d[i].origin = OriginInStep(element, step, i, seq[i].sourceRefs)
    BY <2>1, <2>2
  <2>5. IsList(seq) /\ d = [i \in DOMAIN seq |-> d[i]] BY <1>2, <2>2
  <2> HIDE DEF seq, kind, element
  <2>6. QED BY <1>2, <2>3, <2>4, <2>5, ParametersAreCritical
<1>4. Critical(t)
  <2>1. \A i \in DOMAIN step.temperatures : AreRefs(step.temperatures[i].sourceRefs) /\ IsText(t[i].text)
    BY DEF IsInstructionStep, ListOf, Every, IsTemperature, Wording
  <2>2. /\ t = [i \in DOMAIN step.temperatures |-> t[i]]
        /\ \A i \in DOMAIN step.temperatures : t[i].kind = "temperature"
              /\ t[i].origin = OriginInStep("stepTemperature", step, i, step.temperatures[i].sourceRefs)
    OBVIOUS
  <2> HIDE DEF t
  <2> DEFINE seq == step.temperatures  kind == "temperature"  element == "stepTemperature"
  <2>3. element \in CanonicalElementKind /\ kind \in {"duration", "temperature", "doneness", "wait"}
    BY DEF CanonicalElementKind
  <2>4. \A i \in DOMAIN seq : /\ AreRefs(seq[i].sourceRefs) /\ IsText(t[i].text) /\ t[i].kind = kind
            /\ t[i].origin = OriginInStep(element, step, i, seq[i].sourceRefs)
    BY <2>1, <2>2
  <2>5. IsList(seq) /\ t = [i \in DOMAIN seq |-> t[i]] BY <1>2, <2>2
  <2> HIDE DEF seq, kind, element
  <2>6. QED BY <1>2, <2>3, <2>4, <2>5, ParametersAreCritical
<1>5. Critical(c)
  <2>1. \A i \in DOMAIN step.donenessCues : AreRefs(step.donenessCues[i].sourceRefs) /\ IsText(c[i].text)
    BY DEF IsInstructionStep, ListOf, Every, IsCue, Wording
  <2>2. /\ c = [i \in DOMAIN step.donenessCues |-> c[i]]
        /\ \A i \in DOMAIN step.donenessCues : c[i].kind = "doneness"
              /\ c[i].origin = OriginInStep("stepDoneness", step, i, step.donenessCues[i].sourceRefs)
    OBVIOUS
  <2> HIDE DEF c
  <2> DEFINE seq == step.donenessCues  kind == "doneness"  element == "stepDoneness"
  <2>3. element \in CanonicalElementKind /\ kind \in {"duration", "temperature", "doneness", "wait"}
    BY DEF CanonicalElementKind
  <2>4. \A i \in DOMAIN seq : /\ AreRefs(seq[i].sourceRefs) /\ IsText(c[i].text) /\ c[i].kind = kind
            /\ c[i].origin = OriginInStep(element, step, i, seq[i].sourceRefs)
    BY <2>1, <2>2
  <2>5. IsList(seq) /\ c = [i \in DOMAIN seq |-> c[i]] BY <1>2, <2>2
  <2> HIDE DEF seq, kind, element
  <2>6. QED BY <1>2, <2>3, <2>4, <2>5, ParametersAreCritical
<1>6. Critical(w)
  <2>1. \A i \in DOMAIN step.waitCues : AreRefs(step.waitCues[i].sourceRefs) /\ IsText(w[i].text)
    BY DEF IsInstructionStep, ListOf, Every, IsCue, Wording
  <2>2. /\ w = [i \in DOMAIN step.waitCues |-> w[i]]
        /\ \A i \in DOMAIN step.waitCues : w[i].kind = "wait"
              /\ w[i].origin = OriginInStep("stepWait", step, i, step.waitCues[i].sourceRefs)
    OBVIOUS
  <2> HIDE DEF w
  <2> DEFINE seq == step.waitCues  kind == "wait"  element == "stepWait"
  <2>3. element \in CanonicalElementKind /\ kind \in {"duration", "temperature", "doneness", "wait"}
    BY DEF CanonicalElementKind
  <2>4. \A i \in DOMAIN seq : /\ AreRefs(seq[i].sourceRefs) /\ IsText(w[i].text) /\ w[i].kind = kind
            /\ w[i].origin = OriginInStep(element, step, i, seq[i].sourceRefs)
    BY <2>1, <2>2
  <2>5. IsList(seq) /\ w = [i \in DOMAIN seq |-> w[i]] BY <1>2, <2>2
  <2> HIDE DEF seq, kind, element
  <2>6. QED BY <1>2, <2>3, <2>4, <2>5, ParametersAreCritical
<1> HIDE DEF d, t, c, w
<1>7. QED BY <1>1, <1>3, <1>4, <1>5, <1>6, CriticalJoin

(* Needs that are each of the uses once are as many, and of each kind as many. *)
LEMMA NeedsAreUses ==
    ASSUME NEW recipe, NEW uses, IsList(uses), \A i \in 1..Len(uses) : IsUse(uses[i]),
           NEW needs, NEW q, NeedsAt(recipe, uses, needs, q), OnceIn(q, 1..Len(uses))
    PROVE  /\ Len(needs) = Len(uses)
           /\ \A i \in DOMAIN uses :
                Cardinality({k \in DOMAIN needs :
                    needs[k].amount.origin.id = uses[i].of /\ uses[i].usage \in needs[k].usages}) =
                Cardinality({j \in DOMAIN uses : uses[j].of = uses[i].of /\
                    (uses[j].usage = uses[i].usage
                     \/ {uses[j].usage, uses[i].usage} = {"use_now", "use_all"})})
           /\ \A k \in DOMAIN needs : \E i \in DOMAIN uses :
                /\ uses[i].of = needs[k].amount.origin.id /\ uses[i].usage \in needs[k].usages
                /\ TellsOf(recipe, uses[i], needs[k].amount.text)
<1>1. /\ DOMAIN uses = 1..Len(uses) /\ Len(uses) \in Nat
      /\ DOMAIN needs = 1..Len(needs) /\ Len(needs) = Len(q) /\ Len(q) \in Nat
  BY ListFacts DEF NeedsAt
<1>2. \A k \in 1..Len(q) : q[k] \in 1..Len(uses) /\ IsNeedOf(recipe, uses, needs[k], q[k])
  BY DEF NeedsAt, OnceIn
<1>3. Len(needs) = Len(uses)
  <2> DEFINE A == 1..Len(q)  B == 1..Len(uses)
  <2>1. IsFiniteSet(A) /\ Cardinality(A) = Len(q) /\ Cardinality(B) = Len(uses) BY <1>1, Upto
  <2>2. /\ \A a \in A : q[a] \in B
        /\ \A b \in B : \E a \in A : q[a] = b
        /\ \A a, b \in A : q[a] = q[b] => a = b
    BY DEF OnceIn
  <2> HIDE DEF A, B
  <2>3. QED BY <1>1, <2>1, <2>2, PairedOff
<1>4. ASSUME NEW i \in DOMAIN uses
      PROVE  Cardinality({k \in DOMAIN needs :
                    needs[k].amount.origin.id = uses[i].of /\ uses[i].usage \in needs[k].usages}) =
             Cardinality({j \in DOMAIN uses : uses[j].of = uses[i].of /\
                    (uses[j].usage = uses[i].usage
                     \/ {uses[j].usage, uses[i].usage} = {"use_now", "use_all"})})
  <2> DEFINE u == uses[i]
             A == {k \in DOMAIN needs : needs[k].amount.origin.id = u.of /\ u.usage \in needs[k].usages}
             B == {j \in DOMAIN uses : uses[j].of = u.of /\
                    (uses[j].usage = u.usage \/ {uses[j].usage, u.usage} = {"use_now", "use_all"})}
  <2>1. \A j \in DOMAIN uses : u.usage \in AsOneOf(uses[j].usage)
            <=> (uses[j].usage = u.usage \/ {uses[j].usage, u.usage} = {"use_now", "use_all"})
    BY DEF AsOneOf
  <2>2. A \subseteq 1..Len(q) BY <1>1
  <2>3. IsFiniteSet(A) BY <1>1, <2>2, PlacesAreFinite
  <2>4. \A k \in 1..Len(q) : k \in A <=> q[k] \in B
    BY <1>1, <1>2, <2>1 DEF IsNeedOf
  <2>5. B \subseteq 1..Len(uses) BY <1>1
  <2> HIDE DEF A, B
  <2>6. /\ \A a \in A : q[a] \in B
        /\ \A b \in B : \E a \in A : q[a] = b
        /\ \A a, b \in A : q[a] = q[b] => a = b
    BY <2>2, <2>4, <2>5 DEF OnceIn
  <2>7. Cardinality(B) = Cardinality(A) BY <2>3, <2>6, PairedOff
  <2>8. QED BY <2>7 DEF A, B
<1>5. ASSUME NEW k \in DOMAIN needs
      PROVE  \E i \in DOMAIN uses :
                /\ uses[i].of = needs[k].amount.origin.id /\ uses[i].usage \in needs[k].usages
                /\ TellsOf(recipe, uses[i], needs[k].amount.text) BY <1>1, <1>2 DEF IsNeedOf, AsOneOf
<1>6. QED BY <1>3, <1>4, <1>5

(* The names of what a step makes are texts. *)
LEMMA ProductsAreNamed ==
    ASSUME NEW recipe, IsCanonicalRecipe(recipe), NEW step, IsInstructionStep(step),
           NEW t, t = [k \in DOMAIN step.producesComponents |->
                         LabelOf(recipe.preparedComponents, step.producesComponents[k])]
    PROVE  ListOf(t, IsText)
<1> DEFINE ids == step.producesComponents  components == recipe.preparedComponents
<1>1. IsList(ids) /\ \A k \in DOMAIN ids : Filled(ids[k]) BY DEF IsInstructionStep, ListOf, Every
<1>2. IsList(components) /\ \A k \in DOMAIN components : IsText(components[k].label)
  BY DEF IsCanonicalRecipe, ListOf, Every, IsPreparedComponent
<1>3. t = [k \in DOMAIN ids |-> LabelOf(components, ids[k])] OBVIOUS
<1> HIDE DEF ids, components
<1>4. ASSUME NEW k \in DOMAIN ids PROVE IsText(LabelOf(components, ids[k]))
  <2>1. CASE IsNamed(components, ids[k]) BY <1>2, <2>1, TheLastIsOne DEF LabelOf
  <2>2. CASE ~IsNamed(components, ids[k]) BY <1>1, <2>2 DEF LabelOf, Filled
  <2>3. QED BY <2>1, <2>2
<1>5. t = [k \in DOMAIN ids |-> t[k]] /\ DOMAIN t = DOMAIN ids /\ \A k \in DOMAIN ids : IsText(t[k])
  BY <1>3, <1>4
<1>6. IsList(t) BY <1>1, <1>5, MappedIs
<1>7. QED BY <1>5, <1>6 DEF ListOf, Every

(* A unit is its step again. *)
LEMMA UnitFollows ==
    ASSUME NEW recipe, IsCanonicalRecipe(recipe), NEW step, IsInstructionStep(step),
           UsesAreNamed(recipe, step), NEW n \in Nat \ {0}, NEW sectionTitle, Optional(sectionTitle, IsText),
           NEW unit, unit = UnitOf(recipe, n, step, sectionTitle)
    PROVE  unit.n = n /\ UnitFollowsStep(recipe, unit, step) /\ IsCookingUnit(unit)
<1> DEFINE targets == Targets(recipe, step)
           ids == step.producesComponents
           uses == step.ingredientUses \o step.componentUses
           a == unit.amounts  s == unit.splits  r == unit.reserved
           na == AmountNeeds(a)  ns == SplitNeeds(s)  nr == ReservedNeeds(r)
           A == WholeUses(uses)  S == SplitUses(uses)  R == ReservingUses(uses)
           products == [k \in DOMAIN ids |-> LabelOf(recipe.preparedComponents, ids[k])]
<1>1. /\ unit.n = n /\ unit.actionText = step.normalizedActionText /\ unit.sectionTitle = sectionTitle
      /\ a = Amounts(targets) /\ s = SplitAmounts(targets) /\ r = Reserved(targets)
      /\ unit.critical = CriticalOf(step) /\ unit.produces = products
      /\ unit.origin = Origin("step", step.id, step.sourceRefs)
  BY DEF UnitOf, Each
<1>2. Needs(unit) = na \o ns \o nr BY DEF Needs, Each, AmountNeeds, SplitNeeds, ReservedNeeds
<1>3. /\ IsList(uses) /\ Len(uses) \in Nat /\ DOMAIN uses = 1..Len(uses)
      /\ IsList(targets) /\ Len(targets) = Len(uses)
      /\ \A i \in 1..Len(uses) : IsAimed(recipe, uses[i], targets[i])
  <2>1. targets = Targets(recipe, step) /\ uses = step.ingredientUses \o step.componentUses OBVIOUS
  <2> HIDE DEF targets, uses
  <2>2. AreAimed(recipe, uses, targets) BY <2>1, UsesAreAimed
  <2>3. QED BY <2>2 DEF AreAimed
<1> DEFINE pa == PickedAt(Len(targets), A)  ps == PickedAt(Len(targets), S)  pr == PickedAt(Len(targets), R)
<1>4. /\ A \subseteq 1..Len(targets) /\ S \subseteq 1..Len(targets) /\ R \subseteq 1..Len(targets)
      /\ A \cap S = {} /\ (A \cup S) \cap R = {} /\ (A \cup S) \cup R = 1..Len(uses)
  BY <1>3 DEF WholeUses, SplitUses, ReservingUses, Splits
<1>5. uses = step.ingredientUses \o step.componentUses OBVIOUS
<1> HIDE DEF targets, uses, a, s, r, na, ns, nr, A, S, R, pa, ps, pr, products
<1>6. ListOf(a, IsPlanAmount) /\ NeedsAt(recipe, uses, na, pa)
  BY <1>1, <1>3, AmountsAreNeeded DEF ListOf, Every, na, pa, A
<1>7. ListOf(s, IsSplitAmount) /\ NeedsAt(recipe, uses, ns, ps)
  BY <1>1, <1>3, SplitsAreNeeded DEF ListOf, Every, ns, ps, S
<1>8. ListOf(r, IsReservedAmount) /\ NeedsAt(recipe, uses, nr, pr)
  BY <1>1, <1>3, ReservedAreNeeded DEF ListOf, Every, nr, pr, R
<1>9. OnceIn(pa, A) /\ OnceIn(ps, S) /\ OnceIn(pr, R)
  <2> DEFINE l == Len(targets)
  <2>1. l \in Nat /\ A \subseteq 1..l /\ S \subseteq 1..l /\ R \subseteq 1..l BY <1>3, <1>4
  <2>2. pa = PickedAt(l, A) /\ ps = PickedAt(l, S) /\ pr = PickedAt(l, R) BY DEF pa, ps, pr
  <2> HIDE DEF l
  <2>3. QED BY <2>1, <2>2, EnumeratedOnce, PlacesAreEnumerated
<1> DEFINE needs == na \o ns \o nr  q == pa \o ps \o pr
<1>10. NeedsAt(recipe, uses, needs, q) BY <1>6, <1>7, <1>8, NeedsJoin
<1>11. OnceIn(q, 1..Len(uses))
  <2>1. OnceIn(q, (A \cup S) \cup R) BY <1>4, <1>9, JoinedOnce
  <2>2. QED BY <1>4, <2>1
<1> HIDE DEF needs, q
<1>12. /\ Len(needs) = Len(uses)
       /\ \A i \in DOMAIN uses :
                Cardinality({k \in DOMAIN needs :
                    needs[k].amount.origin.id = uses[i].of /\ uses[i].usage \in needs[k].usages}) =
                Cardinality({j \in DOMAIN uses : uses[j].of = uses[i].of /\
                    (uses[j].usage = uses[i].usage
                     \/ {uses[j].usage, uses[i].usage} = {"use_now", "use_all"})})
       /\ \A k \in DOMAIN needs : \E i \in DOMAIN uses :
                /\ uses[i].of = needs[k].amount.origin.id /\ uses[i].usage \in needs[k].usages
                /\ TellsOf(recipe, uses[i], needs[k].amount.text)
  BY <1>3, <1>10, <1>11, NeedsAreUses DEF IsAimed
<1>13. Filled(step.id) /\ AreRefs(step.sourceRefs) /\ IsText(step.normalizedActionText)
  BY DEF IsInstructionStep
<1>14. IsOrigin(unit.origin) /\ unit.origin.id = step.id
  BY <1>1, <1>13, OriginIs DEF CanonicalElementKind
<1>15. UnitFollowsStep(recipe, unit, step)
  <2>1. UnitFollowsStep(recipe, unit, step) <=>
           /\ unit.origin.id = step.id /\ unit.actionText = step.normalizedActionText
           /\ Len(needs) = Len(uses)
           /\ \A i \in DOMAIN uses :
                Cardinality({k \in DOMAIN needs :
                    needs[k].amount.origin.id = uses[i].of /\ uses[i].usage \in needs[k].usages}) =
                Cardinality({j \in DOMAIN uses : uses[j].of = uses[i].of /\
                    (uses[j].usage = uses[i].usage
                     \/ {uses[j].usage, uses[i].usage} = {"use_now", "use_all"})})
           /\ \A k \in DOMAIN needs : \E i \in DOMAIN uses :
                /\ uses[i].of = needs[k].amount.origin.id /\ uses[i].usage \in needs[k].usages
                /\ TellsOf(recipe, uses[i], needs[k].amount.text)
    BY <1>5, <1>2 DEF UnitFollowsStep, CountOf, TellsOf, needs
  <2>2. QED BY <1>1, <1>12, <1>14, <2>1
<1>16. QED
  BY <1>1, <1>6, <1>7, <1>8, <1>13, <1>14, <1>15, CriticalIs, ProductsAreNamed DEF IsCookingUnit, a, s,
     r, ListOf, Every, Optional, Critical, products

-------------------------------------------------------------------------------
(* What is set up, fetched and started before the first unit.              *)

(* The plan's title, what is set up and what is fetched. *)
LEMMA TitleIsPlanned ==
    ASSUME NEW recipe, IsCanonicalRecipe(recipe)
    PROVE  IsPlanTitle(TitleOf(recipe))
<1>1. Filled(recipe.id) /\ IsRecipeTitle(recipe.title) BY DEF IsCanonicalRecipe
<1>2. CASE recipe.title.state = "from_source"
  <2>1. Filled(recipe.title.sourceText) /\ AreRefs(recipe.title.sourceRefs) BY <1>1, <1>2 DEF IsRecipeTitle
  <2> DEFINE origin == Origin("title", recipe.id, recipe.title.sourceRefs)
  <2>2. IsOrigin(origin) BY <1>1, <2>1, OriginIs DEF CanonicalElementKind
  <2>3. TitleOf(recipe) = [state |-> "from_source", text |-> recipe.title.sourceText, origin |-> origin]
    BY <1>2 DEF TitleOf
  <2> HIDE DEF origin
  <2>4. QED BY <2>1, <2>2, <2>3 DEF IsPlanTitle
<1>3. CASE recipe.title.state # "from_source" BY <1>3 DEF IsPlanTitle, TitleOf
<1>4. QED BY <1>2, <1>3

LEMMA EquipmentIsSetUp ==
    ASSUME NEW recipe, IsCanonicalRecipe(recipe),
           NEW t, t = [k \in DOMAIN recipe.equipment |->
                         [text |-> recipe.equipment[k].name,
                          origin |-> Origin("equipment", recipe.equipment[k].id, recipe.equipment[k].sourceRefs)]]
    PROVE  ListOf(t, IsSetUpItem)
<1> DEFINE e == recipe.equipment
<1>1. IsList(e) /\ \A k \in DOMAIN e : Filled(e[k].id) /\ IsText(e[k].name) /\ AreRefs(e[k].sourceRefs)
  BY DEF IsCanonicalRecipe, ListOf, Every, IsEquipment
<1>2. /\ t = [k \in DOMAIN e |-> t[k]] /\ DOMAIN t = DOMAIN e
      /\ \A k \in DOMAIN e : t[k].text = e[k].name /\ t[k].origin = Origin("equipment", e[k].id, e[k].sourceRefs)
  OBVIOUS
<1> HIDE DEF e
<1>3. \A k \in DOMAIN e : IsSetUpItem(t[k])
  <2> TAKE k \in DOMAIN e
  <2>1. IsOrigin(Origin("equipment", e[k].id, e[k].sourceRefs))
    BY <1>1, OriginIs DEF CanonicalElementKind
  <2>2. QED BY <1>1, <1>2, <2>1 DEF IsSetUpItem
<1>4. IsList(t) BY <1>1, <1>2, MappedIs
<1>5. QED BY <1>2, <1>3, <1>4 DEF ListOf, Every

(* What is fetched of one ingredient, and which are. *)
LEMMA IngredientIsFetched ==
    ASSUME NEW i, IsIngredient(i)
    PROVE  /\ IsFetchItem(FetchItem(i)) /\ FetchItem(i).text = i.name /\ FetchItem(i).origin.id = i.id
           /\ FetchItem(i).amount.text = AmountText(i.quantityExpression, i.unit)
<1> DEFINE origin == Origin("ingredient", i.id, i.sourceRefs)
           words == AmountText(i.quantityExpression, i.unit)
           measurable == IsMeasurable(i.quantityExpression)
           amount == [text |-> words, itemText |-> i.name, measurable |-> measurable, origin |-> origin]
<1>1. Filled(i.id) /\ IsText(i.name) /\ AreRefs(i.sourceRefs) BY DEF IsIngredient
<1>2. IsOrigin(origin) /\ origin.id = i.id BY <1>1, OriginIs DEF CanonicalElementKind
<1>3. IsWorded(words) /\ measurable \in BOOLEAN BY WordsOf DEF IsIngredient
<1>4. FetchItem(i) = [text |-> i.name, origin |-> origin, amount |-> amount] BY DEF FetchItem
<1> HIDE DEF origin, words, measurable
<1>5. IsPlanAmount(amount) BY <1>1, <1>2, <1>3 DEF IsPlanAmount
<1>6. amount.text = words OBVIOUS
<1> HIDE DEF amount
<1>7. QED BY <1>1, <1>2, <1>4, <1>5, <1>6 DEF IsFetchItem, words

PantryKept(recipe, suppress) ==
    {i \in DOMAIN Ingredients(recipe) : ~(suppress /\ IsAtHandBasic(Ingredients(recipe)[i]))}

(* The pantry is fetched, but for the basics where that is asked for.     *)
LEMMA PantryIsFetched ==
    ASSUME NEW recipe, IsCanonicalRecipe(recipe), NEW suppress \in BOOLEAN,
           NEW t, t = Picked(Ingredients(recipe), PantryKept(recipe, suppress)),
           NEW fetch, fetch = [k \in DOMAIN t |-> FetchItem(t[k])]
    PROVE  /\ ListOf(fetch, IsFetchItem)
           /\ [k \in DOMAIN fetch |-> fetch[k].origin.id] = [k \in DOMAIN t |-> t[k].id]
           /\ \A k \in DOMAIN fetch : \E i \in DOMAIN Ingredients(recipe) :
                  /\ Ingredients(recipe)[i].name = fetch[k].text
                  /\ AmountText(Ingredients(recipe)[i].quantityExpression, Ingredients(recipe)[i].unit) =
                         fetch[k].amount.text
<1> DEFINE pantry == Ingredients(recipe)
<1>1. IsList(pantry) /\ \A i \in DOMAIN pantry : IsIngredient(pantry[i])
  BY IngredientsAreIngredients DEF ListOf, Every
<1> DEFINE P == PantryKept(recipe, suppress)
<1>2. t = Picked(pantry, P) OBVIOUS
<1> HIDE DEF P
<1> HIDE DEF pantry
<1>3. IsList(t) /\ \A k \in DOMAIN t : \E i \in DOMAIN pantry : t[k] = pantry[i]
  BY <1>1, <1>2, PickedElements
<1>4. /\ fetch = [k \in DOMAIN t |-> fetch[k]] /\ DOMAIN fetch = DOMAIN t
      /\ \A k \in DOMAIN t : fetch[k] = FetchItem(t[k])
  OBVIOUS
<1>5. IsList(fetch) BY <1>3, <1>4, MappedIs
<1>6. ASSUME NEW k \in DOMAIN t
      PROVE  /\ IsFetchItem(fetch[k]) /\ fetch[k].text = t[k].name /\ fetch[k].origin.id = t[k].id
             /\ fetch[k].amount.text = AmountText(t[k].quantityExpression, t[k].unit)
  BY <1>1, <1>3, <1>4, IngredientIsFetched
<1>7. ASSUME NEW k \in DOMAIN fetch
      PROVE  \E i \in DOMAIN pantry :
                  /\ pantry[i].name = fetch[k].text
                  /\ AmountText(pantry[i].quantityExpression, pantry[i].unit) = fetch[k].amount.text
  BY <1>3, <1>4, <1>6
<1>8. QED BY <1>4, <1>5, <1>6, <1>7 DEF pantry, ListOf, Every

(* A cue as it is started now, and which of a step's are. *)
CueItem(steps, n, c) ==
    [text |-> steps[n].prerequisiteCues[c].sourceText, neededAtUnit |-> n,
     origin |-> OriginInStep("stepPrerequisiteCue", steps[n], c, steps[n].prerequisiteCues[c].sourceRefs)]
AdmittedAt(steps, n) ==
    {c \in DOMAIN steps[n].prerequisiteCues :
        n >= 2 /\ ~ProducedByItsOwnStep(steps[n], steps[n].prerequisiteCues[c])}
(* now starts the cues at the given places, each once and in order. *)
StartedAt(steps, now, place) ==
    /\ \A k \in 1..Len(now) : /\ place[k][1] \in DOMAIN steps
                             /\ place[k][2] \in AdmittedAt(steps, place[k][1])
                             /\ now[k] = CueItem(steps, place[k][1], place[k][2])
    /\ \A n \in DOMAIN steps : \A c \in AdmittedAt(steps, n) :
           \E k \in 1..Len(now) : place[k][1] = n /\ place[k][2] = c
    /\ \A j, k \in 1..Len(now) : j < k =>
           \/ place[j][1] < place[k][1]
           \/ place[j][1] = place[k][1] /\ place[j][2] < place[k][2]

(* What is started now: the cues of the later steps that no step does itself, *)
(* each once, in the order they are needed.                                   *)
LEMMA CuesAreStarted ==
    ASSUME NEW steps, IsList(steps), \A n \in DOMAIN steps : IsInstructionStep(steps[n]),
           NEW now, now = StartNowOf(steps)
    PROVE  /\ IsList(now) /\ Len(now) \in Nat
           /\ \E place : StartedAt(steps, now, place)
<1> DEFINE Cues(n) == [c \in DOMAIN steps[n].prerequisiteCues |-> c]
           Chosen(n) == {i \in DOMAIN Cues(n) :
               n >= 2 /\ ~ProducedByItsOwnStep(steps[n], steps[n].prerequisiteCues[Cues(n)[i]])}
           Admitted(n) == Picked(Cues(n), Chosen(n))
           ss == [n \in DOMAIN steps |-> [k \in DOMAIN Admitted(n) |-> CueItem(steps, n, Admitted(n)[k])]]
<1>1. now = FlattenSeq(ss) BY DEF StartNowOf, Each, Filtered, CueItem
<1>2. DOMAIN steps = 1..Len(steps) /\ Len(steps) \in Nat BY ListFacts
<1>3. ASSUME NEW n \in DOMAIN steps
      PROVE  /\ Enumerates(Admitted(n), AdmittedAt(steps, n)) /\ DOMAIN Admitted(n) = 1..Len(Admitted(n))
             /\ Len(Admitted(n)) \in Nat /\ AdmittedAt(steps, n) \subseteq Nat
  <2> DEFINE cues == steps[n].prerequisiteCues  l == Len(cues)
  <2>1. IsList(cues) BY DEF IsInstructionStep, ListOf
  <2>2. DOMAIN cues = 1..l /\ l \in Nat BY <2>1, ListFacts
  <2>3. AdmittedAt(steps, n) \subseteq 1..l BY <2>2 DEF AdmittedAt
  <2>4. Admitted(n) = PickedAt(l, AdmittedAt(steps, n)) BY <2>2 DEF PickedAt, AdmittedAt
  <2> HIDE DEF cues, l, Cues, Chosen, Admitted
  <2>5. QED BY <2>2, <2>3, <2>4, ListFacts, PlacesAreEnumerated DEF Enumerates
<1> HIDE DEF Cues, Chosen, Admitted
<1>4. /\ ss = [n \in DOMAIN steps |-> ss[n]] /\ DOMAIN ss = DOMAIN steps
      /\ \A n \in DOMAIN steps : /\ ss[n] = [k \in DOMAIN Admitted(n) |-> ss[n][k]]
                                 /\ DOMAIN ss[n] = DOMAIN Admitted(n)
                                 /\ \A k \in DOMAIN Admitted(n) : ss[n][k] = CueItem(steps, n, Admitted(n)[k])
  OBVIOUS
<1> HIDE DEF ss
<1>5. ListsIn(ss) BY <1>3, <1>4, MappedIs DEF Enumerates, ListsIn
<1> DEFINE at == PlacesOf(ss)
<1>6. IsList(now) /\ Len(at) \in Nat /\ JoinedAs(now, at, ss, Len(ss)) BY <1>1, <1>5, FlatIs
<1> HIDE DEF at
<1>7. Len(now) = Len(at) BY <1>6 DEF JoinedAs
<1>8. /\ DOMAIN steps = 1..Len(ss)
      /\ \A n \in DOMAIN steps : 1..Len(ss[n]) = 1..Len(Admitted(n)) /\ DOMAIN ss[n] = 1..Len(ss[n])
  BY <1>3, <1>4, <1>5, ListFacts DEF ListsIn
<1> DEFINE place == [k \in 1..Len(now) |-> <<at[k][1], Admitted(at[k][1])[at[k][2]]>>]
<1>9. \A k \in 1..Len(now) : place[k][1] = at[k][1] /\ place[k][2] = Admitted(at[k][1])[at[k][2]] OBVIOUS
<1> HIDE DEF place
<1>10. ASSUME NEW k \in 1..Len(now)
       PROVE  /\ place[k][1] \in DOMAIN steps
              /\ place[k][2] \in AdmittedAt(steps, place[k][1])
              /\ now[k] = CueItem(steps, place[k][1], place[k][2])
  <2> DEFINE n == at[k][1]  j == at[k][2]
  <2>1. n \in DOMAIN steps /\ j \in 1..Len(ss[n]) /\ now[k] = ss[n][j]
    BY <1>6, <1>7, <1>8 DEF JoinedAs
  <2>2. j \in 1..Len(Admitted(n)) BY <1>8, <2>1
  <2>3. QED BY <1>3, <1>4, <1>9, <2>1, <2>2 DEF Enumerates
<1>11. ASSUME NEW n \in DOMAIN steps, NEW c \in AdmittedAt(steps, n)
       PROVE  \E k \in 1..Len(now) : place[k][1] = n /\ place[k][2] = c
  <2>1. PICK j \in 1..Len(Admitted(n)) : Admitted(n)[j] = c BY <1>3 DEF Enumerates
  <2>2. PICK k \in 1..Len(at) : at[k] = <<n, j>> BY <1>6, <1>8 DEF JoinedAs
  <2>3. QED BY <1>7, <1>9, <2>1, <2>2
<1>12. ASSUME NEW j \in 1..Len(now), NEW k \in 1..Len(now), j < k
       PROVE  \/ place[j][1] < place[k][1]
              \/ place[j][1] = place[k][1] /\ place[j][2] < place[k][2]
  <2>1. CASE at[j][1] < at[k][1] BY <1>9, <2>1
  <2>2. CASE at[j][1] = at[k][1] /\ at[j][2] < at[k][2]
    <3> DEFINE n == at[j][1]
    <3>1. n \in DOMAIN steps /\ at[j][2] \in 1..Len(Admitted(n)) /\ at[k][2] \in 1..Len(Admitted(n))
      BY <1>6, <1>7, <1>8, <2>2 DEF JoinedAs
    <3>2. Admitted(n)[at[j][2]] < Admitted(n)[at[k][2]] BY <1>3, <2>2, <3>1 DEF Enumerates
    <3>3. QED BY <1>9, <2>2, <3>2
  <2>3. QED BY <1>6, <1>7, <1>12, <2>1, <2>2 DEF JoinedAs
<1>13. QED BY <1>6, <1>7, <1>10, <1>11, <1>12 DEF StartedAt

(* What is started is a prerequisite item, in order of the units. *)
LEMMA CueItemIs ==
    ASSUME NEW steps, NEW n \in DOMAIN steps, IsInstructionStep(steps[n]), DOMAIN steps \subseteq Nat,
           NEW c \in AdmittedAt(steps, n)
    PROVE  /\ IsPrerequisiteItem(CueItem(steps, n, c))
           /\ CueItem(steps, n, c).neededAtUnit = n /\ CueItem(steps, n, c).origin.index = <<c>>
           /\ CueItem(steps, n, c).text = steps[n].prerequisiteCues[c].sourceText
<1> DEFINE step == steps[n]
           cue == step.prerequisiteCues[c]
           origin == OriginInStep("stepPrerequisiteCue", step, c, cue.sourceRefs)
<1>1. n >= 2 /\ c \in DOMAIN step.prerequisiteCues BY DEF AdmittedAt
<1>2. /\ Filled(step.id) /\ IsList(step.prerequisiteCues)
      /\ \A i \in DOMAIN step.prerequisiteCues : IsCue(step.prerequisiteCues[i])
  BY DEF IsInstructionStep, ListOf, Every
<1>3. CueItem(steps, n, c) = [text |-> cue.sourceText, neededAtUnit |-> n, origin |-> origin] BY DEF CueItem
<1>4. origin.index = <<c>> BY DEF OriginInStep
<1> HIDE DEF step
<1>5. c \in Nat BY <1>1, <1>2, ListFacts
<1>6. IsCue(cue) BY <1>1, <1>2
<1> HIDE DEF cue
<1>7. IsText(cue.sourceText) /\ AreRefs(cue.sourceRefs) BY <1>6 DEF IsCue
<1>8. IsOrigin(origin) BY <1>2, <1>5, <1>7, OriginInStepIs DEF CanonicalElementKind
<1> HIDE DEF origin
<1>9. QED BY <1>1, <1>3, <1>4, <1>7, <1>8 DEF step, cue, IsPrerequisiteItem

LEMMA StartsInOrder ==
    ASSUME NEW steps, IsList(steps), \A n \in DOMAIN steps : IsInstructionStep(steps[n]),
           NEW now, now = StartNowOf(steps)
    PROVE  /\ ListOf(now, IsPrerequisiteItem)
           /\ \A k \in 1..Len(now) - 1 : now[k].neededAtUnit <= now[k + 1].neededAtUnit
<1>1. IsList(now) /\ Len(now) \in Nat BY CuesAreStarted
<1>2. PICK place : StartedAt(steps, now, place) BY CuesAreStarted
<1>3. DOMAIN steps \subseteq Nat /\ DOMAIN now = 1..Len(now) BY <1>1, ListFacts
<1>4. ASSUME NEW k \in 1..Len(now)
      PROVE  IsPrerequisiteItem(now[k]) /\ now[k].neededAtUnit = place[k][1] /\ place[k][1] \in Nat
  <2>1. /\ place[k][1] \in DOMAIN steps /\ place[k][2] \in AdmittedAt(steps, place[k][1])
        /\ now[k] = CueItem(steps, place[k][1], place[k][2])
    BY <1>2 DEF StartedAt
  <2>2. QED BY <1>3, <2>1, CueItemIs
<1>5. ASSUME NEW k \in 1..Len(now) - 1 PROVE now[k].neededAtUnit <= now[k + 1].neededAtUnit
  <2>1. k \in 1..Len(now) /\ k + 1 \in 1..Len(now) /\ k < k + 1 BY <1>1
  <2>2. place[k][1] < place[k + 1][1] \/ place[k][1] = place[k + 1][1] BY <1>2, <2>1 DEF StartedAt
  <2>3. QED BY <1>4, <2>1, <2>2
<1>6. QED BY <1>1, <1>3, <1>4, <1>5 DEF ListOf, Every

(* What is started for a cue is one thing or none. *)
StartedFor(now, n, c, text) ==
    {k \in DOMAIN now : now[k].neededAtUnit = n /\ now[k].origin.index = <<c>> /\ now[k].text = text}

LEMMA CueIsStartedOnce ==
    ASSUME NEW steps, IsList(steps), \A n \in DOMAIN steps : IsInstructionStep(steps[n]),
           NEW now, now = StartNowOf(steps),
           NEW n \in DOMAIN steps, NEW c \in DOMAIN steps[n].prerequisiteCues,
           NEW A, A = StartedFor(now, n, c, steps[n].prerequisiteCues[c].sourceText)
    PROVE  /\ c \in AdmittedAt(steps, n) => Cardinality(A) = 1
           /\ c \notin AdmittedAt(steps, n) => Cardinality(A) = 0
<1>1. IsList(now) /\ Len(now) \in Nat BY CuesAreStarted
<1>2. PICK place : StartedAt(steps, now, place) BY CuesAreStarted
<1>3. DOMAIN steps \subseteq Nat /\ DOMAIN now = 1..Len(now) BY <1>1, ListFacts
<1>4. ASSUME NEW k \in 1..Len(now)
      PROVE  /\ now[k].neededAtUnit = place[k][1] /\ now[k].origin.index = <<place[k][2]>>
             /\ now[k].text = steps[place[k][1]].prerequisiteCues[place[k][2]].sourceText
             /\ place[k][1] \in Nat /\ place[k][2] \in AdmittedAt(steps, place[k][1])
  <2>1. /\ place[k][1] \in DOMAIN steps /\ place[k][2] \in AdmittedAt(steps, place[k][1])
        /\ now[k] = CueItem(steps, place[k][1], place[k][2])
    BY <1>2 DEF StartedAt
  <2>2. IsInstructionStep(steps[place[k][1]]) BY <2>1
  <2>3. CueItem(steps, place[k][1], place[k][2]).neededAtUnit = place[k][1] BY <1>3, <2>1, <2>2, CueItemIs
  <2>4. CueItem(steps, place[k][1], place[k][2]).origin.index = <<place[k][2]>> BY <1>3, <2>1, <2>2, CueItemIs
  <2>5. CueItem(steps, place[k][1], place[k][2]).text =
            steps[place[k][1]].prerequisiteCues[place[k][2]].sourceText
    BY <1>3, <2>1, <2>2, CueItemIs
  <2>6. QED BY <1>3, <2>1, <2>3, <2>4, <2>5
<1>5. \A k : k \in A <=> k \in 1..Len(now) /\ place[k][1] = n /\ place[k][2] = c
  <2> TAKE k
  <2>1. CASE k \in 1..Len(now)
    <3>1. <<place[k][2]>> = <<c>> <=> place[k][2] = c OBVIOUS
    <3>2. QED BY <1>3, <1>4, <2>1, <3>1 DEF StartedFor
  <2>2. CASE k \notin 1..Len(now) BY <1>3, <2>2 DEF StartedFor
  <2>3. QED BY <2>1, <2>2
<1>6. ASSUME c \notin AdmittedAt(steps, n) PROVE Cardinality(A) = 0
  <2>1. \A k : k \notin A BY <1>4, <1>5, <1>6
  <2>2. A = {} BY <2>1
  <2>3. QED BY <2>2, FS_EmptySet
<1>7. ASSUME c \in AdmittedAt(steps, n) PROVE Cardinality(A) = 1
  <2>1. PICK k \in 1..Len(now) : place[k][1] = n /\ place[k][2] = c BY <1>2, <1>7 DEF StartedAt
  <2>2. c \in Nat /\ n \in Nat
    <3>1. IsList(steps[n].prerequisiteCues) BY DEF IsInstructionStep, ListOf
    <3>2. QED BY <1>3, <3>1, ListFacts
  <2>3. \A j \in 1..Len(now) : place[j][1] = n /\ place[j][2] = c => j = k
    <3> TAKE j \in 1..Len(now)
    <3> HAVE place[j][1] = n /\ place[j][2] = c
    <3>1. ASSUME j < k PROVE FALSE
      <4>1. place[j][1] < place[k][1] \/ place[j][2] < place[k][2] BY <1>2, <3>1 DEF StartedAt
      <4>2. QED BY <2>1, <2>2, <4>1
    <3>2. ASSUME k < j PROVE FALSE
      <4>1. place[k][1] < place[j][1] \/ place[k][2] < place[j][2] BY <1>2, <3>2 DEF StartedAt
      <4>2. QED BY <2>1, <2>2, <4>1
    <3>3. QED BY <1>1, <3>1, <3>2
  <2>4. A = {k} BY <1>5, <2>1, <2>3
  <2>5. QED BY <2>4, FS_Singleton
<1>8. QED BY <1>6, <1>7

(* Each cue is placed. *)
LEMMA CuesArePlaced ==
    ASSUME NEW steps, IsList(steps), \A n \in DOMAIN steps : IsInstructionStep(steps[n]),
           NEW plan, plan.startNow = StartNowOf(steps),
           NEW n \in DOMAIN steps, NEW c \in DOMAIN steps[n].prerequisiteCues
    PROVE  CueIsPlaced(plan, steps, n, c)
<1> DEFINE now == plan.startNow
           text == steps[n].prerequisiteCues[c].sourceText
           A == StartedFor(now, n, c, text)
           words == LongWords[text]
           said == words # {} /\ words \subseteq Carries[steps[n].normalizedActionText]
<1>1. CueIsPlaced(plan, steps, n, c) <=> Cardinality(A) = IF n = 1 \/ said THEN 0 ELSE 1
  BY DEF CueIsPlaced, CountOf, StartedFor
<1>2. n \in Nat /\ n >= 1 BY ListFacts
<1>3. c \in AdmittedAt(steps, n) <=> ~(n = 1 \/ said) BY <1>2 DEF AdmittedAt, ProducedByItsOwnStep
<1>4. now = StartNowOf(steps) /\ A = StartedFor(now, n, c, steps[n].prerequisiteCues[c].sourceText)
  OBVIOUS
<1> HIDE DEF A, said, now
<1>5. QED BY <1>1, <1>3, <1>4, CueIsStartedOnce

-------------------------------------------------------------------------------
(* A plan is the recipe.                                                   *)

(* A use leads nowhere exactly where its step's uses are not all named. *)
LEMMA DanglingIsUnnamed ==
    ASSUME NEW recipe, IsCanonicalRecipe(recipe), NEW step
    PROVE  UsesAreNamed(recipe, step) <=>
             ~(\/ \E i \in DOMAIN step.ingredientUses :
                      step.ingredientUses[i].of \notin IdsIn(Ingredients(recipe))
               \/ \E i \in DOMAIN step.componentUses :
                      step.componentUses[i].of \notin IdsIn(recipe.preparedComponents))
BY DEF UsesAreNamed, Every, IsNamed, IdsIn

(* The parts of a plan. *)
SetUpFor(recipe) ==
    [k \in DOMAIN recipe.equipment |->
        [text |-> recipe.equipment[k].name,
         origin |-> Origin("equipment", recipe.equipment[k].id, recipe.equipment[k].sourceRefs)]]
FetchedFor(recipe, suppress) ==
    Each(Filtered(Ingredients(recipe), LAMBDA i : ~(suppress /\ IsAtHandBasic(i))), FetchItem)
UnitsFor(recipe) ==
    LET ordered == StepsWithSections(recipe)
    IN  [n \in DOMAIN ordered |-> UnitOf(recipe, n, ordered[n].step, ordered[n].sectionTitle)]
IsTraceable(recipe) == \A n \in DOMAIN Steps(recipe) : UsesAreNamed(recipe, Steps(recipe)[n])

(* What DeriveCookingPlan gives. *)
LEMMA PlanOf ==
    ASSUME NEW recipe, NEW suppress, NEW plan, plan = DeriveCookingPlan(recipe, suppress)
    PROVE  /\ plan = Untraceable \/ IsTraceable(recipe)
           /\ IsTraceable(recipe) =>
                /\ plan # Untraceable
                /\ plan.recipeId = recipe.id /\ plan.title = TitleOf(recipe)
                /\ plan.setUp = SetUpFor(recipe)
                /\ plan.startNow = StartNowOf(Steps(recipe))
                /\ plan.fetchPrepare = FetchedFor(recipe, suppress)
                /\ plan.units = UnitsFor(recipe)
                /\ plan.derivation = [quantityPlacement |-> "separate_block",
                                      assumedAtHandSuppressed |-> suppress]
<1> DEFINE setUp == SetUpFor(recipe)
           fetch == FetchedFor(recipe, suppress)
           units == UnitsFor(recipe)
           now == StartNowOf(Steps(recipe))
           derivation == [quantityPlacement |-> "separate_block", assumedAtHandSuppressed |-> suppress]
           whole == [recipeId |-> recipe.id, title |-> TitleOf(recipe), setUp |-> setUp, startNow |-> now,
                     fetchPrepare |-> fetch, units |-> units, derivation |-> derivation]
<1> HIDE DEF setUp, fetch, units, now, derivation
<1>1. "recipeId" \in DOMAIN whole OBVIOUS
<1>2. whole # Untraceable
  <2> HIDE DEF whole
  <2>1. QED BY <1>1 DEF Untraceable
<1>3. QED
  BY <1>2 DEF setUp, fetch, units, now, derivation, DeriveCookingPlan, Each, Every, IsTraceable,
     SetUpFor, FetchedFor, UnitsFor

(* The plan's units are the recipe's steps. *)
LEMMA UnitsAreSteps ==
    ASSUME NEW recipe, IsCanonicalRecipe(recipe), NEW steps, steps = Steps(recipe),
           IsTraceable(recipe), NEW units, units = UnitsFor(recipe)
    PROVE  /\ ListOf(units, IsCookingUnit) /\ Len(units) = Len(steps)
           /\ \A n \in DOMAIN steps : units[n].n = n /\ UnitFollowsStep(recipe, units[n], steps[n])
<1> DEFINE ordered == StepsWithSections(recipe)
<1>1. /\ IsList(ordered) /\ DOMAIN ordered = DOMAIN steps /\ Len(ordered) = Len(steps)
      /\ \A n \in DOMAIN steps : /\ ordered[n].step = steps[n]
                                 /\ Optional(ordered[n].sectionTitle, IsText)
  BY SectionsKeepSteps
<1>2. /\ DOMAIN units = DOMAIN steps /\ units = [n \in DOMAIN ordered |-> units[n]]
      /\ \A n \in DOMAIN steps : units[n] = UnitOf(recipe, n, ordered[n].step, ordered[n].sectionTitle)
  BY <1>1 DEF UnitsFor
<1> HIDE DEF ordered
<1>3. ASSUME NEW n \in DOMAIN steps
      PROVE  units[n].n = n /\ UnitFollowsStep(recipe, units[n], steps[n]) /\ IsCookingUnit(units[n])
  BY <1>1, <1>2, UnitFollows, StepsAreSteps DEF IsTraceable, ListOf, Every
<1>4. QED BY <1>1, <1>2, <1>3, MappedIs DEF ListOf, Every

(* What is fetched is the pantry. *)
PantryIds(recipe, suppress) ==
    Each(Filtered(Ingredients(recipe), LAMBDA i : Given(i.quantityExpression) \/ ~suppress), LAMBDA i : i.id)

LEMMA FetchIsThePantry ==
    ASSUME NEW recipe, IsCanonicalRecipe(recipe), NEW suppress \in BOOLEAN,
           NEW pantry, pantry = Ingredients(recipe),
           NEW fetch, fetch = FetchedFor(recipe, suppress)
    PROVE  /\ ListOf(fetch, IsFetchItem)
           /\ [k \in DOMAIN fetch |-> fetch[k].origin.id] = PantryIds(recipe, suppress)
           /\ \A k \in DOMAIN fetch : \E i \in DOMAIN pantry :
                  /\ pantry[i].name = fetch[k].text
                  /\ AmountText(pantry[i].quantityExpression, pantry[i].unit) = fetch[k].amount.text
<1> DEFINE P == PantryKept(recipe, suppress)
           Q == {i \in DOMAIN pantry : Given(pantry[i].quantityExpression) \/ ~suppress}
           t == Picked(pantry, P)
<1>1. P = Q BY DEF IsAtHandBasic, PantryKept
<1>2. Filtered(pantry, LAMBDA i : ~(suppress /\ IsAtHandBasic(i))) = t BY DEF Filtered, PantryKept
<1>3. Filtered(pantry, LAMBDA i : Given(i.quantityExpression) \/ ~suppress) = Picked(pantry, Q) BY DEF Filtered
<1>4. t = Picked(Ingredients(recipe), PantryKept(recipe, suppress)) OBVIOUS
<1> HIDE DEF P, Q
<1>5. Picked(pantry, Q) = t BY <1>1
<1> HIDE DEF t
<1>6. fetch = [k \in DOMAIN t |-> FetchItem(t[k])] BY <1>2 DEF Each, FetchedFor
<1>7. /\ ListOf(fetch, IsFetchItem)
      /\ [k \in DOMAIN fetch |-> fetch[k].origin.id] = [k \in DOMAIN t |-> t[k].id]
      /\ \A k \in DOMAIN fetch : \E i \in DOMAIN Ingredients(recipe) :
             /\ Ingredients(recipe)[i].name = fetch[k].text
             /\ AmountText(Ingredients(recipe)[i].quantityExpression, Ingredients(recipe)[i].unit) =
                    fetch[k].amount.text
  BY <1>4, <1>6, PantryIsFetched
<1>8. QED BY <1>3, <1>5, <1>7 DEF Each, PantryIds

(* The Cooking Plan of any recipe is the recipe again (derive.ts): a unit  *)
(* for each step in order, each use told once and in its kind, each cue    *)
(* placed, the pantry fetched; and none exactly where a use leads nowhere. *)
THEOREM PlanFollows == Spec => []PlanIsTheRecipe
<1>1. ASSUME DocumentsInv PROVE PlanIsTheRecipe
  <2> DEFINE recipe == subject.recipe
             plan == result
             steps == Steps(recipe)
             pantry == Ingredients(recipe)
             Dangles(step) ==
                 \/ \E i \in DOMAIN step.ingredientUses : step.ingredientUses[i].of \notin IdsIn(pantry)
                 \/ \E i \in DOMAIN step.componentUses :
                        step.componentUses[i].of \notin IdsIn(recipe.preparedComponents)
             suppress == subject.suppress
  <2> SUFFICES ASSUME stage = "planned"
      PROVE /\ (plan = Untraceable) <=> \E n \in DOMAIN steps : Dangles(steps[n])
            /\ plan # Untraceable =>
               /\ IsCookingPlan(plan)
               /\ Len(plan.units) = Len(steps)
               /\ \A n \in DOMAIN steps :
                      plan.units[n].n = n /\ UnitFollowsStep(recipe, plan.units[n], steps[n])
               /\ \A n \in DOMAIN steps : \A c \in DOMAIN steps[n].prerequisiteCues :
                      CueIsPlaced(plan, steps, n, c)
               /\ \A k \in 1..Len(plan.startNow) - 1 :
                      plan.startNow[k].neededAtUnit <= plan.startNow[k + 1].neededAtUnit
               /\ Each(plan.fetchPrepare, LAMBDA f : f.origin.id) =
                      Each(Filtered(pantry, LAMBDA i : Given(i.quantityExpression) \/ ~suppress),
                           LAMBDA i : i.id)
               /\ \A k \in DOMAIN plan.fetchPrepare : \E i \in DOMAIN pantry :
                      /\ pantry[i].name = plan.fetchPrepare[k].text
                      /\ AmountText(pantry[i].quantityExpression, pantry[i].unit) =
                             plan.fetchPrepare[k].amount.text
    BY DEF PlanIsTheRecipe
  <2>1. IsCanonicalRecipe(recipe) /\ suppress \in BOOLEAN /\ plan = DeriveCookingPlan(recipe, suppress)
    BY <1>1, SubjectsAssumption DEF DocumentsInv
  <2>2. \A n \in DOMAIN steps : UsesAreNamed(recipe, steps[n]) <=> ~Dangles(steps[n])
    BY <2>1, DanglingIsUnnamed
  <2>3. steps = Steps(recipe) /\ pantry = Ingredients(recipe) OBVIOUS
  <2> HIDE DEF recipe, suppress, plan, Dangles, steps, pantry
  <2>4. /\ plan = Untraceable \/ IsTraceable(recipe)
        /\ IsTraceable(recipe) =>
             /\ plan # Untraceable
             /\ plan.recipeId = recipe.id /\ plan.title = TitleOf(recipe)
             /\ plan.setUp = SetUpFor(recipe) /\ plan.startNow = StartNowOf(Steps(recipe))
             /\ plan.fetchPrepare = FetchedFor(recipe, suppress) /\ plan.units = UnitsFor(recipe)
             /\ plan.derivation = [quantityPlacement |-> "separate_block",
                                   assumedAtHandSuppressed |-> suppress]
    BY <2>1, PlanOf
  <2>5. IsList(steps) /\ \A n \in DOMAIN steps : IsInstructionStep(steps[n])
    BY <2>1, <2>3, StepsAreSteps DEF ListOf, Every
  <2> SUFFICES ASSUME plan # Untraceable
      PROVE    /\ IsCookingPlan(plan)
               /\ Len(plan.units) = Len(steps)
               /\ \A n \in DOMAIN steps :
                      plan.units[n].n = n /\ UnitFollowsStep(recipe, plan.units[n], steps[n])
               /\ \A n \in DOMAIN steps : \A c \in DOMAIN steps[n].prerequisiteCues :
                      CueIsPlaced(plan, steps, n, c)
               /\ \A k \in 1..Len(plan.startNow) - 1 :
                      plan.startNow[k].neededAtUnit <= plan.startNow[k + 1].neededAtUnit
               /\ Each(plan.fetchPrepare, LAMBDA f : f.origin.id) =
                      Each(Filtered(pantry, LAMBDA i : Given(i.quantityExpression) \/ ~suppress),
                           LAMBDA i : i.id)
               /\ \A k \in DOMAIN plan.fetchPrepare : \E i \in DOMAIN pantry :
                      /\ pantry[i].name = plan.fetchPrepare[k].text
                      /\ AmountText(pantry[i].quantityExpression, pantry[i].unit) =
                             plan.fetchPrepare[k].amount.text BY <2>2, <2>3, <2>4 DEF IsTraceable
  <2>6. IsTraceable(recipe) BY <2>4
  <2>7. /\ plan.recipeId = recipe.id /\ plan.title = TitleOf(recipe)
        /\ plan.setUp = SetUpFor(recipe) /\ plan.startNow = StartNowOf(steps)
        /\ plan.fetchPrepare = FetchedFor(recipe, suppress) /\ plan.units = UnitsFor(recipe)
        /\ plan.derivation = [quantityPlacement |-> "separate_block", assumedAtHandSuppressed |-> suppress]
    BY <2>3, <2>4, <2>6
  <2>8. /\ ListOf(plan.fetchPrepare, IsFetchItem)
         /\ [k \in DOMAIN plan.fetchPrepare |-> plan.fetchPrepare[k].origin.id] = PantryIds(recipe, suppress)
         /\ \A k \in DOMAIN plan.fetchPrepare : \E i \in DOMAIN pantry :
                /\ pantry[i].name = plan.fetchPrepare[k].text
                /\ AmountText(pantry[i].quantityExpression, pantry[i].unit) =
                       plan.fetchPrepare[k].amount.text
    BY <2>1, <2>3, <2>7, FetchIsThePantry
  <2>9. /\ ListOf(plan.units, IsCookingUnit) /\ Len(plan.units) = Len(steps)
         /\ \A n \in DOMAIN steps : plan.units[n].n = n /\ UnitFollowsStep(recipe, plan.units[n], steps[n])
    BY <2>1, <2>3, <2>6, <2>7, UnitsAreSteps
  <2>10. IsPlanDerivation(plan.derivation) BY <2>1, <2>7 DEF IsPlanDerivation
  <2>11. IsCookingPlan(plan)
    BY <2>1, <2>5, <2>7, <2>8, <2>9, <2>10, TitleIsPlanned, EquipmentIsSetUp, StartsInOrder DEF
       IsCookingPlan, IsCanonicalRecipe, SetUpFor
  <2>12. QED BY <2>3, <2>5, <2>7, <2>8, <2>9, <2>11, StartsInOrder, CuesArePlaced DEF Each, PantryIds
<1>2. QED BY <1>1, DocumentsAreInv, PTL

-------------------------------------------------------------------------------
(* What is published (schema-org-mapping.ts): times, and what is left out. *)

(* A unit that is known has one of four lengths. *)
LEMMA UnitsHaveSeconds ==
    ASSUME NEW u \in DOMAIN SecondsPerUnit
    PROVE  SecondsPerUnit[u] \in {1, 60, 3600, 86400}
<1> DEFINE second == {"s", "sec", "secs", "second", "seconds", "sek", "sekunde", "sekunden"}
           minute == {"m", "min", "mins", "minute", "minutes", "minuten"}
           hour == {"h", "hr", "hrs", "hour", "hours", "std", "stunde", "stunden"}
           day == {"d", "day", "days", "tag", "tage"}
<1> HIDE DEF second, minute, hour, day
<1>1. QED BY DEF SecondsPerUnit

(* A duration that converts is exact, above none and wholly in seconds. *)
LEMMA DurationsConvert ==
    ASSUME NEW d, IsDurationExpression(d), NEW iso, iso = ToIsoDuration(d)
    PROVE  \/ iso \in {Omit("non_exact_value"), Omit("missing_unit"), Omit("unrecognized_unit"),
                       Omit("not_representable")}
           \/ /\ "omit" \notin DOMAIN iso
              /\ d.kind = "exact" /\ d.value[1] > 0
              /\ TenthsOf(iso) = d.value[1] * SecondsPerUnit[d.unit[1]]
              /\ iso.minutes < 60 /\ iso.seconds < 60
<1> DEFINE spu == SecondsPerUnit[d.unit[1]]
           v == d.value[1]
           tenths == v * spu
           seconds == tenths \div 10
           shown == [hours |-> seconds \div 3600, minutes |-> (seconds % 3600) \div 60, seconds |-> seconds % 60]
<1>1. SUFFICES ASSUME iso \notin {Omit("non_exact_value"), Omit("missing_unit"), Omit("unrecognized_unit"),
                                  Omit("not_representable")}
      PROVE  /\ "omit" \notin DOMAIN iso
             /\ d.kind = "exact" /\ v > 0
             /\ TenthsOf(iso) = tenths
             /\ iso.minutes < 60 /\ iso.seconds < 60
  OBVIOUS
<1>2. /\ d.kind = "exact" /\ Given(d.value) /\ d.unit[1] \in DOMAIN SecondsPerUnit
      /\ tenths % 10 = 0 /\ ~(seconds <= 0) /\ iso = shown
  <2>1. iso = IF d.kind # "exact" \/ ~Given(d.value) THEN Omit("non_exact_value")
              ELSE IF OneOf(d.unit, "") = "" THEN Omit("missing_unit")
              ELSE IF d.unit[1] \notin DOMAIN SecondsPerUnit THEN Omit("unrecognized_unit")
              ELSE IF tenths % 10 # 0 \/ seconds <= 0 THEN Omit("not_representable") ELSE shown
    BY DEF ToIsoDuration
  <2> HIDE DEF tenths, seconds, shown, spu
  <2>2. QED BY <1>1, <2>1
<1>3. v \in Int BY <1>2, ListFacts DEF IsDurationExpression, Optional, ListOf, Every, Given
<1>4. spu \in {1, 60, 3600, 86400} BY <1>2, UnitsHaveSeconds
<1> HIDE DEF v, spu
<1>5. tenths \in Int /\ seconds \in Int BY <1>3, <1>4
<1>6. tenths = 10 * seconds
  <2> HIDE DEF tenths
  <2> QED BY <1>2, <1>5
<1>7. tenths > 0
  <2> HIDE DEF tenths, seconds
  <2> QED BY <1>2, <1>5, <1>6
<1>8. v > 0 BY <1>3, <1>4, <1>7
<1> HIDE DEF tenths, seconds
<1> DEFINE hours == seconds \div 3600  rest == seconds % 3600
           minutes == rest \div 60  left == rest % 60
<1>9. /\ hours \in Int /\ rest \in 0..3599 /\ seconds = 3600 * hours + rest BY <1>5
<1>10. seconds % 60 = rest % 60
  <2> HIDE DEF hours, rest
  <2>1. QED BY <1>9
<1>11. minutes \in 0..59 /\ left \in 0..59 /\ rest = 60 * minutes + left
  <2> HIDE DEF hours, rest
  <2> QED BY <1>9
<1>12. iso.hours = hours /\ iso.minutes = minutes /\ iso.seconds = left BY <1>2, <1>10
<1> HIDE DEF hours, rest, minutes, left
<1>13. iso.minutes < 60 /\ iso.seconds < 60 BY <1>11, <1>12
<1>14. QED BY <1>2, <1>6, <1>8, <1>9, <1>11, <1>12, <1>13 DEF TenthsOf

(* How many of a list's elements have a field that is, or is not, one of F. *)
FieldPlaces(o, F, in) == {i \in 1..Len(o) : (o[i].field \in F) = in}
FieldCount(o, F, in) == Cardinality(FieldPlaces(o, F, in))

(* Counts of lists joined add up; all of a list, and none of it. *)
LEMMA FieldCountAdds ==
    ASSUME NEW a, IsList(a), NEW b, IsList(b), NEW F, NEW in
    PROVE  FieldCount(a \o b, F, in) = FieldCount(a, F, in) + FieldCount(b, F, in)
<1> DEFINE l == Len(a)  w == Len(b)
           A == FieldPlaces(a, F, in)  B == FieldPlaces(b, F, in)  C == FieldPlaces(a \o b, F, in)
<1>1. l \in Nat /\ w \in Nat BY ListFacts
<1>2. /\ Len(a \o b) = l + w
      /\ \A i \in 1..l : (a \o b)[i] = a[i]
      /\ \A i \in 1..w : (a \o b)[l + i] = b[i]
  BY Concat
<1>3. A \subseteq 1..l /\ B \subseteq 1..w BY DEF FieldPlaces
<1>4. C = A \cup Behind(l, B)
  <2>1. ASSUME NEW i \in C PROVE i \in A \cup Behind(l, B) BY <1>1, <1>2 DEF FieldPlaces, Behind
  <2>2. ASSUME NEW i \in A PROVE i \in C BY <1>1, <1>2 DEF FieldPlaces
  <2>3. ASSUME NEW i \in B PROVE l + i \in C BY <1>1, <1>2 DEF FieldPlaces
  <2> HIDE DEF A, B, C
  <2>4. QED BY <2>1, <2>2, <2>3 DEF Behind
<1> HIDE DEF A, B, C, l, w
<1>5. QED BY <1>1, <1>3, <1>4, CountsAdd, PlacesAreFinite DEF A, B, C, FieldCount, Follow

LEMMA FieldCountAll ==
    ASSUME NEW a, IsList(a), NEW F, NEW in, \A i \in DOMAIN a : (a[i].field \in F) = in
    PROVE  FieldCount(a, F, in) = Len(a) /\ Len(a) \in Nat
BY ListFacts, Upto DEF FieldPlaces, FieldCount

LEMMA FieldCountNone ==
    ASSUME NEW a, IsList(a), NEW F, NEW in, \A i \in DOMAIN a : (a[i].field \in F) # in
    PROVE  FieldCount(a, F, in) = 0
BY ListFacts, FS_EmptySet DEF FieldPlaces, FieldCount

(* What a list keeps and what it does not are all of it. *)
LEMMA KeptAndLeft ==
    ASSUME NEW seq, IsList(seq), NEW P, NEW Q, P \cup Q = DOMAIN seq, P \cap Q = {}
    PROVE  Len(Picked(seq, P)) + Len(Picked(seq, Q)) = Len(seq)
<1>1. DOMAIN seq = 1..Len(seq) /\ Len(seq) \in Nat BY ListFacts
<1>2. Cardinality(P) + Cardinality(Q) = Len(seq) BY <1>1, CountsComplete
<1>3. QED BY <1>1, <1>2, PickedCounts

(* The first of what is kept is the first place kept. *)
LEMMA TheFirstKept ==
    ASSUME NEW seq, IsList(seq), NEW P, NEW i \in P, i \in DOMAIN seq, \A j \in P : j \in DOMAIN seq => i <= j
    PROVE  Picked(seq, P)[1] = seq[i]
<1> DEFINE q == PickedAt(Len(seq), P)
<1>1. DOMAIN seq = 1..Len(seq) /\ Len(seq) \in Nat BY ListFacts
<1>2. q = PickedAt(Len(seq), P) OBVIOUS
<1> HIDE DEF q
<1>3. /\ Enumerates(q, P \cap (1..Len(seq))) /\ Len(q) \in Nat
      /\ \A k \in 1..Len(q) : q[k] \in 1..Len(seq) /\ q[k] \in P
      /\ \A k \in 1..Len(q) : Picked(seq, P)[k] = seq[q[k]]
  BY <1>2, PickedIs
<1>4. i \in P \cap (1..Len(seq)) BY <1>1
<1>5. PICK k \in 1..Len(q) : q[k] = i BY <1>3, <1>4 DEF Enumerates
<1>6. 1 \in 1..Len(q) /\ q[1] \in P /\ q[1] \in DOMAIN seq BY <1>1, <1>3, <1>5
<1>7. i <= q[1] BY <1>6
<1>8. ASSUME 1 < k PROVE FALSE BY <1>1, <1>3, <1>4, <1>5, <1>6, <1>7, <1>8 DEF Enumerates
<1>9. k = 1 BY <1>3, <1>5, <1>8
<1>10. QED BY <1>3, <1>5, <1>6, <1>9

(* No two are at most one. *)
LEMMA AtMostOne ==
    ASSUME NEW A, \A i, j \in A : i = j
    PROVE  Cardinality(A) <= 1
<1>1. CASE A = {} BY <1>1, FS_EmptySet
<1>2. CASE A # {} BY <1>2, FS_Singleton
<1>3. QED BY <1>1, <1>2

(* The fields of what is published that are no times. *)
OtherFields == {"name", "recipeIngredient", "recipeInstructions", "recipeYield"}

\* A time that is published, of an exact and whole duration.
(* A time published as its expression states it. *)
IsPublished(t, d) ==
    /\ d.kind = "exact" /\ d.value[1] > 0
    /\ TenthsOf(t.iso) = d.value[1] * SecondsPerUnit[d.unit[1]]
    /\ t.iso.minutes < 60 /\ t.iso.seconds < 60

IsPublishedTime(times, i, t) ==
    /\ IsMapped(times[i]) /\ Claims(times, i)
    /\ t.field = TimeFieldByType[times[i].type]
    /\ IsPublished(t, times[i].durationExpression)

(* What becomes of one time: published, or left out for a reason. *)
LEMMA FieldsOfTimes ==
    ASSUME NEW t, IsMapped(t)
    PROVE  TimeFieldByType[t.type] \in {"prepTime", "cookTime", "totalTime"}
BY DEF IsMapped, TimeFieldByType

LEMMA MapTimeIs ==
    ASSUME NEW times, NEW i \in DOMAIN times, IsRecipeTime(times[i]), NEW t, t = MapTime(times, i)
    PROVE  \/ "iso" \notin DOMAIN t /\ "reason" \in DOMAIN t /\ t.field \notin OtherFields
           \/ "iso" \in DOMAIN t /\ "reason" \notin DOMAIN t /\ IsPublishedTime(times, i, t)
<1> DEFINE d == times[i].durationExpression
           field == TimeFieldByType[times[i].type]
           iso == ToIsoDuration(d)
           words == d.sourceText
           mapped == IsMapped(times[i])
           claims == Claims(times, i)
           type == times[i].type
<1>1. /\ t = IF ~mapped THEN Omission(type, "unmapped_time_type", words)
             ELSE IF ~claims THEN Omission(field, "duplicate_time_type", words)
             ELSE IF "omit" \in DOMAIN iso THEN Omission(field, iso.omit, words)
             ELSE [field |-> field, iso |-> iso]
  BY DEF MapTime
<1>2. type \notin OtherFields BY DEF IsRecipeTime, TimeType, OtherFields
<1>3. mapped => field \notin OtherFields BY FieldsOfTimes DEF OtherFields
<1>4. \/ iso \in {Omit("non_exact_value"), Omit("missing_unit"), Omit("unrecognized_unit"),
                  Omit("not_representable")}
      \/ /\ "omit" \notin DOMAIN iso
         /\ d.kind = "exact" /\ d.value[1] > 0
         /\ TenthsOf(iso) = d.value[1] * SecondsPerUnit[d.unit[1]]
         /\ iso.minutes < 60 /\ iso.seconds < 60 BY DurationsConvert DEF IsRecipeTime
<1>5. "omit" \notin DOMAIN iso =>
         /\ d.kind = "exact" /\ d.value[1] > 0
         /\ TenthsOf(iso) = d.value[1] * SecondsPerUnit[d.unit[1]]
         /\ iso.minutes < 60 /\ iso.seconds < 60
  <2> HIDE DEF iso, d
  <2> QED BY <1>4 DEF Omit
<1>6. \A f, r : /\ "iso" \notin DOMAIN Omission(f, r, words) /\ "reason" \in DOMAIN Omission(f, r, words)
                /\ Omission(f, r, words).field = f
  BY DEF Omission
<1> HIDE DEF d, field, iso, words, mapped, claims, type
<1>7. CASE ~mapped BY <1>1, <1>2, <1>6, <1>7
<1>8. CASE mapped /\ ~claims BY <1>1, <1>3, <1>6, <1>8
<1>9. CASE mapped /\ claims /\ "omit" \in DOMAIN iso BY <1>1, <1>3, <1>6, <1>9
<1>10. CASE mapped /\ claims /\ "omit" \notin DOMAIN iso
  BY <1>1, <1>5, <1>10 DEF IsPublished, IsPublishedTime, mapped, claims, field, d
<1>11. QED BY <1>7, <1>8, <1>9, <1>10

(* The times mapped, those published and those left out. *)
MappedTimes(times) == [i \in DOMAIN times |-> MapTime(times, i)]
IsoPlaces(m) == {i \in DOMAIN m : "iso" \in DOMAIN m[i]}
ReasonPlaces(m) == {i \in DOMAIN m : "reason" \in DOMAIN m[i]}

LEMMA MappedTimesAre ==
    ASSUME NEW times, ListOf(times, IsRecipeTime), NEW m, m = MappedTimes(times)
    PROVE  /\ IsList(m) /\ Len(m) = Len(times) /\ DOMAIN m = DOMAIN times
           /\ IsoPlaces(m) \cup ReasonPlaces(m) = DOMAIN m /\ IsoPlaces(m) \cap ReasonPlaces(m) = {}
           /\ \A i \in IsoPlaces(m) : IsPublishedTime(times, i, m[i])
           /\ \A i \in ReasonPlaces(m) : m[i].field \notin OtherFields
<1>1. IsList(times) /\ \A i \in DOMAIN times : IsRecipeTime(times[i]) BY DEF ListOf, Every
<1>2. /\ m = [i \in DOMAIN times |-> m[i]] /\ DOMAIN m = DOMAIN times
      /\ \A i \in DOMAIN times : m[i] = MapTime(times, i)
  BY DEF MappedTimes
<1>3. \A i \in DOMAIN times :
           \/ "iso" \notin DOMAIN m[i] /\ "reason" \in DOMAIN m[i] /\ m[i].field \notin OtherFields
           \/ "iso" \in DOMAIN m[i] /\ "reason" \notin DOMAIN m[i] /\ IsPublishedTime(times, i, m[i])
  BY <1>1, <1>2, MapTimeIs
<1>4. QED BY <1>1, <1>2, <1>3, MappedIs DEF IsoPlaces, ReasonPlaces

\* The times published, each for one the recipe gives.
ShownTimes(times) == Picked(MappedTimes(times), IsoPlaces(MappedTimes(times)))
LeftTimes(times) == Picked(MappedTimes(times), ReasonPlaces(MappedTimes(times)))

(* What a list keeps, each from its own place and in the places' order. *)
KeptFrom(t, seq, P, p) ==
    /\ \A k \in DOMAIN t : p[k] \in DOMAIN seq /\ p[k] \in P /\ t[k] = seq[p[k]]
    /\ \A i \in DOMAIN seq : i \in P => \E k \in DOMAIN t : p[k] = i
    /\ \A j, k \in DOMAIN t : p[j] = p[k] => j = k
    /\ \A j, k \in DOMAIN t : j < k => p[j] < p[k]

LEMMA KeptInOrder ==
    ASSUME NEW seq, IsList(seq), NEW P, NEW t, t = Picked(seq, P)
    PROVE  /\ IsList(t) /\ DOMAIN t = 1..Len(t) /\ Len(t) \in Nat
           /\ \E p : KeptFrom(t, seq, P, p)
<1> DEFINE p == PickedAt(Len(seq), P)
<1>1. p = PickedAt(Len(seq), P) OBVIOUS
<1> HIDE DEF p
<1>2. /\ Enumerates(p, P \cap (1..Len(seq))) /\ Len(p) \in Nat
      /\ \A k \in 1..Len(p) : p[k] \in 1..Len(seq) /\ p[k] \in P
      /\ IsList(t) /\ Len(t) = Len(p)
      /\ \A k \in 1..Len(p) : t[k] = seq[p[k]]
  BY <1>1, PickedIs
<1>3. DOMAIN t = 1..Len(p) /\ DOMAIN seq = 1..Len(seq) /\ Len(seq) \in Nat BY <1>2, ListFacts
<1>4. \A j, k \in 1..Len(p) : p[j] = p[k] => j = k BY <1>2, <1>3, EnumerationIsOneByOne
<1>5. KeptFrom(t, seq, P, p) BY <1>2, <1>3, <1>4 DEF KeptFrom, Enumerates
<1>6. QED BY <1>2, <1>3, <1>5

(* The published times are as stated, the others are recorded. *)
LEMMA TimesShown ==
    ASSUME NEW times, ListOf(times, IsRecipeTime), NEW shown, shown = ShownTimes(times)
    PROVE  /\ IsList(shown)
           /\ \E p : /\ \A k \in DOMAIN shown : p[k] \in DOMAIN times /\ IsPublishedTime(times, p[k], shown[k])
                     /\ \A j, k \in DOMAIN shown : p[j] = p[k] => j = k
<1> DEFINE m == MappedTimes(times)
           P == IsoPlaces(m)
<1>1. /\ IsList(m) /\ DOMAIN m = DOMAIN times
      /\ \A i \in P : IsPublishedTime(times, i, m[i])
  BY MappedTimesAre
<1>2. shown = Picked(m, P) BY DEF ShownTimes
<1> HIDE DEF m, P
<1>3. IsList(shown) BY <1>1, <1>2, KeptInOrder
<1>4. PICK p : KeptFrom(shown, m, P, p) BY <1>1, <1>2, KeptInOrder
<1>5. QED BY <1>1, <1>3, <1>4 DEF KeptFrom

LEMMA TimesLeft ==
    ASSUME NEW times, ListOf(times, IsRecipeTime), NEW left, left = LeftTimes(times)
    PROVE  /\ IsList(left) /\ \A k \in DOMAIN left : left[k].field \notin OtherFields
           /\ Len(ShownTimes(times)) + Len(left) = Len(times)
<1> DEFINE m == MappedTimes(times)
           P == IsoPlaces(m)
           R == ReasonPlaces(m)
<1>1. /\ IsList(m) /\ DOMAIN m = DOMAIN times /\ Len(m) = Len(times)
      /\ P \cup R = DOMAIN m /\ P \cap R = {}
      /\ \A i \in R : m[i].field \notin OtherFields
  BY MappedTimesAre
<1>2. left = Picked(m, R) /\ ShownTimes(times) = Picked(m, P) BY DEF ShownTimes, LeftTimes
<1> HIDE DEF m, P, R
<1>3. Len(Picked(m, P)) + Len(Picked(m, R)) = Len(m) BY <1>1, KeptAndLeft
<1>4. IsList(left) /\ \A k \in DOMAIN left : \E i \in R : left[k] = m[i]
  BY <1>1, <1>2, PickedElements
<1>5. QED BY <1>1, <1>2, <1>3, <1>4

(* The times of one field, stated and published. *)
OfField(times, field) == {i \in DOMAIN times : IsMapped(times[i]) /\ TimeFieldByType[times[i].type] = field}
ShownOf(times, shown, i) ==
    {k \in DOMAIN shown : IsMapped(times[i]) /\ shown[k].field = TimeFieldByType[times[i].type]}

(* What claims a field is the first to. *)
LEMMA ClaimsIsFirst ==
    ASSUME NEW times, IsList(times), NEW i \in DOMAIN times, NEW j \in DOMAIN times,
           IsMapped(times[i]), Claims(times, i), IsMapped(times[j]),
           TimeFieldByType[times[j].type] = TimeFieldByType[times[i].type]
    PROVE  i <= j
<1>1. i \in Nat /\ j \in Nat /\ 1 <= j BY ListFacts
<1>2. ASSUME j < i PROVE FALSE BY <1>1, <1>2 DEF Claims
<1>3. QED BY <1>1, <1>2

LEMMA TimesAsStated ==
    ASSUME NEW times, ListOf(times, IsRecipeTime), NEW shown, shown = ShownTimes(times)
    PROVE  /\ \A k \in DOMAIN shown :
                  IsPublished(shown[k], Picked(times, OfField(times, shown[k].field))[1].durationExpression)
           /\ \A i \in DOMAIN times : Cardinality(ShownOf(times, shown, i)) <= 1
<1>1. IsList(times) BY DEF ListOf
<1>2. PICK p : /\ \A k \in DOMAIN shown : p[k] \in DOMAIN times /\ IsPublishedTime(times, p[k], shown[k])
               /\ \A j, k \in DOMAIN shown : p[j] = p[k] => j = k
  BY TimesShown
<1>3. ASSUME NEW k \in DOMAIN shown
      PROVE  IsPublished(shown[k], Picked(times, OfField(times, shown[k].field))[1].durationExpression)
  <2> DEFINE i == p[k]  P == OfField(times, shown[k].field)
  <2>1. i \in DOMAIN times /\ IsPublishedTime(times, i, shown[k]) BY <1>2
  <2>2. i \in P BY <2>1 DEF OfField, IsPublishedTime
  <2>3. \A j \in P : j \in DOMAIN times /\ IsMapped(times[j])
                     /\ TimeFieldByType[times[j].type] = TimeFieldByType[times[i].type]
    BY <2>1 DEF OfField, IsPublishedTime
  <2> HIDE DEF i, P
  <2>4. QED BY <1>1, <2>1, <2>2, <2>3, TheFirstKept, ClaimsIsFirst DEF P, IsPublishedTime
<1>4. ASSUME NEW i \in DOMAIN times PROVE Cardinality(ShownOf(times, shown, i)) <= 1
  <2> DEFINE A == ShownOf(times, shown, i)
  <2>1. ASSUME NEW j \in A, NEW k \in A PROVE j = k
    <3>1. /\ j \in DOMAIN shown /\ k \in DOMAIN shown
          /\ shown[j].field = shown[k].field
      BY DEF ShownOf
    <3>2. /\ p[j] \in DOMAIN times /\ IsMapped(times[p[j]]) /\ Claims(times, p[j])
          /\ shown[j].field = TimeFieldByType[times[p[j]].type]
      BY <1>2, <3>1 DEF IsPublishedTime
    <3>3. /\ p[k] \in DOMAIN times /\ IsMapped(times[p[k]]) /\ Claims(times, p[k])
          /\ shown[k].field = TimeFieldByType[times[p[k]].type]
      BY <1>2, <3>1 DEF IsPublishedTime
    <3>4. p[j] <= p[k] BY <1>1, <3>1, <3>2, <3>3, ClaimsIsFirst
    <3>5. p[k] <= p[j] BY <1>1, <3>1, <3>2, <3>3, ClaimsIsFirst
    <3>6. QED BY <1>1, <1>2, <3>1, <3>2, <3>3, <3>4, <3>5, ListFacts
  <2> HIDE DEF A
  <2>2. QED BY <2>1, AtMostOne DEF A
<1>5. QED BY <1>3, <1>4

(* What has words is published, what has none is left out. *)
WordedPlaces(seq) == {i \in DOMAIN seq : seq[i].sourceText # ""}
BlankPlaces(seq) == {i \in DOMAIN seq : ~(seq[i].sourceText # "")}
Worded(seq) ==
    [k \in DOMAIN Picked(seq, WordedPlaces(seq)) |-> Picked(seq, WordedPlaces(seq))[k].sourceText]
Blank(seq) == Picked(seq, BlankPlaces(seq))

LEMMA WordedAndBlank ==
    ASSUME NEW seq, IsList(seq), \A i \in DOMAIN seq : IsText(seq[i].sourceText)
    PROVE  /\ IsList(Worded(seq)) /\ \A k \in DOMAIN Worded(seq) : Filled(Worded(seq)[k])
           /\ IsList(Blank(seq)) /\ Len(Worded(seq)) + Len(Blank(seq)) = Len(seq)
<1> DEFINE P == WordedPlaces(seq)  Q == BlankPlaces(seq)
           t == Picked(seq, P)  b == Picked(seq, Q)  w == Worded(seq)
<1>1. P \cup Q = DOMAIN seq /\ P \cap Q = {} BY DEF WordedPlaces, BlankPlaces
<1>2. \A i \in P : seq[i].sourceText # "" BY DEF WordedPlaces
<1>3. /\ w = [k \in DOMAIN t |-> w[k]] /\ DOMAIN w = DOMAIN t
      /\ \A k \in DOMAIN t : w[k] = t[k].sourceText
  BY DEF Worded
<1>4. b = Blank(seq) BY DEF Blank
<1>5. t = Picked(seq, P) /\ b = Picked(seq, Q) OBVIOUS
<1> HIDE DEF P, Q, t, b, w
<1>6. IsList(t) /\ \A k \in DOMAIN t : \E i \in DOMAIN seq : i \in P /\ t[k] = seq[i]
  BY <1>5, PickedElements
<1>7. IsList(b) BY <1>5, PickedElements
<1>8. \A k \in DOMAIN w : Filled(w[k]) BY <1>2, <1>3, <1>6 DEF Filled
<1>9. QED BY <1>1, <1>3, <1>4, <1>5, <1>6, <1>7, <1>8, MappedIs, KeptAndLeft DEF w

(* Five lists joined, counted. *)
LEMMA FiveCounts ==
    ASSUME NEW a, IsList(a), NEW b, IsList(b), NEW c, IsList(c), NEW d, IsList(d), NEW e, IsList(e),
           NEW F, NEW in
    PROVE  FieldCount(a \o b \o c \o d \o e, F, in) =
               FieldCount(a, F, in) + FieldCount(b, F, in) + FieldCount(c, F, in)
                   + FieldCount(d, F, in) + FieldCount(e, F, in)
BY Concat, FieldCountAdds

\* All of a list are of one field.
(* A list of one field. *)
AllOf(a, field) == IsList(a) /\ \A i \in DOMAIN a : a[i].field = field

LEMMA OneField ==
    ASSUME NEW a, NEW field, AllOf(a, field), NEW F, NEW in
    PROVE  /\ (field \in F) = in => FieldCount(a, F, in) = Len(a)
           /\ (field \in F) # in => FieldCount(a, F, in) = 0
BY FieldCountAll, FieldCountNone DEF AllOf

AreCounted(o, a, b, c, d, e) ==
    /\ FieldCount(o, {"name"}, TRUE) = Len(a)
    /\ FieldCount(o, {"recipeIngredient"}, TRUE) = Len(b)
    /\ FieldCount(o, {"recipeInstructions"}, TRUE) = Len(c)
    /\ FieldCount(o, {"recipeYield"}, TRUE) = Len(d)
    /\ FieldCount(o, OtherFields, FALSE) = Len(e)

(* Lists of one field each, and one of none of them, are counted apart. *)
LEMMA CountedApart ==
    ASSUME NEW a, AllOf(a, "name"), NEW b, AllOf(b, "recipeIngredient"),
           NEW c, AllOf(c, "recipeInstructions"), NEW d, AllOf(d, "recipeYield"),
           NEW e, IsList(e), \A i \in DOMAIN e : e[i].field \notin OtherFields,
           NEW o, o = a \o b \o c \o d \o e
    PROVE  IsList(o) /\ AreCounted(o, a, b, c, d, e)
<1>1. IsList(a) /\ IsList(b) /\ IsList(c) /\ IsList(d) /\ IsList(e) BY DEF AllOf
<1>2. Len(a) \in Nat /\ Len(b) \in Nat /\ Len(c) \in Nat /\ Len(d) \in Nat /\ Len(e) \in Nat
  BY <1>1, ListFacts
<1>3. IsList(o) BY <1>1, Concat
<1>4. ASSUME NEW F, NEW in
      PROVE  FieldCount(o, F, in) = FieldCount(a, F, in) + FieldCount(b, F, in) + FieldCount(c, F, in)
                                        + FieldCount(d, F, in) + FieldCount(e, F, in)
  BY <1>1, FiveCounts
<1>5. ASSUME NEW F, F \subseteq OtherFields PROVE FieldCount(e, F, TRUE) = 0
  <2> DEFINE in == TRUE
  <2> HIDE DEF in
  <2>1. QED BY <1>1, <1>5, FieldCountNone DEF in
<1>6. FieldCount(o, {"name"}, TRUE) = Len(a)
  <2> DEFINE F == {"name"}  in == TRUE
  <2>1. ("name" \in F) = in OBVIOUS
  <2>2. ("recipeIngredient" \in F) # in OBVIOUS
  <2>3. ("recipeInstructions" \in F) # in OBVIOUS
  <2>4. ("recipeYield" \in F) # in OBVIOUS
  <2>5. FieldCount(e, F, in) = 0 BY <1>5 DEF OtherFields
  <2> HIDE DEF F, in
  <2>6. FieldCount(c, F, in) = 0 BY <2>3, OneField
  <2>7. FieldCount(d, F, in) = 0 BY <2>4, OneField
  <2>8. FieldCount(o, F, in) = Len(a) BY <1>2, <1>4, <2>1, <2>2, <2>5, <2>6, <2>7, OneField
  <2>9. QED BY <2>8 DEF F, in
<1>7. FieldCount(o, {"recipeIngredient"}, TRUE) = Len(b)
  <2> DEFINE F == {"recipeIngredient"}  in == TRUE
  <2>1. ("name" \in F) # in OBVIOUS
  <2>2. ("recipeIngredient" \in F) = in OBVIOUS
  <2>3. ("recipeInstructions" \in F) # in OBVIOUS
  <2>4. ("recipeYield" \in F) # in OBVIOUS
  <2>5. FieldCount(e, F, in) = 0 BY <1>5 DEF OtherFields
  <2> HIDE DEF F, in
  <2>6. FieldCount(c, F, in) = 0 BY <2>3, OneField
  <2>7. FieldCount(d, F, in) = 0 BY <2>4, OneField
  <2>8. FieldCount(o, F, in) = Len(b) BY <1>2, <1>4, <2>1, <2>2, <2>5, <2>6, <2>7, OneField
  <2>9. QED BY <2>8 DEF F, in
<1>8. FieldCount(o, {"recipeInstructions"}, TRUE) = Len(c)
  <2> DEFINE F == {"recipeInstructions"}  in == TRUE
  <2>1. ("name" \in F) # in OBVIOUS
  <2>2. ("recipeIngredient" \in F) # in OBVIOUS
  <2>3. ("recipeInstructions" \in F) = in OBVIOUS
  <2>4. ("recipeYield" \in F) # in OBVIOUS
  <2>5. FieldCount(e, F, in) = 0 BY <1>5 DEF OtherFields
  <2> HIDE DEF F, in
  <2>6. FieldCount(c, F, in) = Len(c) BY <2>3, OneField
  <2>7. FieldCount(d, F, in) = 0 BY <2>4, OneField
  <2>8. FieldCount(o, F, in) = Len(c) BY <1>2, <1>4, <2>1, <2>2, <2>5, <2>6, <2>7, OneField
  <2>9. QED BY <2>8 DEF F, in
<1>9. FieldCount(o, {"recipeYield"}, TRUE) = Len(d)
  <2> DEFINE F == {"recipeYield"}  in == TRUE
  <2>1. ("name" \in F) # in OBVIOUS
  <2>2. ("recipeIngredient" \in F) # in OBVIOUS
  <2>3. ("recipeInstructions" \in F) # in OBVIOUS
  <2>4. ("recipeYield" \in F) = in OBVIOUS
  <2>5. FieldCount(e, F, in) = 0 BY <1>5 DEF OtherFields
  <2> HIDE DEF F, in
  <2>6. FieldCount(c, F, in) = 0 BY <2>3, OneField
  <2>7. FieldCount(d, F, in) = Len(d) BY <2>4, OneField
  <2>8. FieldCount(o, F, in) = Len(d) BY <1>2, <1>4, <2>1, <2>2, <2>5, <2>6, <2>7, OneField
  <2>9. QED BY <2>8 DEF F, in
<1>10. FieldCount(o, OtherFields, FALSE) = Len(e)
  <2> DEFINE F == OtherFields  in == FALSE
  <2>1. ("name" \in F) # in BY DEF OtherFields
  <2>2. ("recipeIngredient" \in F) # in BY DEF OtherFields
  <2>3. ("recipeInstructions" \in F) # in BY DEF OtherFields
  <2>4. ("recipeYield" \in F) # in BY DEF OtherFields
  <2>5. \A i \in DOMAIN e : (e[i].field \in F) = in OBVIOUS
  <2> HIDE DEF F, in
  <2>6. FieldCount(d, F, in) = 0 BY <2>4, OneField
  <2>7. FieldCount(e, F, in) = Len(e) BY <1>1, <2>5, FieldCountAll
  <2>8. FieldCount(o, F, in) = Len(e) BY <1>2, <1>4, <2>1, <2>2, <2>3, <2>6, <2>7, OneField
  <2>9. QED BY <2>8 DEF F, in
<1>11. QED BY <1>3, <1>6, <1>7, <1>8, <1>9, <1>10 DEF AreCounted

(* What is left out of a recipe, in order. *)
NoName(recipe) ==
    IF recipe.title.state = "from_source" THEN <<>> ELSE <<Omission("name", "not_in_source", "")>>
BlankIngredients(recipe) ==
    [k \in DOMAIN Blank(Ingredients(recipe)) |->
        Omission("recipeIngredient", "blank_source_text", Blank(Ingredients(recipe))[k].name)]
BlankSteps(recipe) ==
    [k \in DOMAIN Blank(Steps(recipe)) |->
        Omission("recipeInstructions", "blank_source_text", Blank(Steps(recipe))[k].normalizedActionText)]
InexactPlaces(recipe) == {i \in DOMAIN recipe.yields : ~IsExactYield(recipe.yields[i])}
Inexact(recipe) == Picked(recipe.yields, InexactPlaces(recipe))
InexactYields(recipe) ==
    [k \in DOMAIN Inexact(recipe) |-> Omission("recipeYield", "non_exact_value", Inexact(recipe)[k].sourceText)]
NamedAuthors(recipe) == Picked(recipe.authors, {i \in DOMAIN recipe.authors : recipe.authors[i] # ""})

(* The parts of what is published. *)
LEMMA PublishedOf ==
    ASSUME NEW recipe, NEW out, out = MapCanonicalToSchemaOrg(recipe)
    PROVE  /\ out.recipe.name = IF recipe.title.state = "from_source" THEN <<recipe.title.sourceText>> ELSE <<>>
           /\ out.recipe.author = NamedAuthors(recipe)
           /\ out.recipe.recipeIngredient = Worded(Ingredients(recipe))
           /\ out.recipe.recipeInstructions = Worded(Steps(recipe))
           /\ out.recipe.recipeYield = [i \in DOMAIN recipe.yields |-> MapYield(recipe.yields[i])]
           /\ out.recipe.times = ShownTimes(recipe.times)
           /\ out.omissions = NoName(recipe) \o BlankIngredients(recipe) \o BlankSteps(recipe)
                                  \o InexactYields(recipe) \o LeftTimes(recipe.times)
<1> DEFINE name == IF recipe.title.state = "from_source" THEN <<recipe.title.sourceText>> ELSE <<>>
           ingredients == Split(Ingredients(recipe), LAMBDA i : i.sourceText # "", Wording,
                             LAMBDA i : Omission("recipeIngredient", "blank_source_text", i.name))
           steps == Split(Steps(recipe), LAMBDA s : s.sourceText # "", Wording,
                       LAMBDA s : Omission("recipeInstructions", "blank_source_text", s.normalizedActionText))
           authors == Filtered(recipe.authors, LAMBDA a : a # "")
           inexact == Each(Filtered(recipe.yields, LAMBDA y : ~IsExactYield(y)),
                           LAMBDA y : Omission("recipeYield", "non_exact_value", y.sourceText))
           times == [i \in DOMAIN recipe.times |-> MapTime(recipe.times, i)]
           shown == Filtered(times, LAMBDA t : "iso" \in DOMAIN t)
           left == Filtered(times, LAMBDA t : "reason" \in DOMAIN t)
           yields == Each(recipe.yields, MapYield)
           unnamed == IF recipe.title.state = "from_source" THEN <<>>
                      ELSE <<Omission("name", "not_in_source", "")>>
<1>1. /\ out.recipe = [name |-> name, description |-> recipe.description, author |-> authors,
                       recipeIngredient |-> ingredients.shown, recipeInstructions |-> steps.shown,
                       recipeYield |-> yields, times |-> shown]
      /\ out.omissions = unnamed \o ingredients.omitted \o steps.omitted \o inexact \o left
  BY DEF MapCanonicalToSchemaOrg
<1>2. ingredients.shown = Worded(Ingredients(recipe)) /\ ingredients.omitted = BlankIngredients(recipe)
  BY DEF Split, Each, Filtered, Wording, Worded, WordedPlaces, Blank, BlankPlaces, BlankIngredients
<1>3. steps.shown = Worded(Steps(recipe)) /\ steps.omitted = BlankSteps(recipe)
  BY DEF Split, Each, Filtered, Wording, Worded, WordedPlaces, Blank, BlankPlaces, BlankSteps
<1>4. authors = NamedAuthors(recipe) BY DEF Filtered, NamedAuthors
<1>5. inexact = InexactYields(recipe) BY DEF Each, Filtered, InexactYields, Inexact, InexactPlaces
<1>6. shown = ShownTimes(recipe.times) BY DEF Filtered, ShownTimes, MappedTimes, IsoPlaces
<1>7. left = LeftTimes(recipe.times) BY DEF Filtered, LeftTimes, MappedTimes, ReasonPlaces
<1>8. yields = [i \in DOMAIN recipe.yields |-> MapYield(recipe.yields[i])] BY DEF Each
<1>9. unnamed = NoName(recipe) BY DEF NoName
<1> HIDE DEF name, ingredients, steps, authors, inexact, times, shown, left, yields, unnamed
<1>10. QED BY <1>1, <1>2, <1>3, <1>4, <1>5, <1>6, <1>7, <1>8, <1>9 DEF name

(* Each part is of its own field. *)
LEMMA OmissionsOf ==
    ASSUME NEW recipe, IsCanonicalRecipe(recipe)
    PROVE  /\ AllOf(NoName(recipe), "name") /\ AllOf(BlankIngredients(recipe), "recipeIngredient")
           /\ AllOf(BlankSteps(recipe), "recipeInstructions") /\ AllOf(InexactYields(recipe), "recipeYield")
           /\ Len(BlankIngredients(recipe)) = Len(Blank(Ingredients(recipe)))
           /\ Len(BlankSteps(recipe)) = Len(Blank(Steps(recipe)))
           /\ Len(InexactYields(recipe)) = Len(Inexact(recipe))
           /\ Len(NoName(recipe)) = IF recipe.title.state = "from_source" THEN 0 ELSE 1
<1>1. \A f, r, t : Omission(f, r, t).field = f BY DEF Omission
<1>2. ASSUME NEW s, IsList(s), NEW f, NEW o, o = [k \in DOMAIN s |-> o[k]], \A k \in DOMAIN s : o[k].field = f
      PROVE  AllOf(o, f) /\ Len(o) = Len(s) BY <1>2, MappedIs DEF AllOf
<1>3. IsList(Ingredients(recipe)) /\ IsList(Steps(recipe)) /\ IsList(recipe.yields)
  BY IngredientsAreIngredients, StepsAreSteps DEF ListOf, IsCanonicalRecipe
<1>4. AllOf(BlankIngredients(recipe), "recipeIngredient")
      /\ Len(BlankIngredients(recipe)) = Len(Blank(Ingredients(recipe)))
  <2> DEFINE s == Blank(Ingredients(recipe))  o == BlankIngredients(recipe)
  <2>1. IsList(s) BY <1>3, PickedElements DEF Blank
  <2> HIDE DEF s, o
  <2>2. QED BY <1>1, <1>2, <2>1 DEF s, o, BlankIngredients
<1>5. AllOf(BlankSteps(recipe), "recipeInstructions") /\ Len(BlankSteps(recipe)) = Len(Blank(Steps(recipe)))
  <2> DEFINE s == Blank(Steps(recipe))  o == BlankSteps(recipe)
  <2>1. IsList(s) BY <1>3, PickedElements DEF Blank
  <2> HIDE DEF s, o
  <2>2. QED BY <1>1, <1>2, <2>1 DEF s, o, BlankSteps
<1>6. AllOf(InexactYields(recipe), "recipeYield") /\ Len(InexactYields(recipe)) = Len(Inexact(recipe))
  <2> DEFINE s == Inexact(recipe)  o == InexactYields(recipe)
  <2>1. IsList(s) BY <1>3, PickedElements DEF Inexact
  <2> HIDE DEF s, o
  <2>2. QED BY <1>1, <1>2, <2>1 DEF s, o, InexactYields
<1>7. AllOf(NoName(recipe), "name")
      /\ Len(NoName(recipe)) = IF recipe.title.state = "from_source" THEN 0 ELSE 1
  <2> DEFINE x == Omission("name", "not_in_source", "")
  <2>1. x.field = "name" BY <1>1
  <2> HIDE DEF x
  <2>2. CASE recipe.title.state = "from_source" BY <2>2, NoneIsAList DEF NoName, AllOf
  <2>3. CASE recipe.title.state # "from_source"
    <3>1. <<x>> \in Seq({x}) /\ Len(<<x>>) = 1 /\ DOMAIN <<x>> = {1} /\ <<x>>[1] = x OBVIOUS
    <3>2. QED BY <2>1, <2>3, <3>1, SeqIsList DEF AllOf, NoName, x
  <2>4. QED BY <2>2, <2>3
<1>8. QED BY <1>4, <1>5, <1>6, <1>7

(* What is left out of a recipe, field by field. *)
LEMMA LeftOutOf ==
    ASSUME NEW recipe, IsCanonicalRecipe(recipe), NEW out, out = MapCanonicalToSchemaOrg(recipe),
           NEW o, o = out.omissions
    PROVE  /\ IsList(o)
           /\ Len(ShownTimes(recipe.times)) + FieldCount(o, OtherFields, FALSE) = Len(recipe.times)
           /\ Len(Worded(Ingredients(recipe))) + FieldCount(o, {"recipeIngredient"}, TRUE) =
                  Len(Ingredients(recipe))
           /\ Len(Worded(Steps(recipe))) + FieldCount(o, {"recipeInstructions"}, TRUE) = Len(Steps(recipe))
           /\ FieldCount(o, {"recipeYield"}, TRUE) = Len(Inexact(recipe))
           /\ Len(out.recipe.name) + FieldCount(o, {"name"}, TRUE) = 1
<1> DEFINE a == NoName(recipe)  b == BlankIngredients(recipe)  c == BlankSteps(recipe)
           d == InexactYields(recipe)  e == LeftTimes(recipe.times)
<1>1. o = a \o b \o c \o d \o e BY PublishedOf
<1>2. AllOf(a, "name") /\ AllOf(b, "recipeIngredient") /\ AllOf(c, "recipeInstructions")
      /\ AllOf(d, "recipeYield")
  BY OmissionsOf
<1>3. /\ Len(b) = Len(Blank(Ingredients(recipe))) /\ Len(c) = Len(Blank(Steps(recipe)))
      /\ Len(d) = Len(Inexact(recipe)) /\ Len(a) = IF recipe.title.state = "from_source" THEN 0 ELSE 1
  BY OmissionsOf
<1>4. /\ IsList(e) /\ \A k \in DOMAIN e : e[k].field \notin OtherFields
      /\ Len(ShownTimes(recipe.times)) + Len(e) = Len(recipe.times) BY TimesLeft DEF IsCanonicalRecipe
<1> HIDE DEF a, b, c, d, e
<1>5. IsList(o) /\ AreCounted(o, a, b, c, d, e) BY <1>1, <1>2, <1>4, CountedApart
<1>6. Len(out.recipe.name) = IF recipe.title.state = "from_source" THEN 1 ELSE 0
  <2>1. out.recipe.name = IF recipe.title.state = "from_source" THEN <<recipe.title.sourceText>> ELSE <<>>
    BY PublishedOf
  <2>2. QED BY <2>1
<1>7. Len(out.recipe.name) + Len(a) = 1 BY <1>3, <1>6
<1>8. QED
  BY <1>3, <1>4, <1>5, <1>7, WordedAndBlank, IngredientsAreIngredients, StepsAreSteps DEF AreCounted,
     ListOf, Every, IsIngredient, IsInstructionStep

-------------------------------------------------------------------------------
(* A recipe is published as stated.                                        *)

(* The yields as published, and what is not blank. *)
LEMMA YieldsArePublished ==
    ASSUME NEW recipe, IsCanonicalRecipe(recipe),
           NEW shown, shown = [i \in DOMAIN recipe.yields |-> MapYield(recipe.yields[i])]
    PROVE  /\ Len(shown) = Len(recipe.yields)
           /\ \A i \in DOMAIN recipe.yields :
                  /\ shown[i].name = recipe.yields[i].sourceText
                  /\ "value" \in DOMAIN shown[i] => recipe.yields[i].valueExpression.kind = "exact"
           /\ Cardinality({i \in DOMAIN shown : "value" \notin DOMAIN shown[i]}) = Len(Inexact(recipe))
<1> DEFINE yields == recipe.yields
<1>1. IsList(yields) BY DEF IsCanonicalRecipe, ListOf
<1>2. /\ shown = [i \in DOMAIN yields |-> shown[i]] /\ DOMAIN shown = DOMAIN yields
      /\ \A i \in DOMAIN yields : shown[i] = MapYield(yields[i])
  OBVIOUS
<1>3. Len(shown) = Len(yields) BY <1>1, <1>2, MappedIs
<1>4. Len(Inexact(recipe)) = Cardinality(InexactPlaces(recipe))
  BY <1>1, ListFacts, PickedCounts DEF InexactPlaces, Inexact
<1>5. QED BY <1>2, <1>3, <1>4 DEF InexactPlaces, IsExactYield, MapYield

LEMMA NothingIsBlank ==
    ASSUME NEW recipe, IsCanonicalRecipe(recipe)
    PROVE  Every(Worded(Ingredients(recipe)) \o Worded(Steps(recipe)) \o NamedAuthors(recipe), Filled)
<1> DEFINE a == Worded(Ingredients(recipe))  b == Worded(Steps(recipe))  c == NamedAuthors(recipe)
<1>1. IsList(c) /\ \A k \in DOMAIN c : Filled(c[k])
  <2> DEFINE P == {i \in DOMAIN recipe.authors : recipe.authors[i] # ""}
  <2>1. IsList(recipe.authors) /\ \A i \in DOMAIN recipe.authors : IsText(recipe.authors[i])
    BY DEF IsCanonicalRecipe, ListOf, Every
  <2>2. c = Picked(recipe.authors, P) BY DEF NamedAuthors
  <2>3. \A i \in P : recipe.authors[i] # "" OBVIOUS
  <2> HIDE DEF P, c
  <2>4. IsList(c) /\ \A k \in DOMAIN c : \E i \in DOMAIN recipe.authors : i \in P /\ c[k] = recipe.authors[i]
    BY <2>1, <2>2, PickedElements
  <2>5. QED BY <2>1, <2>3, <2>4 DEF Filled
<1> HIDE DEF a, b, c
<1>2. ASSUME NEW s, NEW t, IsList(s), IsList(t), \A k \in DOMAIN s : Filled(s[k]), \A k \in DOMAIN t : Filled(t[k])
      PROVE  IsList(s \o t) /\ \A k \in DOMAIN (s \o t) : Filled((s \o t)[k]) BY <1>2, Concat, ListFacts
<1>3. QED
  BY <1>1, <1>2, WordedAndBlank, IngredientsAreIngredients, StepsAreSteps DEF Every, a, b, c, ListOf,
     IsIngredient, IsInstructionStep

(* What is published of any recipe is what its source states               *)
(* (schema-org-mapping.ts): no time rounded or doubled, nothing blank, and *)
(* everything that is left out recorded as left out.                       *)
THEOREM PublishedIsStated == Spec => []PublishedAsStated
<1>1. ASSUME DocumentsInv PROVE PublishedAsStated
  <2> DEFINE recipe == subject.recipe
             out == result.published
             times == recipe.times
             LeftOut(field) == CountOf(out.omissions, LAMBDA o : o.field = field)
  <2> SUFFICES ASSUME stage = "shown"
      PROVE  /\ \A k \in DOMAIN out.recipe.times :
                   LET shown == out.recipe.times[k]
                       ofField == Filtered(times, LAMBDA t : IsMapped(t) /\ TimeFieldByType[t.type] = shown.field)
                       d == ofField[1].durationExpression
                   IN  /\ d.kind = "exact" /\ d.value[1] > 0
                       /\ TenthsOf(shown.iso) = d.value[1] * SecondsPerUnit[d.unit[1]]
                       /\ shown.iso.minutes < 60 /\ shown.iso.seconds < 60
             /\ \A i \in DOMAIN times :
                    Cardinality({k \in DOMAIN out.recipe.times :
                        IsMapped(times[i]) /\ out.recipe.times[k].field = TimeFieldByType[times[i].type]}) <= 1
             /\ Len(out.recipe.times) + CountOf(out.omissions, LAMBDA o : o.field \notin OtherFields) = Len(times)
             /\ Len(out.recipe.recipeIngredient) + LeftOut("recipeIngredient") = Len(Ingredients(recipe))
             /\ Len(out.recipe.recipeInstructions) + LeftOut("recipeInstructions") = Len(Steps(recipe))
             /\ Every(out.recipe.recipeIngredient \o out.recipe.recipeInstructions \o out.recipe.author, Filled)
             /\ Len(out.recipe.recipeYield) = Len(recipe.yields)
             /\ \A i \in DOMAIN recipe.yields :
                    /\ out.recipe.recipeYield[i].name = recipe.yields[i].sourceText
                    /\ "value" \in DOMAIN out.recipe.recipeYield[i] =>
                           recipe.yields[i].valueExpression.kind = "exact"
             /\ LeftOut("recipeYield") = CountOf(out.recipe.recipeYield, LAMBDA y : "value" \notin DOMAIN y)
             /\ Len(out.recipe.name) + LeftOut("name") = 1
    BY DEF PublishedAsStated, OtherFields
  <2>1. IsCanonicalRecipe(recipe) /\ out = MapCanonicalToSchemaOrg(recipe)
    BY <1>1, SubjectsAssumption DEF DocumentsInv, Shown
  <2>2. times = recipe.times OBVIOUS
  <2> DEFINE o == out.omissions
  <2>3. o = out.omissions OBVIOUS
  <2> HIDE DEF recipe, out, times
  <2>4. /\ out.recipe.author = NamedAuthors(recipe)
        /\ out.recipe.recipeIngredient = Worded(Ingredients(recipe))
        /\ out.recipe.recipeInstructions = Worded(Steps(recipe))
        /\ out.recipe.recipeYield = [i \in DOMAIN recipe.yields |-> MapYield(recipe.yields[i])]
        /\ out.recipe.times = ShownTimes(times)
    BY <2>1, <2>2, PublishedOf
  <2>5. /\ IsList(o)
        /\ Len(ShownTimes(times)) + FieldCount(o, OtherFields, FALSE) = Len(times)
        /\ Len(Worded(Ingredients(recipe))) + FieldCount(o, {"recipeIngredient"}, TRUE) =
               Len(Ingredients(recipe))
        /\ Len(Worded(Steps(recipe))) + FieldCount(o, {"recipeInstructions"}, TRUE) = Len(Steps(recipe))
        /\ FieldCount(o, {"recipeYield"}, TRUE) = Len(Inexact(recipe))
        /\ Len(out.recipe.name) + FieldCount(o, {"name"}, TRUE) = 1
    BY <2>1, <2>2, <2>3, LeftOutOf
  <2>6. ListOf(times, IsRecipeTime) BY <2>1, <2>2 DEF IsCanonicalRecipe
  <2>7. DOMAIN o = 1..Len(o) BY <2>5, ListFacts
  <2> HIDE DEF o
  <2>8. \A field : LeftOut(field) = FieldCount(o, {field}, TRUE)
    <3> TAKE field
    <3>1. LeftOut(field) = Cardinality({i \in DOMAIN o : o[i].field = field}) BY <2>3 DEF CountOf
    <3>2. {i \in DOMAIN o : o[i].field = field} = FieldPlaces(o, {field}, TRUE) BY <2>7 DEF FieldPlaces
    <3>3. QED BY <3>1, <3>2 DEF FieldCount
  <2>9. CountOf(out.omissions, LAMBDA x : x.field \notin OtherFields) = FieldCount(o, OtherFields, FALSE)
    <3>1. {i \in DOMAIN o : o[i].field \notin OtherFields} = FieldPlaces(o, OtherFields, FALSE)
      BY <2>7 DEF FieldPlaces
    <3>2. CountOf(o, LAMBDA x : x.field \notin OtherFields) =
              Cardinality({i \in DOMAIN o : o[i].field \notin OtherFields})
      BY DEF CountOf
    <3>3. QED BY <2>3, <3>1, <3>2 DEF FieldCount
  <2> HIDE DEF LeftOut
  <2> DEFINE shown == out.recipe.times
  <2>10. /\ \A k \in DOMAIN shown :
                IsPublished(shown[k], Picked(times, OfField(times, shown[k].field))[1].durationExpression)
         /\ \A i \in DOMAIN times : Cardinality(ShownOf(times, shown, i)) <= 1
    BY <2>4, <2>6, TimesAsStated
  <2>11. \A k \in DOMAIN shown :
             LET ofField == Filtered(times, LAMBDA t : IsMapped(t) /\ TimeFieldByType[t.type] = shown[k].field)
                 d == ofField[1].durationExpression
             IN  /\ d.kind = "exact" /\ d.value[1] > 0
                 /\ TenthsOf(shown[k].iso) = d.value[1] * SecondsPerUnit[d.unit[1]]
                 /\ shown[k].iso.minutes < 60 /\ shown[k].iso.seconds < 60
    BY <2>10 DEF IsPublished, OfField, Filtered
  <2>12. \A i \in DOMAIN times :
             Cardinality({k \in DOMAIN shown :
                 IsMapped(times[i]) /\ shown[k].field = TimeFieldByType[times[i].type]}) <= 1
    BY <2>10 DEF ShownOf
  <2> DEFINE yields == out.recipe.recipeYield
  <2>13. /\ Len(yields) = Len(recipe.yields)
         /\ \A i \in DOMAIN recipe.yields :
                /\ yields[i].name = recipe.yields[i].sourceText
                /\ "value" \in DOMAIN yields[i] => recipe.yields[i].valueExpression.kind = "exact"
         /\ Cardinality({i \in DOMAIN yields : "value" \notin DOMAIN yields[i]}) = Len(Inexact(recipe))
    BY <2>1, <2>4, YieldsArePublished
  <2>14. LeftOut("recipeYield") = CountOf(out.recipe.recipeYield, LAMBDA y : "value" \notin DOMAIN y)
    BY <2>5, <2>8, <2>13 DEF CountOf
  <2>15. Every(out.recipe.recipeIngredient \o out.recipe.recipeInstructions \o out.recipe.author, Filled)
    BY <2>1, <2>4, NothingIsBlank
  <2>16. /\ Len(out.recipe.times) + CountOf(out.omissions, LAMBDA x : x.field \notin OtherFields) = Len(times)
         /\ Len(out.recipe.recipeIngredient) + LeftOut("recipeIngredient") = Len(Ingredients(recipe))
         /\ Len(out.recipe.recipeInstructions) + LeftOut("recipeInstructions") = Len(Steps(recipe))
         /\ Len(out.recipe.name) + LeftOut("name") = 1
    BY <2>4, <2>5, <2>8, <2>9
  <2>17. QED BY <2>11, <2>12, <2>13, <2>14, <2>15, <2>16
<1>2. QED BY <1>1, DocumentsAreInv, PTL

-------------------------------------------------------------------------------
(* The surfaces (render/): what the page shows of a recipe, and the cooking *)
(* view of its plan.                                                       *)

(* No list joined, and one. *)
LEMMA FlatOfNone == FlattenSeq(<<>>) = <<>>
BY NoneIsAList, JoinedOneByOne DEF ListsIn

LEMMA FlatOfOne ==
    ASSUME NEW s, IsList(s), NEW ss, IsList(ss), Len(ss) = 1, ss[1] = s
    PROVE  FlattenSeq(ss) = s
<1>1. DOMAIN ss = {1} BY ListFacts
<1>2. ListsIn(ss) BY <1>1 DEF ListsIn
<1>3. PICK g : /\ g[0] = <<>>
               /\ \A m \in 1..Len(ss) : g[m] = g[m - 1] \o ss[m]
               /\ FlattenSeq(ss) = g[Len(ss)]
  BY <1>2, JoinedOneByOne
<1>4. g[1] = g[0] \o ss[1]
  <2>1. 1 \in 1..Len(ss) /\ 1 - 1 = 0 OBVIOUS
  <2>2. QED BY <1>3, <2>1
<1>5. <<>> \o s = s BY ConcatEmptySeq DEF IsList
<1>6. QED BY <1>3, <1>4, <1>5

(* Lists of the same shape joined have their elements at the same places. *)
LEMMA JoinedAlike ==
    ASSUME NEW ss, ListsIn(ss), NEW tt, ListsIn(tt), DOMAIN tt = DOMAIN ss,
           \A i \in DOMAIN ss : DOMAIN tt[i] = DOMAIN ss[i]
    PROVE  /\ IsList(FlattenSeq(ss)) /\ IsList(FlattenSeq(tt))
           /\ DOMAIN FlattenSeq(tt) = DOMAIN FlattenSeq(ss)
           /\ \A k \in DOMAIN FlattenSeq(ss) : \E i \in DOMAIN ss : \E j \in DOMAIN ss[i] :
                  FlattenSeq(ss)[k] = ss[i][j] /\ FlattenSeq(tt)[k] = tt[i][j]
<1> DEFINE at == PlacesOf(ss)  f == FlattenSeq(ss)  g == FlattenSeq(tt)
<1>1. PlacesOf(tt) = at BY SameShape
<1>2. IsList(f) /\ Len(at) \in Nat /\ JoinedAs(f, at, ss, Len(ss)) BY FlatIs
<1>3. IsList(g) /\ JoinedAs(g, at, tt, Len(tt)) BY <1>1, FlatIs
<1> HIDE DEF at, f, g
<1>4. DOMAIN f = 1..Len(at) /\ DOMAIN g = 1..Len(at) BY <1>2, <1>3, ListFacts DEF JoinedAs
<1>5. ASSUME NEW k \in DOMAIN f
      PROVE  \E i \in DOMAIN ss : \E j \in DOMAIN ss[i] : f[k] = ss[i][j] /\ g[k] = tt[i][j]
  BY <1>2, <1>3, <1>4, ListFacts DEF JoinedAs, ListsIn
<1>6. QED BY <1>2, <1>3, <1>4, <1>5 DEF f, g

(* The numbers of an interval, counted. *)
After(l, w) == l + 1..l + w

(* A stretch of places, counted and picked. *)
LEMMA AfterCounted ==
    ASSUME NEW l \in Nat, NEW w \in Nat, NEW p, Enumerates(p, After(l, w))
    PROVE  Len(p) = w /\ \A m \in 1..w : p[m] = l + m
<1> DEFINE A == After(l, w)
<1>1. A = l + 1..l + w /\ Enumerates(p, A) BY DEF After
<1>2. PICK n \in Nat : n = l + w OBVIOUS
<1> HIDE DEF A
<1>3. A \subseteq 1..n BY <1>1, <1>2
<1>4. Enumerates(p, A) BY <1>1
<1>5. Len(p) \in Nat /\ Cardinality(A) = Len(p) BY <1>1, <1>2, <1>3, EnumerationCounts
<1>6. Cardinality(A) = w BY <1>1, FS_Interval
<1>7. ASSUME NEW m \in 1..w PROVE p[m] = l + m
  <2>1. m \in 1..Len(p) BY <1>5, <1>6
  <2>2. p[m] \in A BY <1>1, <2>1 DEF Enumerates
  <2> DEFINE i == p[m]
  <2>3. p[m] = i OBVIOUS
  <2> HIDE DEF i
  <2>4. i \in A BY <2>3, <2>2
  <2>5. Cardinality(Below(A, i)) = m - 1 BY ONLY <1>4, n \in Nat, <1>3, <2>3, <2>1, RankIsBelow, ZenonT(20)
  <2>6. Below(A, i) = l + 1..i - 1 BY <1>1, <2>4 DEF Below
  <2>7. Cardinality(Below(A, i)) = IF l + 1 > i - 1 THEN 0 ELSE (i - 1) - (l + 1) + 1
    BY <1>1, <2>4, <2>6, FS_Interval
  <2>8. i = l + m BY <1>1, <2>4, <2>5, <2>7
  <2>9. QED BY <2>3, <2>8
<1>8. QED BY <1>5, <1>6, <1>7

LEMMA AfterPicked ==
    ASSUME NEW s, IsList(s), NEW l \in Nat, NEW w \in Nat, l + w <= Len(s),
           NEW t, t = Picked(s, After(l, w))
    PROVE  /\ IsList(t) /\ Len(t) = w
           /\ \A m \in 1..w : t[m] = s[l + m]
<1> DEFINE P == After(l, w)  p == PickedAt(Len(s), P)
<1>1. p = PickedAt(Len(s), P) /\ t = Picked(s, P) /\ P = After(l, w) OBVIOUS
<1> HIDE DEF p, P
<1>2. Len(s) \in Nat BY ListFacts
<1>3. P \subseteq 1..Len(s) BY <1>1, <1>2 DEF After
<1>4. Enumerates(p, P) BY <1>1, <1>2, <1>3, PlacesAreEnumerated
<1>5. Len(p) = w /\ \A m \in 1..w : p[m] = l + m BY <1>1, <1>4, AfterCounted
<1>6. ASSUME NEW m \in 1..w PROVE t[m] = s[l + m] BY <1>1, <1>5, PickedThere
<1>7. QED BY <1>1, <1>2, <1>3, <1>4, <1>5, <1>6, PickedElements, PickedCounts, EnumerationCounts

(* Four lists joined, and where their elements are. *)
FourOf(a, b, c, d) == a \o b \o c \o d
AreJoinedIn(x, a, b, c, d) ==
    /\ IsList(x) /\ Len(x) = Len(a) + Len(b) + Len(c) + Len(d)
    /\ \A i \in 1..Len(a) : x[i] = a[i]
    /\ \A i \in 1..Len(b) : x[Len(a) + i] = b[i]
    /\ \A i \in 1..Len(c) : x[Len(a) + Len(b) + i] = c[i]
    /\ \A i \in 1..Len(d) : x[Len(a) + Len(b) + Len(c) + i] = d[i]

(* Four lists joined lie one behind another. *)
LEMMA FourJoined ==
    ASSUME NEW a, IsList(a), NEW b, IsList(b), NEW c, IsList(c), NEW d, IsList(d),
           NEW x, x = FourOf(a, b, c, d)
    PROVE  AreJoinedIn(x, a, b, c, d)
<1> DEFINE e == a \o b  f == a \o b \o c
<1>1. Len(a) \in Nat /\ Len(b) \in Nat /\ Len(c) \in Nat /\ Len(d) \in Nat BY ListFacts
<1>2. /\ IsList(e) /\ Len(e) = Len(a) + Len(b)
      /\ \A i \in 1..Len(a) : e[i] = a[i]
      /\ \A i \in 1..Len(b) : e[Len(a) + i] = b[i]
  BY Concat
<1>3. f = e \o c BY Zenon
<1>4. x = f \o d BY DEF FourOf
<1> HIDE DEF e, f
<1>5. /\ IsList(f) /\ Len(f) = Len(e) + Len(c)
      /\ \A i \in 1..Len(e) : f[i] = e[i]
      /\ \A i \in 1..Len(c) : f[Len(e) + i] = c[i]
  <2>1. IsList(e) BY <1>2
  <2>2. QED BY <1>3, <2>1, Concat
<1>6. /\ IsList(x) /\ Len(x) = Len(f) + Len(d)
      /\ \A i \in 1..Len(f) : x[i] = f[i]
      /\ \A i \in 1..Len(d) : x[Len(f) + i] = d[i]
  <2>1. IsList(f) BY <1>5
  <2>2. QED BY <1>4, <2>1, Concat
<1>7. ASSUME NEW i \in 1..Len(b) PROVE x[Len(a) + i] = b[i]
  <2>1. Len(a) + i \in 1..Len(e) /\ Len(a) + i \in 1..Len(f) BY <1>1, <1>2, <1>5
  <2>2. QED BY <1>2, <1>5, <1>6, <2>1
<1>8. ASSUME NEW i \in 1..Len(c) PROVE x[Len(a) + Len(b) + i] = c[i] BY <1>1, <1>2, <1>5, <1>6
<1>9. ASSUME NEW i \in 1..Len(d) PROVE x[Len(a) + Len(b) + Len(c) + i] = d[i] BY <1>2, <1>5, <1>6
<1>10. QED BY <1>1, <1>2, <1>5, <1>6, <1>7, <1>8, <1>9 DEF AreJoinedIn

(* A step and an ingredient as the page shows them. *)
StepShown(recipe, step) == StepItem(StepView(recipe.preparedComponents, step))
ItemShown(i) == IngredientItem(IngredientView(i))

(* The page's body, its sections' steps and its groups' ingredients. *)
BodyOf(recipe, served, pictureSource) == RecipePage(recipe, served, pictureSource).body
SectionSteps(recipe) ==
    [i \in DOMAIN recipe.instructionSections |->
        [j \in DOMAIN recipe.instructionSections[i].steps |->
            StepShown(recipe, recipe.instructionSections[i].steps[j])]]
GroupItems(recipe) ==
    [i \in DOMAIN recipe.ingredientGroups |->
        [j \in DOMAIN recipe.ingredientGroups[i].ingredients |->
            ItemShown(recipe.ingredientGroups[i].ingredients[j])]]

(* What a page's body is made of. *)
LEMMA FieldsOfBody ==
    ASSUME NEW view, NEW body, body = RecipeBody(view)
    PROVE  /\ body.heading = view.title
           /\ body.attribution = view.authors \o view.attribution
           /\ body.picture = PictureBlock(view.picture)
           /\ body.signals = Signals(view)
           /\ body.ingredientGroups = Each(view.ingredientGroups, IngredientGroup)
           /\ body.sections = Each(view.sections, LAMBDA s :
                                  [title |-> s.title, steps |-> Each(s.steps, StepItem)])
BY DEF RecipeBody, AttributionLine, Each

LEMMA BodyIs ==
    ASSUME NEW recipe, NEW served, NEW pictureSource, NEW body, body = BodyOf(recipe, served, pictureSource)
    PROVE  /\ body.heading = TitleView(recipe)
           /\ body.attribution = recipe.authors \o AttributionOf(recipe)
           /\ body.picture = PictureBlock(PictureOf(recipe, served, pictureSource))
           /\ body.signals = Signals(ToRecipeView(recipe, served, pictureSource))
<1> DEFINE view == ToRecipeView(recipe, served, pictureSource)
<1>1. body = RecipeBody(view) BY DEF BodyOf, RecipePage
<1> HIDE DEF view
<1>2. /\ body.heading = view.title /\ body.attribution = view.authors \o view.attribution
      /\ body.picture = PictureBlock(view.picture) /\ body.signals = Signals(view)
  BY <1>1, FieldsOfBody
<1>3. QED BY <1>2 DEF view, ToRecipeView

(* The page's sections are the recipe's, their steps as shown. *)
LEMMA SectionsAreShown ==
    ASSUME NEW recipe, NEW served, NEW pictureSource
    PROVE  Each(BodyOf(recipe, served, pictureSource).sections, LAMBDA s : s.steps) = SectionSteps(recipe)
<1> DEFINE view == ToRecipeView(recipe, served, pictureSource)
           body == BodyOf(recipe, served, pictureSource)
           sections == recipe.instructionSections
<1>1. body = RecipeBody(view) BY DEF BodyOf, RecipePage
<1>2. view.sections = Each(sections, LAMBDA s :
        [title |-> s.title,
         steps |-> Each(s.steps, LAMBDA step : StepView(recipe.preparedComponents, step))])
  BY DEF ToRecipeView
<1> HIDE DEF view, body, sections
<1>3. body.sections = Each(view.sections, LAMBDA s : [title |-> s.title, steps |-> Each(s.steps, StepItem)])
  BY <1>1, FieldsOfBody
<1> DEFINE shown == body.sections  vs == view.sections
<1>4. /\ DOMAIN vs = DOMAIN sections
      /\ \A i \in DOMAIN sections :
             vs[i].steps = [j \in DOMAIN sections[i].steps |->
                               StepView(recipe.preparedComponents, sections[i].steps[j])]
  BY <1>2 DEF Each
<1>5. /\ DOMAIN shown = DOMAIN vs
      /\ \A i \in DOMAIN vs : shown[i].steps = [j \in DOMAIN vs[i].steps |-> StepItem(vs[i].steps[j])]
  BY <1>3 DEF Each
<1> HIDE DEF shown, vs
<1>6. ASSUME NEW i \in DOMAIN sections
      PROVE  shown[i].steps = [j \in DOMAIN sections[i].steps |-> StepShown(recipe, sections[i].steps[j])]
  <2>1. vs[i].steps = [j \in DOMAIN sections[i].steps |->
                          StepView(recipe.preparedComponents, sections[i].steps[j])]
    BY <1>4
  <2>2. QED BY <1>4, <1>5, <2>1 DEF StepShown
<1>7. QED BY <1>4, <1>5, <1>6 DEF Each, shown, body, SectionSteps, sections

(* So are its groups of ingredients. *)
LEMMA GroupsAreShown ==
    ASSUME NEW recipe, NEW served, NEW pictureSource
    PROVE  Each(BodyOf(recipe, served, pictureSource).ingredientGroups, LAMBDA g : g.ingredients) =
               GroupItems(recipe)
<1> DEFINE view == ToRecipeView(recipe, served, pictureSource)
           body == BodyOf(recipe, served, pictureSource)
           groups == recipe.ingredientGroups
<1>1. body = RecipeBody(view) BY DEF BodyOf, RecipePage
<1>2. view.ingredientGroups = Each(groups, LAMBDA g :
        [title |-> g.title, ingredients |-> Each(g.ingredients, IngredientView)])
  BY DEF ToRecipeView
<1> HIDE DEF view, body, groups
<1>3. body.ingredientGroups = Each(view.ingredientGroups, IngredientGroup) BY <1>1, FieldsOfBody
<1> DEFINE shown == body.ingredientGroups  vs == view.ingredientGroups
<1>4. /\ DOMAIN vs = DOMAIN groups
      /\ \A i \in DOMAIN groups :
             vs[i].ingredients = [j \in DOMAIN groups[i].ingredients |-> IngredientView(groups[i].ingredients[j])]
  BY <1>2 DEF Each
<1>5. /\ DOMAIN shown = DOMAIN vs
      /\ \A i \in DOMAIN vs :
             shown[i].ingredients = [j \in DOMAIN vs[i].ingredients |-> IngredientItem(vs[i].ingredients[j])]
  BY <1>3 DEF Each, IngredientGroup
<1> HIDE DEF shown, vs
<1>6. ASSUME NEW i \in DOMAIN groups
      PROVE  shown[i].ingredients = [j \in DOMAIN groups[i].ingredients |-> ItemShown(groups[i].ingredients[j])]
  <2>1. vs[i].ingredients = [j \in DOMAIN groups[i].ingredients |-> IngredientView(groups[i].ingredients[j])]
    BY <1>4
  <2>2. QED BY <1>4, <1>5, <2>1 DEF ItemShown
<1>7. QED BY <1>4, <1>5, <1>6 DEF Each, shown, body, GroupItems, groups

(* The page's steps are the recipe's, in order; so are its ingredients. *)
LEMMA PageStepsAre ==
    ASSUME NEW recipe, IsCanonicalRecipe(recipe), NEW shown, shown = FlattenSeq(SectionSteps(recipe))
    PROVE  /\ IsList(shown) /\ DOMAIN shown = DOMAIN Steps(recipe) /\ Len(shown) = Len(Steps(recipe))
           /\ \A n \in DOMAIN Steps(recipe) : shown[n] = StepShown(recipe, Steps(recipe)[n])
<1> DEFINE sections == recipe.instructionSections  tt == SectionSteps(recipe)
           ss == [i \in DOMAIN sections |-> sections[i].steps]
<1>1. IsList(sections) /\ \A i \in DOMAIN sections : IsList(sections[i].steps)
  BY DEF IsCanonicalRecipe, IsInstructionSection, ListOf, Every
<1>2. Steps(recipe) = FlattenSeq(ss) BY DEF Steps, Each
<1>3. /\ ss = [i \in DOMAIN sections |-> ss[i]] /\ DOMAIN ss = DOMAIN sections
      /\ \A i \in DOMAIN sections : ss[i] = sections[i].steps
  OBVIOUS
<1>4. /\ tt = [i \in DOMAIN sections |-> tt[i]] /\ DOMAIN tt = DOMAIN sections
      /\ \A i \in DOMAIN sections :
           /\ tt[i] = [j \in DOMAIN sections[i].steps |-> tt[i][j]]
           /\ DOMAIN tt[i] = DOMAIN sections[i].steps
           /\ \A j \in DOMAIN sections[i].steps : tt[i][j] = StepShown(recipe, sections[i].steps[j])
  BY DEF SectionSteps
<1>5. shown = FlattenSeq(tt) OBVIOUS
<1> HIDE DEF sections, ss, tt
<1>6. ListsIn(ss) BY <1>1, <1>3, MappedIs DEF ListsIn
<1>7. ListsIn(tt) BY <1>1, <1>4, MappedIs DEF ListsIn
<1>8. DOMAIN tt = DOMAIN ss /\ \A i \in DOMAIN ss : DOMAIN tt[i] = DOMAIN ss[i] BY <1>3, <1>4
<1> DEFINE f == FlattenSeq(ss)  g == FlattenSeq(tt)
<1>9. /\ IsList(f) /\ IsList(g) /\ DOMAIN g = DOMAIN f
      /\ \A k \in DOMAIN f : \E i \in DOMAIN ss : \E j \in DOMAIN ss[i] : f[k] = ss[i][j] /\ g[k] = tt[i][j]
  BY <1>6, <1>7, <1>8, JoinedAlike
<1>10. f = Steps(recipe) /\ g = shown BY <1>2, <1>5
<1> HIDE DEF f, g
<1>11. QED BY <1>3, <1>4, <1>9, <1>10, ListFacts

LEMMA PageItemsAre ==
    ASSUME NEW recipe, IsCanonicalRecipe(recipe), NEW shown, shown = FlattenSeq(GroupItems(recipe))
    PROVE  /\ DOMAIN shown = DOMAIN Ingredients(recipe)
           /\ \A n \in DOMAIN Ingredients(recipe) : shown[n] = ItemShown(Ingredients(recipe)[n])
<1> DEFINE groups == recipe.ingredientGroups  tt == GroupItems(recipe)
           ss == [i \in DOMAIN groups |-> groups[i].ingredients]
<1>1. IsList(groups) /\ \A i \in DOMAIN groups : IsList(groups[i].ingredients)
  BY DEF IsCanonicalRecipe, IsIngredientGroup, ListOf, Every
<1>2. Ingredients(recipe) = FlattenSeq(ss) BY DEF Ingredients, Each
<1>3. /\ ss = [i \in DOMAIN groups |-> ss[i]] /\ DOMAIN ss = DOMAIN groups
      /\ \A i \in DOMAIN groups : ss[i] = groups[i].ingredients
  OBVIOUS
<1>4. /\ tt = [i \in DOMAIN groups |-> tt[i]] /\ DOMAIN tt = DOMAIN groups
      /\ \A i \in DOMAIN groups :
           /\ tt[i] = [j \in DOMAIN groups[i].ingredients |-> tt[i][j]]
           /\ DOMAIN tt[i] = DOMAIN groups[i].ingredients
           /\ \A j \in DOMAIN groups[i].ingredients : tt[i][j] = ItemShown(groups[i].ingredients[j])
  BY DEF GroupItems
<1>5. shown = FlattenSeq(tt) OBVIOUS
<1> HIDE DEF groups, ss, tt
<1>6. ListsIn(ss) BY <1>1, <1>3, MappedIs DEF ListsIn
<1>7. ListsIn(tt) BY <1>1, <1>4, MappedIs DEF ListsIn
<1>8. DOMAIN tt = DOMAIN ss /\ \A i \in DOMAIN ss : DOMAIN tt[i] = DOMAIN ss[i] BY <1>3, <1>4
<1> DEFINE f == FlattenSeq(ss)  g == FlattenSeq(tt)
<1>9. /\ IsList(f) /\ IsList(g) /\ DOMAIN g = DOMAIN f
      /\ \A k \in DOMAIN f : \E i \in DOMAIN ss : \E j \in DOMAIN ss[i] : f[k] = ss[i][j] /\ g[k] = tt[i][j]
  BY <1>6, <1>7, <1>8, JoinedAlike
<1>10. f = Ingredients(recipe) /\ g = shown BY <1>2, <1>5
<1> HIDE DEF f, g
<1>11. QED BY <1>3, <1>4, <1>9, <1>10

(* The rows of a step: a label each, of its own, with a list of values. *)
AreRows(rows) ==
    /\ IsList(rows)
    /\ \A i, j \in DOMAIN rows : rows[i].label = rows[j].label => i = j
    /\ \A i \in DOMAIN rows : IsList(rows[i].values)

(* What a page's step says under a label, and a unit's annotations. *)
ValuesAt(annotations, label) ==
    FlattenSeq(Each(Filtered(annotations, LAMBDA a : a.label = label), LAMBDA a : a.values))
TextsAt(annotations, label) ==
    Each(Filtered(annotations, LAMBDA a : a.label = label), LAMBDA a : a.text)

(* A row that is left out because it is empty reads as an empty one. *)
LEMMA RowIsRead ==
    ASSUME NEW rows, AreRows(rows), NEW r \in DOMAIN rows, NEW label, rows[r].label = label,
           NEW a, a = Annotated(rows)
    PROVE  ValuesAt(a, label) = rows[r].values
<1> DEFINE P == {i \in DOMAIN rows : rows[i].values # <<>>}
           Q == {k \in DOMAIN a : a[k].label = label}
           f == Picked(a, Q)  v == [k \in DOMAIN f |-> f[k].values]
<1>1. a = Picked(rows, P) BY DEF Annotated, Filtered
<1>2. ValuesAt(a, label) = FlattenSeq(v) BY DEF ValuesAt, Filtered, Each
<1>3. IsList(rows) /\ IsList(rows[r].values) BY DEF AreRows
<1>4. \A i : i \in P <=> i \in DOMAIN rows /\ rows[i].values # <<>> OBVIOUS
<1>5. \A k : k \in Q <=> k \in DOMAIN a /\ a[k].label = label OBVIOUS
<1>6. v = [k \in DOMAIN f |-> v[k]] /\ \A k \in DOMAIN f : v[k] = f[k].values OBVIOUS
<1>7. f = Picked(a, Q) OBVIOUS
<1> HIDE DEF P, Q, f, v
<1>8. IsList(a) /\ DOMAIN a = 1..Len(a) BY <1>1, <1>3, PickedElements
<1>9. PICK p : KeptFrom(a, rows, P, p) BY <1>1, <1>3, KeptInOrder
<1>10. IsList(f) /\ DOMAIN f = 1..Len(f) /\ Len(f) \in Nat BY <1>7, <1>8, PickedElements
<1>11. ASSUME NEW k \in DOMAIN f PROVE \E i \in DOMAIN a : i \in Q /\ f[k] = a[i]
  BY <1>7, <1>8, PickedElements
<1>12. IsList(v) /\ Len(v) = Len(f) /\ DOMAIN v = DOMAIN f BY <1>6, <1>10, MappedIs
<1>13. CASE rows[r].values = <<>>
  <2>1. ASSUME NEW k \in Q PROVE FALSE BY <1>4, <1>5, <1>9, <1>13 DEF KeptFrom, AreRows
  <2>2. DOMAIN f = {} BY <1>11, <2>1
  <2>3. Len(f) = 0 BY <1>10, <2>2
  <2>4. v = <<>> BY <1>12, <2>3, ListFacts
  <2>5. QED BY <1>2, <1>13, <2>4, FlatOfNone
<1>14. CASE rows[r].values # <<>>
  <2>1. PICK k \in DOMAIN a : p[k] = r BY <1>4, <1>9, <1>14 DEF KeptFrom
  <2>2. a[k] = rows[r] /\ k \in Q BY <1>5, <1>9, <2>1 DEF KeptFrom
  <2>3. ASSUME NEW j \in Q PROVE j = k BY <1>5, <1>9, <2>1 DEF KeptFrom, AreRows
  <2>4. Q = {k} BY <2>2, <2>3
  <2>5. Len(f) = 1
    <3>1. Len(f) = Cardinality(Q) BY <1>7, <1>5, <1>8, PickedCounts
    <3>2. QED BY <2>4, <3>1, FS_Singleton
  <2>6. 1 \in DOMAIN f BY <1>10, <2>5
  <2>7. f[1] = a[k] BY <1>11, <2>3, <2>6
  <2>8. Len(v) = 1 BY <1>12, <2>5
  <2>9. QED BY <1>2, <1>3, <1>6, <1>12, <2>2, <2>6, <2>7, <2>8, FlatOfOne
<1>15. QED BY <1>13, <1>14

(* What a step's lists say, element by element. *)
WordingsIn(seq) == [i \in DOMAIN seq |-> seq[i].sourceText]
TimesSaidBy(seq) == [i \in DOMAIN seq |-> seq[i].durationExpression.sourceText]
ProductsOf(recipe, step) ==
    [i \in DOMAIN step.producesComponents |-> LabelOf(recipe.preparedComponents, step.producesComponents[i])]

(* The rows of a step that the page shows. *)
RowsOf(view) ==
    <<Annotation("Prerequisite", view.prerequisiteCues), Annotation("Time", view.durations),
      Annotation("Temperature", view.temperatures), Annotation("Wait", view.waitCues),
      Annotation("Done when", view.donenessCues), Annotation("Produces", view.produces)>>

(* What the view of a step holds, each a list. *)
LEMMA ViewOfStep ==
    ASSUME NEW recipe, NEW step, IsInstructionStep(step),
           NEW view, view = StepView(recipe.preparedComponents, step)
    PROVE  /\ view.text = step.normalizedActionText
           /\ view.prerequisiteCues = WordingsIn(step.prerequisiteCues)
           /\ view.durations = TimesSaidBy(step.durations)
           /\ view.temperatures = WordingsIn(step.temperatures)
           /\ view.waitCues = WordingsIn(step.waitCues)
           /\ view.donenessCues = WordingsIn(step.donenessCues)
           /\ view.produces = ProductsOf(recipe, step)
BY DEF StepView, WordingsIn, TimesSaidBy, ProductsOf, Each, Wording

LEMMA SaidIsAList ==
    ASSUME NEW step, IsInstructionStep(step), NEW recipe
    PROVE  /\ IsList(WordingsIn(step.prerequisiteCues)) /\ IsList(TimesSaidBy(step.durations))
           /\ IsList(WordingsIn(step.temperatures)) /\ IsList(WordingsIn(step.waitCues))
           /\ IsList(WordingsIn(step.donenessCues)) /\ IsList(ProductsOf(recipe, step))
<1>1. /\ IsList(step.prerequisiteCues) /\ IsList(step.durations) /\ IsList(step.temperatures)
      /\ IsList(step.waitCues) /\ IsList(step.donenessCues) /\ IsList(step.producesComponents)
  BY DEF IsInstructionStep, ListOf
<1>2. ASSUME NEW seq, IsList(seq) PROVE IsList(WordingsIn(seq))
  <2> DEFINE t == WordingsIn(seq)
  <2>1. t = [i \in DOMAIN seq |-> t[i]] BY DEF WordingsIn
  <2> HIDE DEF t
  <2>2. IsList(t) BY <1>2, <2>1, MappedIs
  <2>3. QED BY <2>2 DEF t
<1>3. IsList(TimesSaidBy(step.durations))
  <2> DEFINE t == TimesSaidBy(step.durations)
  <2>1. t = [i \in DOMAIN step.durations |-> t[i]] BY DEF TimesSaidBy
  <2> HIDE DEF t
  <2>2. IsList(t) BY <1>1, <2>1, MappedIs
  <2>3. QED BY <2>2 DEF t
<1>4. IsList(ProductsOf(recipe, step))
  <2> DEFINE t == ProductsOf(recipe, step)
  <2>1. t = [i \in DOMAIN step.producesComponents |-> t[i]] BY DEF ProductsOf
  <2> HIDE DEF t
  <2>2. IsList(t) BY <1>1, <2>1, MappedIs
  <2>3. QED BY <2>2 DEF t
<1>5. QED BY <1>1, <1>2, <1>3, <1>4

(* What the page says of a step, label by label. *)
LEMMA StepIsRead ==
    ASSUME NEW recipe, NEW step, IsInstructionStep(step), NEW item, item = StepShown(recipe, step)
    PROVE  /\ item.text = step.normalizedActionText
           /\ ValuesAt(item.annotations, "Prerequisite") = WordingsIn(step.prerequisiteCues)
           /\ ValuesAt(item.annotations, "Time") = TimesSaidBy(step.durations)
           /\ ValuesAt(item.annotations, "Temperature") = WordingsIn(step.temperatures)
           /\ ValuesAt(item.annotations, "Wait") = WordingsIn(step.waitCues)
           /\ ValuesAt(item.annotations, "Done when") = WordingsIn(step.donenessCues)
           /\ ValuesAt(item.annotations, "Produces") = ProductsOf(recipe, step)
<1> DEFINE view == StepView(recipe.preparedComponents, step)  rows == RowsOf(view)
           a == item.annotations
<1>1. item.text = view.text BY DEF StepShown, StepItem
<1>2. a = Annotated(rows) BY DEF StepShown, StepItem, RowsOf
<1>3. view = StepView(recipe.preparedComponents, step) OBVIOUS
<1> HIDE DEF view, a
<1>4. /\ view.text = step.normalizedActionText
      /\ view.prerequisiteCues = WordingsIn(step.prerequisiteCues)
      /\ view.durations = TimesSaidBy(step.durations)
      /\ view.temperatures = WordingsIn(step.temperatures)
      /\ view.waitCues = WordingsIn(step.waitCues)
      /\ view.donenessCues = WordingsIn(step.donenessCues)
      /\ view.produces = ProductsOf(recipe, step)
  BY <1>3, ViewOfStep
<1>5. rows = [i \in 1..6 |-> rows[i]] BY DEF RowsOf
<1>6. DOMAIN rows = 1..6 BY DEF RowsOf
<1>7. rows[1].label = "Prerequisite" /\ rows[1].values = view.prerequisiteCues BY DEF RowsOf, Annotation
<1>8. rows[2].label = "Time" /\ rows[2].values = view.durations BY DEF RowsOf, Annotation
<1>9. rows[3].label = "Temperature" /\ rows[3].values = view.temperatures BY DEF RowsOf, Annotation
<1>10. rows[4].label = "Wait" /\ rows[4].values = view.waitCues BY DEF RowsOf, Annotation
<1>11. rows[5].label = "Done when" /\ rows[5].values = view.donenessCues BY DEF RowsOf, Annotation
<1>12. rows[6].label = "Produces" /\ rows[6].values = view.produces BY DEF RowsOf, Annotation
<1> HIDE DEF rows
<1>13. rows[1].values = WordingsIn(step.prerequisiteCues) BY <1>4, <1>7
<1>14. rows[2].values = TimesSaidBy(step.durations) BY <1>4, <1>8
<1>15. rows[3].values = WordingsIn(step.temperatures) BY <1>4, <1>9
<1>16. rows[4].values = WordingsIn(step.waitCues) BY <1>4, <1>10
<1>17. rows[5].values = WordingsIn(step.donenessCues) BY <1>4, <1>11
<1>18. rows[6].values = ProductsOf(recipe, step) BY <1>4, <1>12
<1>19. AreRows(rows)
  <2>1. IsList(rows) BY <1>5, AFunctionIsAList
  <2>2. ASSUME NEW i \in DOMAIN rows PROVE IsList(rows[i].values)
    BY <1>6, <1>13, <1>14, <1>15, <1>16, <1>17, <1>18, SaidIsAList
  <2>3. ASSUME NEW i \in DOMAIN rows, NEW j \in DOMAIN rows, rows[i].label = rows[j].label PROVE i = j
    <3>1. i \in 1..6 /\ j \in 1..6 BY <1>6
    <3>2. j = 1 \/ j = 2 \/ j = 3 \/ j = 4 \/ j = 5 \/ j = 6 BY <3>1
    <3>3. /\ rows[1].label = "Prerequisite" /\ rows[2].label = "Time" /\ rows[3].label = "Temperature"
          /\ rows[4].label = "Wait" /\ rows[5].label = "Done when" /\ rows[6].label = "Produces"
      BY <1>7, <1>8, <1>9, <1>10, <1>11, <1>12
    <3>4. CASE i = 1 BY <2>3, <3>2, <3>3, <3>4
    <3>5. CASE i = 2 BY <2>3, <3>2, <3>3, <3>5
    <3>6. CASE i = 3 BY <2>3, <3>2, <3>3, <3>6
    <3>7. CASE i = 4 BY <2>3, <3>2, <3>3, <3>7
    <3>8. CASE i = 5 BY <2>3, <3>2, <3>3, <3>8
    <3>9. CASE i = 6 BY <2>3, <3>2, <3>3, <3>9
    <3>10. QED BY <3>1, <3>4, <3>5, <3>6, <3>7, <3>8, <3>9
  <2>4. QED BY <2>1, <2>2, <2>3 DEF AreRows
<1>20. ASSUME NEW r \in DOMAIN rows, NEW label, rows[r].label = label
      PROVE  ValuesAt(a, label) = rows[r].values
  BY <1>2, <1>19, <1>20, RowIsRead
<1>21. 1 \in DOMAIN rows /\ 2 \in DOMAIN rows /\ 3 \in DOMAIN rows /\ 4 \in DOMAIN rows
      /\ 5 \in DOMAIN rows /\ 6 \in DOMAIN rows
  BY <1>6
<1>22. ValuesAt(a, "Produces") = ProductsOf(recipe, step) BY <1>12, <1>18, <1>20, <1>21
<1>23. QED
  BY <1>22, <1>7, <1>13, <1>8, <1>14, <1>9, <1>15, <1>10, <1>16, <1>11, <1>17, <1>1, <1>4, <1>20, <1>21
     DEF a

(* Where a list has a label: just behind the first l, w times. *)
LabelledAfter(x, label, l, w) == \A i \in DOMAIN x : x[i].label = label <=> i \in After(l, w)
SaysAfter(x, l, s) == \A m \in DOMAIN s : x[l + m].text = s[m]

(* The texts under a label are its stretch of the list. *)
LEMMA SegmentIsRead ==
    ASSUME NEW x, IsList(x), NEW l \in Nat, NEW s, IsList(s), l + Len(s) <= Len(x), NEW label,
           LabelledAfter(x, label, l, Len(s)), SaysAfter(x, l, s)
    PROVE  TextsAt(x, label) = s
<1> DEFINE P == {i \in DOMAIN x : x[i].label = label}  f == Picked(x, P)
           v == [k \in DOMAIN f |-> f[k].text]  w == Len(s)
<1>1. TextsAt(x, label) = v BY DEF TextsAt, Filtered, Each
<1>2. w \in Nat /\ DOMAIN s = 1..w /\ Len(x) \in Nat /\ DOMAIN x = 1..Len(x) BY ListFacts
<1>3. P = After(l, w) BY <1>2 DEF LabelledAfter, After
<1>4. v = [k \in DOMAIN f |-> v[k]] /\ \A k \in DOMAIN f : v[k] = f[k].text OBVIOUS
<1>5. f = Picked(x, After(l, w)) BY <1>3
<1>6. l + w <= Len(x) OBVIOUS
<1> HIDE DEF P, f, v, w
<1>7. IsList(f) /\ Len(f) = w BY <1>2, <1>5, <1>6, AfterPicked
<1>8. \A m \in 1..w : f[m] = x[l + m] BY <1>2, <1>5, <1>6, AfterPicked
<1>9. DOMAIN f = 1..w BY <1>7, ListFacts
<1>10. IsList(v) /\ Len(v) = w BY <1>4, <1>7, MappedIs
<1>11. v = s BY <1>2, <1>4, <1>8, <1>9, <1>10, ListEqual DEF w, SaysAfter
<1>12. QED BY <1>1, <1>11

(* The parameters of a step, of one kind. *)
Parameter(text, kind, origin) == [text |-> text, kind |-> kind, origin |-> origin]
DurationsOf(step) == [i \in DOMAIN step.durations |->
    Parameter(step.durations[i].durationExpression.sourceText, "duration",
              OriginInStep("stepDuration", step, i, step.durations[i].sourceRefs))]
CuesOf(step, seq, kind, element) == [i \in DOMAIN seq |->
    Parameter(seq[i].sourceText, kind, OriginInStep(element, step, i, seq[i].sourceRefs))]

(* The parameters of a step are four stretches, one for each kind. *)
LEMMA CriticalIsJoined ==
    ASSUME NEW step
    PROVE  CriticalOf(step) =
               DurationsOf(step)
               \o CuesOf(step, step.temperatures, "temperature", "stepTemperature")
               \o CuesOf(step, step.donenessCues, "doneness", "stepDoneness")
               \o CuesOf(step, step.waitCues, "wait", "stepWait")
BY DEF CriticalOf, DurationsOf, CuesOf, Parameter, Wording

(* A list of parameters of one kind, and what they say. *)
OfKind(q, kind, s) ==
    /\ IsList(q) /\ IsList(s) /\ Len(q) = Len(s)
    /\ \A i \in 1..Len(s) : q[i].kind = kind /\ q[i].text = s[i]

(* Each stretch is of one kind and says what the step says. *)
LEMMA CuesAreOfKind ==
    ASSUME NEW step, NEW seq, IsList(seq), NEW kind, NEW element,
           NEW q, q = CuesOf(step, seq, kind, element)
    PROVE  OfKind(q, kind, WordingsIn(seq))
<1> DEFINE s == WordingsIn(seq)
<1> HIDE DEF s
<1>1. QED BY MappedIs DEF s, OfKind, CuesOf, Parameter, WordingsIn

LEMMA DurationsAreOfKind ==
    ASSUME NEW step, IsList(step.durations), NEW q, q = DurationsOf(step)
    PROVE  OfKind(q, "duration", TimesSaidBy(step.durations))
<1> DEFINE seq == step.durations  s == TimesSaidBy(step.durations)
<1>1. q = [i \in DOMAIN seq |-> q[i]] BY DEF DurationsOf
<1>2. \A i \in DOMAIN seq : q[i].kind = "duration" /\ q[i].text = seq[i].durationExpression.sourceText
  BY DEF DurationsOf, Parameter
<1>3. s = [i \in DOMAIN seq |-> s[i]] BY DEF TimesSaidBy
<1>4. \A i \in DOMAIN seq : s[i] = seq[i].durationExpression.sourceText BY DEF TimesSaidBy
<1>5. IsList(seq) OBVIOUS
<1> HIDE DEF s, seq
<1>6. OfKind(q, "duration", s) BY <1>5, <1>1, <1>2, <1>3, <1>4, MappedIs DEF OfKind
<1>7. QED BY <1>6 DEF s

(* What a unit shows while it runs. *)
AnnotationsOf(step) ==
    [i \in DOMAIN CriticalOf(step) |->
        [label |-> CriticalLabel[CriticalOf(step)[i].kind], text |-> CriticalOf(step)[i].text]]

(* A stretch of a list, behind its first l places, and what it says. *)
Segment(x, label, l, s) ==
    IsList(s) /\ \A m \in 1..Len(s) : x[l + m].label = label /\ x[l + m].text = s[m]

(* A stretch of one label. *)
AllLabelled(x, label, l, w) == \A i \in After(l, w) : x[i].label = label

(* Four stretches one behind another are read each by its label. *)
LEMMA SegmentIsLabelled ==
    ASSUME NEW x, NEW label, NEW l \in Nat, NEW s, Segment(x, label, l, s)
    PROVE  AllLabelled(x, label, l, Len(s))
<1>1. Len(s) \in Nat BY ListFacts DEF Segment
<1>2. ASSUME NEW i \in After(l, Len(s)) PROVE x[i].label = label
  <2>1. PICK m \in 1..Len(s) : i = l + m BY <1>1 DEF After
  <2>2. QED BY <2>1 DEF Segment
<1>3. QED BY <1>2 DEF AllLabelled

LEMMA FourStretches ==
    ASSUME NEW a \in Nat, NEW b \in Nat, NEW c \in Nat, NEW d \in Nat, NEW i \in 1..a + b + c + d
    PROVE  i \in After(0, a) \/ i \in After(a, b) \/ i \in After(a + b, c) \/ i \in After(a + b + c, d)
BY DEF After

(* The annotations of a unit: the times, the temperatures, the doneness    *)
(* cues and the waits, one stretch behind the other.                       *)
AnnotatedBy(x, sa, sb, sc, sd) ==
    /\ IsList(x) /\ Len(x) = Len(sa) + Len(sb) + Len(sc) + Len(sd)
    /\ Segment(x, "Time", 0, sa) /\ Segment(x, "Temperature", Len(sa), sb)
    /\ Segment(x, "Done when", Len(sa) + Len(sb), sc)
    /\ Segment(x, "Wait", Len(sa) + Len(sb) + Len(sc), sd)

LEMMA FourSegments ==
    ASSUME NEW x, NEW sa, NEW sb, NEW sc, NEW sd, AnnotatedBy(x, sa, sb, sc, sd)
    PROVE  /\ TextsAt(x, "Time") = sa /\ TextsAt(x, "Temperature") = sb
           /\ TextsAt(x, "Done when") = sc /\ TextsAt(x, "Wait") = sd
<1>1. IsList(sa) /\ IsList(sb) /\ IsList(sc) /\ IsList(sd) /\ IsList(x) BY DEF AnnotatedBy, Segment
<1>2. PICK a \in Nat, b \in Nat, c \in Nat, d \in Nat :
          Len(sa) = a /\ Len(sb) = b /\ Len(sc) = c /\ Len(sd) = d
  BY <1>1, ListFacts
<1> DEFINE P == After(0, a)  Q == After(a, b)  R == After(a + b, c)  S == After(a + b + c, d)
<1>3. Len(x) = a + b + c + d /\ DOMAIN x = 1..a + b + c + d BY <1>1, <1>2, ListFacts DEF AnnotatedBy
<1>4. \A i \in DOMAIN x : i \in P \/ i \in Q \/ i \in R \/ i \in S BY <1>3, FourStretches
<1>5. /\ Segment(x, "Time", 0, sa) /\ Segment(x, "Temperature", a, sb)
      /\ Segment(x, "Done when", a + b, sc) /\ Segment(x, "Wait", a + b + c, sd)
  BY <1>2 DEF AnnotatedBy
<1>6. a + b \in Nat /\ a + b + c \in Nat /\ 0 \in Nat OBVIOUS
<1>7. \A i \in P : x[i].label = "Time"
  <2>1. AllLabelled(x, "Time", 0, a) BY <1>2, <1>5, <1>6, SegmentIsLabelled
  <2>2. QED BY <2>1 DEF AllLabelled
<1>8. \A i \in Q : x[i].label = "Temperature"
  <2>1. AllLabelled(x, "Temperature", a, b) BY <1>2, <1>5, <1>6, SegmentIsLabelled
  <2>2. QED BY <2>1 DEF AllLabelled
<1>9. \A i \in R : x[i].label = "Done when"
  <2>1. AllLabelled(x, "Done when", a + b, c) BY <1>2, <1>5, <1>6, SegmentIsLabelled
  <2>2. QED BY <2>1 DEF AllLabelled
<1>10. \A i \in S : x[i].label = "Wait"
  <2>1. AllLabelled(x, "Wait", a + b + c, d) BY <1>2, <1>5, <1>6, SegmentIsLabelled
  <2>2. QED BY <2>1 DEF AllLabelled
<1>11. TextsAt(x, "Time") = sa
  <2>1. LabelledAfter(x, "Time", 0, Len(sa)) BY <1>2, <1>4, <1>7, <1>8, <1>9, <1>10 DEF LabelledAfter
  <2>2. SaysAfter(x, 0, sa) BY <1>1, <1>5, ListFacts DEF Segment, SaysAfter
  <2>3. 0 + Len(sa) <= Len(x) BY <1>2, <1>3
  <2>4. QED BY <1>1, <1>6, <2>1, <2>2, <2>3, SegmentIsRead
<1>12. TextsAt(x, "Temperature") = sb
  <2>1. LabelledAfter(x, "Temperature", a, Len(sb))
    BY <1>2, <1>4, <1>7, <1>8, <1>9, <1>10 DEF LabelledAfter
  <2>2. SaysAfter(x, a, sb) BY <1>1, <1>5, ListFacts DEF Segment, SaysAfter
  <2>3. QED BY <1>1, <1>2, <1>3, <1>6, <2>1, <2>2, SegmentIsRead
<1>13. TextsAt(x, "Done when") = sc
  <2>1. LabelledAfter(x, "Done when", a + b, Len(sc))
    BY <1>2, <1>4, <1>7, <1>8, <1>9, <1>10 DEF LabelledAfter
  <2>2. SaysAfter(x, a + b, sc) BY <1>1, <1>5, ListFacts DEF Segment, SaysAfter
  <2>3. a + b + Len(sc) <= Len(x) BY <1>2, <1>3
  <2>4. QED BY <1>1, <1>6, <2>1, <2>2, <2>3, SegmentIsRead
<1>14. TextsAt(x, "Wait") = sd
  <2>1. LabelledAfter(x, "Wait", a + b + c, Len(sd))
    BY <1>2, <1>4, <1>7, <1>8, <1>9, <1>10 DEF LabelledAfter
  <2>2. SaysAfter(x, a + b + c, sd) BY <1>1, <1>5, ListFacts DEF Segment, SaysAfter
  <2>3. a + b + c + Len(sd) <= Len(x) BY <1>2, <1>3
  <2>4. QED BY <1>1, <1>6, <2>1, <2>2, <2>3, SegmentIsRead
<1>15. QED BY <1>11, <1>12, <1>13, <1>14

(* Annotations are what parameters say, one for one; and where a list of   *)
(* parameters stands in another.                                           *)
LabelledBy(x, ann) ==
    \A i \in DOMAIN x : ann[i].label = CriticalLabel[x[i].kind] /\ ann[i].text = x[i].text
PartAt(x, l, q) == \A i \in 1..Len(q) : l + i \in DOMAIN x /\ x[l + i] = q[i]

(* Parameters of a kind become annotations of its label. *)
LEMMA PartIsASegment ==
    ASSUME NEW x, NEW ann, LabelledBy(x, ann), NEW l \in Nat, NEW q, NEW kind, NEW s,
           OfKind(q, kind, s), PartAt(x, l, q)
    PROVE  Segment(ann, CriticalLabel[kind], l, s)
BY DEF OfKind, PartAt, LabelledBy, Segment

LEMMA FourParts ==
    ASSUME NEW a, IsList(a), NEW b, IsList(b), NEW c, IsList(c), NEW d, IsList(d),
           NEW x, AreJoinedIn(x, a, b, c, d)
    PROVE  /\ PartAt(x, 0, a) /\ PartAt(x, Len(a), b) /\ PartAt(x, Len(a) + Len(b), c)
           /\ PartAt(x, Len(a) + Len(b) + Len(c), d)
<1>1. PICK la \in Nat, lb \in Nat, lc \in Nat, ld \in Nat :
          Len(a) = la /\ Len(b) = lb /\ Len(c) = lc /\ Len(d) = ld
  BY ListFacts
<1>2. /\ IsList(x) /\ Len(x) = Len(a) + Len(b) + Len(c) + Len(d)
      /\ \A i \in 1..Len(a) : x[i] = a[i]
      /\ \A i \in 1..Len(b) : x[Len(a) + i] = b[i]
      /\ \A i \in 1..Len(c) : x[Len(a) + Len(b) + i] = c[i]
      /\ \A i \in 1..Len(d) : x[Len(a) + Len(b) + Len(c) + i] = d[i]
  BY DEF AreJoinedIn
<1>3. DOMAIN x = 1..la + lb + lc + ld BY <1>1, <1>2, ListFacts
<1>4. QED BY <1>1, <1>2, <1>3 DEF PartAt

(* A unit's annotations read label by label. *)
LEMMA AnnotationsAreRead ==
    ASSUME NEW step, IsInstructionStep(step), NEW ann, ann = AnnotationsOf(step)
    PROVE  /\ TextsAt(ann, "Time") = TimesSaidBy(step.durations)
           /\ TextsAt(ann, "Temperature") = WordingsIn(step.temperatures)
           /\ TextsAt(ann, "Done when") = WordingsIn(step.donenessCues)
           /\ TextsAt(ann, "Wait") = WordingsIn(step.waitCues)
<1> DEFINE x == CriticalOf(step)  a == DurationsOf(step)
           b == CuesOf(step, step.temperatures, "temperature", "stepTemperature")
           c == CuesOf(step, step.donenessCues, "doneness", "stepDoneness")
           d == CuesOf(step, step.waitCues, "wait", "stepWait")
           sa == TimesSaidBy(step.durations)  sb == WordingsIn(step.temperatures)
           sc == WordingsIn(step.donenessCues)  sd == WordingsIn(step.waitCues)
<1>1. /\ IsList(step.durations) /\ IsList(step.temperatures)
      /\ IsList(step.donenessCues) /\ IsList(step.waitCues)
  BY DEF IsInstructionStep, ListOf
<1>2. OfKind(a, "duration", sa) BY <1>1, DurationsAreOfKind
<1>3. OfKind(b, "temperature", sb) BY <1>1, CuesAreOfKind
<1>4. OfKind(c, "doneness", sc) BY <1>1, CuesAreOfKind
<1>5. OfKind(d, "wait", sd) BY <1>1, CuesAreOfKind
<1>6. x = FourOf(a, b, c, d) BY CriticalIsJoined DEF FourOf
<1>7. ann = [i \in DOMAIN x |-> ann[i]] BY DEF AnnotationsOf
<1>8. LabelledBy(x, ann) BY DEF AnnotationsOf, LabelledBy
<1> HIDE DEF x, a, b, c, d, sa, sb, sc, sd
<1>9. /\ IsList(a) /\ IsList(b) /\ IsList(c) /\ IsList(d)
      /\ Len(sa) = Len(a) /\ Len(sb) = Len(b) /\ Len(sc) = Len(c) /\ Len(sd) = Len(d)
  BY <1>2, <1>3, <1>4, <1>5 DEF OfKind
<1>10. AreJoinedIn(x, a, b, c, d) BY <1>6, <1>9, FourJoined
<1>11. /\ PartAt(x, 0, a) /\ PartAt(x, Len(a), b) /\ PartAt(x, Len(a) + Len(b), c)
       /\ PartAt(x, Len(a) + Len(b) + Len(c), d)
  BY <1>9, <1>10, FourParts
<1>12. /\ 0 \in Nat /\ Len(a) \in Nat /\ Len(a) + Len(b) \in Nat /\ Len(a) + Len(b) + Len(c) \in Nat
  BY <1>9, ListFacts
<1>13. /\ CriticalLabel["duration"] = "Time" /\ CriticalLabel["temperature"] = "Temperature"
       /\ CriticalLabel["doneness"] = "Done when" /\ CriticalLabel["wait"] = "Wait"
  BY DEF CriticalLabel
<1>14. IsList(ann) /\ Len(ann) = Len(a) + Len(b) + Len(c) + Len(d)
  BY <1>7, <1>10, MappedIs DEF AreJoinedIn
<1>15. Segment(ann, "Time", 0, sa) BY <1>2, <1>8, <1>11, <1>12, <1>13, PartIsASegment
<1>16. Segment(ann, "Temperature", Len(sa), sb) BY <1>3, <1>8, <1>9, <1>11, <1>12, <1>13, PartIsASegment
<1>17. Segment(ann, "Done when", Len(sa) + Len(sb), sc)
  BY <1>4, <1>8, <1>9, <1>11, <1>12, <1>13, PartIsASegment
<1>18. Segment(ann, "Wait", Len(sa) + Len(sb) + Len(sc), sd)
  BY <1>5, <1>8, <1>9, <1>11, <1>12, <1>13, PartIsASegment
<1>19. QED BY <1>9, <1>14, <1>15, <1>16, <1>17, <1>18, FourSegments DEF sa, sb, sc, sd, AnnotatedBy

(* How many rows of a unit's block are of a kind, and how many uses.       *)
RowPlaces(o, w) == {i \in 1..Len(o) : o[i].row = w}
RowCount(o, w) == Cardinality(RowPlaces(o, w))
UsePlaces(uses, usage) == {i \in 1..Len(uses) : uses[i].usage = usage}
UseCount(uses, usage) == Cardinality(UsePlaces(uses, usage))

(* Rows of lists joined add up; none of them of another kind. *)
LEMMA RowCountAdds ==
    ASSUME NEW a, IsList(a), NEW b, IsList(b), NEW w
    PROVE  RowCount(a \o b, w) = RowCount(a, w) + RowCount(b, w)
<1> DEFINE l == Len(a)  m == Len(b)  x == a \o b
           A == RowPlaces(a, w)  B == RowPlaces(b, w)  C == RowPlaces(x, w)
<1>1. l \in Nat /\ m \in Nat BY ListFacts
<1>2. /\ Len(x) = l + m
      /\ \A i \in 1..l : x[i] = a[i]
      /\ \A i \in 1..m : x[l + i] = b[i]
  BY Concat
<1>3. A \subseteq 1..l /\ B \subseteq 1..m BY DEF RowPlaces
<1>4. \A i : i \in A <=> i \in 1..l /\ a[i].row = w BY DEF RowPlaces
<1>5. \A i : i \in B <=> i \in 1..m /\ b[i].row = w BY DEF RowPlaces
<1>6. \A i : i \in C <=> i \in 1..l + m /\ x[i].row = w BY <1>2 DEF RowPlaces
<1> HIDE DEF A, B, C, l, m, x
<1>7. C = Follow(A, l, B)
  <2>1. ASSUME NEW i \in C PROVE i \in A \cup Behind(l, B)
    <3>1. i \in 1..l + m /\ x[i].row = w BY <1>6
    <3>2. CASE i \in 1..l BY <1>2, <1>4, <3>1, <3>2
    <3>3. CASE i \notin 1..l BY <1>1, <1>2, <1>5, <3>1, <3>3 DEF Behind
    <3>4. QED BY <3>2, <3>3
  <2>2. ASSUME NEW i \in A PROVE i \in C BY <1>1, <1>2, <1>4, <1>6
  <2>3. ASSUME NEW j \in B PROVE l + j \in C BY <1>1, <1>2, <1>5, <1>6
  <2>4. QED BY <2>1, <2>2, <2>3 DEF Follow, Behind
<1>8. QED BY <1>1, <1>3, <1>7, CountsAdd, PlacesAreFinite DEF A, B, C, x, RowCount

LEMMA RowsOfNoneOther ==
    ASSUME NEW a, IsList(a), NEW w, \A i \in DOMAIN a : a[i].row # w
    PROVE  RowCount(a, w) = 0
BY ListFacts, FS_EmptySet DEF RowPlaces, RowCount

(* Of what is picked, as many are of a kind as of what it is picked from,  *)
(* where all of the kind are picked.                                       *)
Marks(t, seq, P, A, B) ==
    /\ A \subseteq DOMAIN t /\ B \subseteq DOMAIN seq /\ B \subseteq P
    /\ \A k \in DOMAIN t : \A i \in DOMAIN seq : i \in P /\ t[k] = seq[i] => (k \in A <=> i \in B)

LEMMA MarkedAreAsMany ==
    ASSUME NEW seq, IsList(seq), NEW P, NEW t, t = Picked(seq, P), NEW A, NEW B, Marks(t, seq, P, A, B)
    PROVE  Cardinality(A) = Cardinality(B)
BY KeptInOrder, PlacesAreFinite, PairedOff DEF Marks, KeptFrom

(* The rows of a unit's amounts, portions and reserved amounts. *)
AmountRows(seq) == [k \in DOMAIN seq |-> AmountRow(seq[k])]
SplitRows(seq) == [k \in DOMAIN seq |-> SplitRow(seq[k])]
ReservedRows(seq) == [k \in DOMAIN seq |-> ReservedRow(seq[k])]

(* Each list of rows has its own kind, a row for each use of that kind. *)
LEMMA AmountRowsAre ==
    ASSUME NEW targets, IsList(targets), NEW rows, rows = AmountRows(Amounts(targets))
    PROVE  IsList(rows) /\ \A k \in DOMAIN rows : rows[k].row = "amount"
<1> DEFINE a == Amounts(targets)
           Q == {i \in DOMAIN targets : targets[i].use.usage \notin Splits \cup {"reserve_for_later"}}
           t == Picked(targets, Q)
<1>1. t = Picked(targets, Q) OBVIOUS
<1>2. a = [k \in DOMAIN t |-> a[k]] BY DEF Amounts, Each, Filtered
<1>3. rows = [k \in DOMAIN a |-> rows[k]] /\ \A k \in DOMAIN a : rows[k].row = "amount"
  BY DEF AmountRows, AmountRow
<1> HIDE DEF a, Q, t
<1>4. IsList(t) BY <1>1, KeptInOrder
<1>5. IsList(a) BY <1>2, <1>4, MappedIs
<1>6. QED BY <1>3, <1>5, MappedIs

LEMMA SplitRowsAre ==
    ASSUME NEW targets, IsList(targets), NEW rows, rows = SplitRows(SplitAmounts(targets)), NEW uses,
           Len(uses) = Len(targets), \A i \in 1..Len(uses) : targets[i].use = uses[i]
    PROVE  /\ IsList(rows)
           /\ RowCount(rows, "reserved") = 0
           /\ RowCount(rows, "remaining") = UseCount(uses, "use_remaining")
           /\ RowCount(rows, "part_of") = UseCount(uses, "use_partial_unspecified")
           /\ SplitAmounts(targets) = <<>> => rows = <<>>
<1> DEFINE a == SplitAmounts(targets)
           Q == {i \in DOMAIN targets : targets[i].use.usage \in Splits}
           t == Picked(targets, Q)
           Portion(k) == IF t[k].use.usage = "use_remaining" THEN "remaining" ELSE "part_of"
<1>1. t = Picked(targets, Q) OBVIOUS
<1>2. \A i : i \in Q <=> i \in DOMAIN targets /\ targets[i].use.usage \in Splits OBVIOUS
<1>3. /\ a = [k \in DOMAIN t |-> a[k]]
      /\ \A k \in DOMAIN t : a[k].portion = Portion(k)
  BY DEF SplitAmounts, Each, Filtered
<1>4. rows = [k \in DOMAIN a |-> rows[k]] /\ \A k \in DOMAIN a : rows[k].row = a[k].portion
  BY DEF SplitRows, SplitRow
<1>5. DOMAIN targets = 1..Len(uses) BY ListFacts
<1> HIDE DEF a, Q, t
<1>6. IsList(t) /\ DOMAIN t = 1..Len(t) BY <1>1, KeptInOrder
<1>7. IsList(a) /\ DOMAIN a = 1..Len(t) /\ Len(a) = Len(t) BY <1>3, <1>6, MappedIs
<1>8. IsList(rows) /\ DOMAIN rows = 1..Len(t) /\ Len(rows) = Len(t) BY <1>4, <1>7, MappedIs
<1>9. \A k \in DOMAIN t : rows[k].row = Portion(k) BY <1>3, <1>4, <1>6, <1>7
<1>10. \A i \in DOMAIN targets : targets[i].use = uses[i] BY <1>5
<1>11. RowCount(rows, "remaining") = UseCount(uses, "use_remaining")
  <2> DEFINE A == RowPlaces(rows, "remaining")  B == UsePlaces(uses, "use_remaining")
  <2>1. \A k : k \in A <=> k \in DOMAIN t /\ t[k].use.usage = "use_remaining"
    BY <1>6, <1>8, <1>9 DEF RowPlaces
  <2> HIDE DEF A, B
  <2>2. QED
    BY <1>1, <1>2, <1>5, <1>10, <2>1, MarkedAreAsMany DEF A, B, RowCount, UseCount, Marks, Splits,
       UsePlaces
<1>12. RowCount(rows, "part_of") = UseCount(uses, "use_partial_unspecified")
  <2> DEFINE A == RowPlaces(rows, "part_of")  B == UsePlaces(uses, "use_partial_unspecified")
  <2>1. \A i : i \in B <=> i \in DOMAIN targets /\ targets[i].use.usage = "use_partial_unspecified"
    BY <1>5, <1>10 DEF UsePlaces
  <2> HIDE DEF A, B
  <2>2. QED
    BY <1>1, <1>2, <1>6, <1>8, <1>9, <2>1, MarkedAreAsMany DEF A, B, RowCount, UseCount, Marks, Splits,
       RowPlaces
<1>13. ASSUME a = <<>> PROVE rows = <<>> BY <1>7, <1>8, <1>13, ListFacts
<1>14. QED BY <1>6, <1>8, <1>9, <1>11, <1>12, <1>13, RowsOfNoneOther DEF a

LEMMA ReservedRowsAre ==
    ASSUME NEW targets, IsList(targets), NEW rows, rows = ReservedRows(Reserved(targets)), NEW uses,
           Len(uses) = Len(targets), \A i \in 1..Len(uses) : targets[i].use = uses[i]
    PROVE  /\ IsList(rows)
           /\ \A k \in DOMAIN rows : rows[k].row = "reserved"
           /\ RowCount(rows, "reserved") = UseCount(uses, "reserve_for_later")
           /\ Reserved(targets) = <<>> => rows = <<>>
<1> DEFINE a == Reserved(targets)
           Q == {i \in DOMAIN targets : targets[i].use.usage = "reserve_for_later"}
           t == Picked(targets, Q)
<1>1. t = Picked(targets, Q) OBVIOUS
<1>2. \A i : i \in Q <=> i \in DOMAIN targets /\ targets[i].use.usage = "reserve_for_later" OBVIOUS
<1>3. a = [k \in DOMAIN t |-> a[k]] BY DEF Reserved, Each, Filtered
<1>4. rows = [k \in DOMAIN a |-> rows[k]] /\ \A k \in DOMAIN a : rows[k].row = "reserved"
  BY DEF ReservedRows, ReservedRow
<1> HIDE DEF a, Q, t
<1>5. IsList(t) /\ DOMAIN t = 1..Len(t) BY <1>1, KeptInOrder
<1>6. IsList(a) /\ DOMAIN a = 1..Len(t) /\ Len(a) = Len(t) BY <1>3, <1>5, MappedIs
<1>7. IsList(rows) /\ DOMAIN rows = 1..Len(t) /\ Len(rows) = Len(t) BY <1>4, <1>6, MappedIs
<1>8. \A k \in DOMAIN rows : rows[k].row = "reserved" BY <1>4, <1>6, <1>7
<1>9. RowCount(rows, "reserved") = UseCount(uses, "reserve_for_later")
  <2> DEFINE A == RowPlaces(rows, "reserved")  B == UsePlaces(uses, "reserve_for_later")
  <2>1. \A k : k \in A <=> k \in DOMAIN t BY <1>5, <1>7, <1>8 DEF RowPlaces
  <2> HIDE DEF A, B
  <2>2. QED
    BY <1>1, <1>2, <2>1, MarkedAreAsMany, ListFacts DEF A, B, RowCount, UseCount, Marks, UsePlaces
<1>10. ASSUME a = <<>> PROVE rows = <<>> BY <1>6, <1>7, <1>10, ListFacts
<1>11. QED BY <1>7, <1>8, <1>9, <1>10 DEF a

(* A unit's item, and the block above it: the rows of its amounts, of its  *)
(* portions and of what it sets aside, or none of them.                    *)
BlockRows(unit) ==
    AmountRows(unit.amounts) \o SplitRows(unit.splits) \o ReservedRows(unit.reserved)

(* The fields of a unit as it is shown. *)
LEMMA ItemOfUnit ==
    ASSUME NEW unit, NEW item, item = UnitItem(unit)
    PROVE  /\ item.action = unit.actionText /\ item.makes = unit.produces
           /\ item.annotations = [i \in DOMAIN unit.critical |->
                  [label |-> CriticalLabel[unit.critical[i].kind], text |-> unit.critical[i].text]]
           /\ UnitNeedsItsAmountBlock(unit) => item.nowYouNeed = BlockRows(unit)
           /\ ~UnitNeedsItsAmountBlock(unit) =>
                  item.nowYouNeed = <<>> /\ unit.splits = <<>> /\ unit.reserved = <<>>
BY DEF UnitItem, Each, BlockRows, AmountRows, SplitRows, ReservedRows, UnitNeedsItsAmountBlock

(* A unit's rows are its step's uses: a portion is seen, and as one.       *)
RowsAreUses(rows, uses) ==
    /\ IsList(rows)
    /\ RowCount(rows, "part_of") = UseCount(uses, "use_partial_unspecified")
    /\ RowCount(rows, "remaining") = UseCount(uses, "use_remaining")
    /\ RowCount(rows, "reserved") = UseCount(uses, "reserve_for_later")

(* Where there is no block there is no row. *)
LEMMA NoRows == \A w : RowCount(<<>>, w) = 0
BY NoneIsAList, RowsOfNoneOther

(* A block shows every portion, and what is set aside. *)
LEMMA RowsOfUnit ==
    ASSUME NEW recipe, NEW uses, NEW targets, AreAimed(recipe, uses, targets),
           NEW unit, unit.amounts = Amounts(targets), unit.splits = SplitAmounts(targets),
           unit.reserved = Reserved(targets), NEW rows,
           UnitNeedsItsAmountBlock(unit) => rows = BlockRows(unit),
           ~UnitNeedsItsAmountBlock(unit) => rows = <<>> /\ unit.splits = <<>> /\ unit.reserved = <<>>
    PROVE  RowsAreUses(rows, uses)
<1> DEFINE a == AmountRows(unit.amounts)  s == SplitRows(unit.splits)  r == ReservedRows(unit.reserved)
<1>1. IsList(targets) /\ Len(uses) = Len(targets) /\ \A i \in 1..Len(uses) : targets[i].use = uses[i]
  BY DEF AreAimed, IsAimed
<1>2. a = AmountRows(Amounts(targets)) /\ s = SplitRows(SplitAmounts(targets))
      /\ r = ReservedRows(Reserved(targets)) /\ BlockRows(unit) = a \o s \o r
  BY DEF BlockRows
<1> HIDE DEF a, s, r
<1>3. IsList(a) /\ \A k \in DOMAIN a : a[k].row = "amount" BY <1>1, <1>2, AmountRowsAre
<1>4. IsList(s) BY <1>1, <1>2, SplitRowsAre
<1>5. RowCount(s, "remaining") = UseCount(uses, "use_remaining") BY <1>1, <1>2, SplitRowsAre
<1>6. RowCount(s, "part_of") = UseCount(uses, "use_partial_unspecified") BY <1>1, <1>2, SplitRowsAre
<1>7. IsList(r) BY <1>1, <1>2, ReservedRowsAre
<1>8. RowCount(r, "reserved") = UseCount(uses, "reserve_for_later") BY <1>1, <1>2, ReservedRowsAre
<1>9. CASE UnitNeedsItsAmountBlock(unit)
  <2>1. rows = a \o s \o r BY <1>2, <1>9
  <2>2. ASSUME NEW w \in {"part_of", "remaining", "reserved"} PROVE RowCount(a, w) = 0
    BY <1>3, RowsOfNoneOther
  <2>3. ASSUME NEW w \in {"part_of", "remaining"} PROVE RowCount(r, w) = 0
    BY <1>1, <1>2, <1>7, RowsOfNoneOther, ReservedRowsAre
  <2>4. IsList(a \o s) BY <1>3, <1>4, Concat
  <2>5. IsList(rows) BY <1>7, <2>1, <2>4, Concat
  <2>6. \A w : RowCount(rows, w) = RowCount(a \o s, w) + RowCount(r, w) BY <1>7, <2>1, <2>4, RowCountAdds
  <2>7. \A w : RowCount(a \o s, w) = RowCount(a, w) + RowCount(s, w) BY <1>3, <1>4, RowCountAdds
  <2>8. /\ UseCount(uses, "use_partial_unspecified") \in Nat /\ UseCount(uses, "use_remaining") \in Nat
        /\ UseCount(uses, "reserve_for_later") \in Nat
    BY PlacesAreFinite DEF AreAimed, UsePlaces, UseCount
  <2>9. QED
    BY <1>1, <1>2, <1>5, <1>6, <1>8, <2>2, <2>3, <2>5, <2>6, <2>7, <2>8, SplitRowsAre DEF RowsAreUses
<1>10. CASE ~UnitNeedsItsAmountBlock(unit)
  BY <1>1, <1>2, <1>4, <1>5, <1>6, <1>8, <1>10, SplitRowsAre, ReservedRowsAre DEF RowsAreUses
<1>11. QED BY <1>9, <1>10

(* What the cooking view shows of a step.                                  *)
IsUnitOf(recipe, step, item) ==
    /\ item.action = step.normalizedActionText /\ item.makes = ProductsOf(recipe, step)
    /\ item.annotations = AnnotationsOf(step)
    /\ RowsAreUses(item.nowYouNeed, step.ingredientUses \o step.componentUses)

(* A unit of a step is shown as that step. *)
LEMMA UnitIsShown ==
    ASSUME NEW recipe, IsCanonicalRecipe(recipe), NEW step, IsInstructionStep(step),
           UsesAreNamed(recipe, step), NEW n, NEW sectionTitle,
           NEW item, item = UnitItem(UnitOf(recipe, n, step, sectionTitle))
    PROVE  IsUnitOf(recipe, step, item)
<1> DEFINE unit == UnitOf(recipe, n, step, sectionTitle)  targets == Targets(recipe, step)
           uses == step.ingredientUses \o step.componentUses  rows == item.nowYouNeed
<1>1. /\ unit.actionText = step.normalizedActionText /\ unit.critical = CriticalOf(step)
      /\ unit.produces = ProductsOf(recipe, step)
  BY DEF UnitOf, Each, ProductsOf
<1>2. /\ unit.amounts = Amounts(targets) /\ unit.splits = SplitAmounts(targets)
      /\ unit.reserved = Reserved(targets)
  BY DEF UnitOf
<1>3. item = UnitItem(unit) OBVIOUS
<1>4. targets = Targets(recipe, step) /\ uses = step.ingredientUses \o step.componentUses OBVIOUS
<1> HIDE DEF unit, targets, uses
<1>5. UnitNeedsItsAmountBlock(unit) => rows = BlockRows(unit) BY <1>3, ItemOfUnit
<1>6. ~UnitNeedsItsAmountBlock(unit) => rows = <<>> /\ unit.splits = <<>> /\ unit.reserved = <<>>
  BY <1>3, ItemOfUnit
<1> HIDE DEF rows
<1>7. RowsAreUses(rows, uses) BY <1>2, <1>4, <1>5, <1>6, RowsOfUnit, UsesAreAimed
<1>8. QED BY <1>1, <1>3, <1>4, <1>7, ItemOfUnit DEF IsUnitOf, rows, AnnotationsOf

-------------------------------------------------------------------------------
(* What is said of the recipe as a whole: the title, its signals, the      *)
(* picture; and what is fetched and started.                               *)

(* What a page says next to the title, in three stretches. *)
YieldsSaid(recipe) == [i \in DOMAIN recipe.yields |-> [label |-> "", text |-> recipe.yields[i].sourceText]]
TimesSaid(recipe) == [i \in DOMAIN recipe.times |->
    [label |-> OneOf(recipe.times[i].sourceLabel, recipe.times[i].type),
     text |-> recipe.times[i].durationExpression.sourceText]]
TagsSaid(recipe) == [i \in DOMAIN recipe.sourceClassifications |->
    [label |-> "tag", text |-> recipe.sourceClassifications[i].sourceText]]

(* The page's signals are those three, joined. *)
LEMMA SignalsAre ==
    ASSUME NEW recipe, NEW served, NEW pictureSource
    PROVE  Signals(ToRecipeView(recipe, served, pictureSource)) =
               YieldsSaid(recipe) \o TimesSaid(recipe) \o TagsSaid(recipe)
<1> DEFINE view == ToRecipeView(recipe, served, pictureSource)
<1>1. view.times = TimesSaid(recipe) BY DEF ToRecipeView, Each, Wording, TimesSaid
<1>2. view.classifications =
          [i \in DOMAIN recipe.sourceClassifications |-> recipe.sourceClassifications[i].sourceText]
  BY DEF ToRecipeView, Each, Wording
<1> HIDE DEF view
<1>3. QED BY <1>1, <1>2 DEF view, Signals, Each, YieldsSaid, TagsSaid, ToRecipeView, Wording

(* Each element of two lists is one of theirs joined, and the other way.   *)
AllIn(p, x) == \A i \in DOMAIN p : \E k \in DOMAIN x : x[k] = p[i]
AllOfTwo(x, p, q) ==
    \A k \in DOMAIN x : (\E i \in DOMAIN p : x[k] = p[i]) \/ (\E i \in DOMAIN q : x[k] = q[i])

(* Each element of a list is one of three. *)
AllOfThree(x, a, b, c) ==
    \A k \in DOMAIN x : \/ \E i \in DOMAIN a : x[k] = a[i]
                        \/ \E i \in DOMAIN b : x[k] = b[i]
                        \/ \E i \in DOMAIN c : x[k] = c[i]

(* Joining two lists, and three. *)
LEMMA JoinedElements ==
    ASSUME NEW p, IsList(p), NEW q, IsList(q), NEW x, x = p \o q
    PROVE  IsList(x) /\ AllIn(p, x) /\ AllIn(q, x) /\ AllOfTwo(x, p, q)
<1>1. /\ Len(p) \in Nat /\ Len(q) \in Nat /\ DOMAIN p = 1..Len(p) /\ DOMAIN q = 1..Len(q)
  BY ListFacts
<1>2. /\ IsList(x) /\ DOMAIN x = 1..Len(p) + Len(q)
      /\ \A i \in 1..Len(p) : x[i] = p[i]
      /\ \A i \in 1..Len(q) : x[Len(p) + i] = q[i]
      /\ \A i \in Len(p) + 1..Len(p) + Len(q) : x[i] = q[i - Len(p)]
  BY Concat
<1>3. ASSUME NEW i \in DOMAIN p PROVE \E k \in DOMAIN x : x[k] = p[i] BY <1>1, <1>2
<1>4. ASSUME NEW i \in DOMAIN q PROVE \E k \in DOMAIN x : x[k] = q[i]
  <2>1. Len(p) + i \in DOMAIN x /\ x[Len(p) + i] = q[i] BY <1>1, <1>2
  <2>2. QED BY <2>1
<1>5. ASSUME NEW k \in DOMAIN x
      PROVE  (\E i \in DOMAIN p : x[k] = p[i]) \/ (\E i \in DOMAIN q : x[k] = q[i]) BY <1>1, <1>2
<1>6. QED BY <1>2, <1>3, <1>4, <1>5 DEF AllIn, AllOfTwo

LEMMA ThreeJoined ==
    ASSUME NEW a, IsList(a), NEW b, IsList(b), NEW c, IsList(c), NEW x, x = a \o b \o c
    PROVE  AllIn(a, x) /\ AllIn(b, x) /\ AllIn(c, x) /\ AllOfThree(x, a, b, c)
<1> DEFINE y == a \o b
<1>1. y = a \o b /\ x = y \o c OBVIOUS
<1> HIDE DEF y
<1>2. IsList(y) /\ AllIn(a, y) /\ AllIn(b, y) /\ AllOfTwo(y, a, b) BY <1>1, JoinedElements
<1>3. IsList(x) /\ AllIn(y, x) /\ AllIn(c, x) /\ AllOfTwo(x, y, c)
  <2>1. IsList(y) /\ IsList(c) /\ x = y \o c BY <1>1, <1>2
  <2>2. QED BY ONLY <2>1, JoinedElements
<1>4. ASSUME NEW p, AllIn(p, y) PROVE AllIn(p, x) BY <1>3, <1>4 DEF AllIn
<1>5. ASSUME NEW k \in DOMAIN x
      PROVE  \/ \E i \in DOMAIN a : x[k] = a[i]
             \/ \E i \in DOMAIN b : x[k] = b[i]
             \/ \E i \in DOMAIN c : x[k] = c[i] BY <1>2, <1>3 DEF AllOfTwo
<1>6. QED BY <1>2, <1>3, <1>4, <1>5 DEF AllOfThree

(* A card's few signals, and what each is. *)
FirstYield(recipe) == FirstOf([i \in DOMAIN recipe.yields |-> recipe.yields[i].sourceText])
TotalTimes(recipe) == Picked(recipe.times, {i \in DOMAIN recipe.times : recipe.times[i].type = "total"})
FirstTotal(recipe) ==
    FirstOf([k \in DOMAIN TotalTimes(recipe) |-> TotalTimes(recipe)[k].durationExpression.sourceText])
TagsOf(recipe) == WordingsIn(recipe.sourceClassifications)

(* What a card is made of. *)
LEMMA CardIs ==
    ASSUME NEW recipe, NEW served, NEW card, card = LibraryCard(recipe, served)
    PROVE  /\ card.title = TitleLine(TitleView(recipe))
           /\ card.picture <=> Given(HeroImageOf(recipe, served))
           /\ card.attribution = recipe.authors \o AttributionOf(recipe)
           /\ card.signals = FirstYield(recipe) \o FirstTotal(recipe) \o TagsOf(recipe)
<1> DEFINE view == ToLibraryCardView(recipe, served)
<1> HIDE DEF view
<1>1. QED
  BY DEF LibraryCard, AttributionLine, view, ToLibraryCardView, FirstYield, Each, Wording, FirstTotal,
     TotalTimes, Filtered, TagsOf, WordingsIn

(* The first of a list is one of it. *)
LEMMA FirstIsOne ==
    ASSUME NEW s, IsList(s)
    PROVE  IsList(FirstOf(s)) /\ \A k \in DOMAIN FirstOf(s) : \E i \in DOMAIN s : FirstOf(s)[k] = s[i]
<1>1. CASE s = <<>> BY <1>1, NoneIsAList DEF FirstOf
<1>2. CASE s # <<>> BY <1>2, ListFacts, AFunctionIsAList DEF FirstOf
<1>3. QED BY <1>1, <1>2

(* Whatever the card says next to its title, the page says.                *)
SignalTexts(signals) == {signals[i].text : i \in DOMAIN signals}

(* Each signal of the card is a text of the page. *)
LEMMA CardSaysNoMore ==
    ASSUME NEW recipe, IsCanonicalRecipe(recipe),
           NEW few, few = FirstYield(recipe) \o FirstTotal(recipe) \o TagsOf(recipe),
           NEW all, all = YieldsSaid(recipe) \o TimesSaid(recipe) \o TagsSaid(recipe)
    PROVE  ToSet(few) \subseteq SignalTexts(all)
<1> DEFINE yields == recipe.yields  times == recipe.times  tags == recipe.sourceClassifications
           ys == YieldsSaid(recipe)  ts == TimesSaid(recipe)  cs == TagsSaid(recipe)
           y == [i \in DOMAIN yields |-> yields[i].sourceText]
           totals == TotalTimes(recipe)
           t == [k \in DOMAIN totals |-> totals[k].durationExpression.sourceText]
           a == FirstYield(recipe)  b == FirstTotal(recipe)  c == TagsOf(recipe)
<1>1. IsList(yields) /\ IsList(times) /\ IsList(tags) BY DEF IsCanonicalRecipe, ListOf
<1>2. /\ ys = [i \in DOMAIN yields |-> ys[i]] /\ DOMAIN ys = DOMAIN yields
      /\ \A i \in DOMAIN yields : ys[i].text = yields[i].sourceText
  BY DEF YieldsSaid
<1>3. /\ ts = [i \in DOMAIN times |-> ts[i]] /\ DOMAIN ts = DOMAIN times
      /\ \A i \in DOMAIN times : ts[i].text = times[i].durationExpression.sourceText
  BY DEF TimesSaid
<1>4. /\ cs = [i \in DOMAIN tags |-> cs[i]] /\ DOMAIN cs = DOMAIN tags
      /\ \A i \in DOMAIN tags : cs[i].text = tags[i].sourceText
  BY DEF TagsSaid
<1>5. /\ y = [i \in DOMAIN yields |-> y[i]] /\ DOMAIN y = DOMAIN yields
      /\ \A i \in DOMAIN yields : y[i] = yields[i].sourceText
  OBVIOUS
<1>6. /\ t = [k \in DOMAIN totals |-> t[k]] /\ DOMAIN t = DOMAIN totals
      /\ \A k \in DOMAIN totals : t[k] = totals[k].durationExpression.sourceText
  OBVIOUS
<1>7. /\ c = [i \in DOMAIN tags |-> c[i]] /\ DOMAIN c = DOMAIN tags
      /\ \A i \in DOMAIN tags : c[i] = tags[i].sourceText
  BY DEF TagsOf, WordingsIn
<1>8. totals = Picked(times, {i \in DOMAIN times : times[i].type = "total"}) BY DEF TotalTimes
<1>9. a = FirstOf(y) /\ b = FirstOf(t) BY DEF FirstYield, FirstTotal
<1>10. few = a \o b \o c /\ all = ys \o ts \o cs OBVIOUS
<1> HIDE DEF yields, times, tags, ys, ts, cs, y, totals, t, a, b, c
<1>11. IsList(totals) /\ \A k \in DOMAIN totals : \E i \in DOMAIN times : totals[k] = times[i]
  <2> DEFINE P == {i \in DOMAIN times : times[i].type = "total"}
  <2>1. totals = Picked(times, P) BY <1>8
  <2> HIDE DEF P
  <2>2. QED BY <1>1, <2>1, PickedElements
<1>12. IsList(ys) BY <1>1, <1>2, MappedIs
<1>13. IsList(ts) BY <1>1, <1>3, MappedIs
<1>14. IsList(cs) BY <1>1, <1>4, MappedIs
<1>15. IsList(y) BY <1>1, <1>5, MappedIs
<1>16. IsList(t) BY <1>6, <1>11, MappedIs
<1>17. IsList(c) BY <1>1, <1>7, MappedIs
<1>18. IsList(a) /\ \A k \in DOMAIN a : \E i \in DOMAIN y : a[k] = y[i] BY <1>9, <1>15, FirstIsOne
<1>19. IsList(b) /\ \A k \in DOMAIN b : \E i \in DOMAIN t : b[k] = t[i] BY <1>9, <1>16, FirstIsOne
<1>20. AllIn(ys, all) /\ AllIn(ts, all) /\ AllIn(cs, all) BY <1>10, <1>12, <1>13, <1>14, ThreeJoined
<1>21. ASSUME NEW k \in DOMAIN a PROVE a[k] \in SignalTexts(all)
  <2>1. PICK i \in DOMAIN yields : a[k] = yields[i].sourceText BY <1>5, <1>18
  <2>2. PICK j \in DOMAIN all : all[j] = ys[i] BY <1>2, <1>20 DEF AllIn
  <2>3. QED BY <1>2, <2>1, <2>2 DEF SignalTexts
<1>22. ASSUME NEW k \in DOMAIN b PROVE b[k] \in SignalTexts(all)
  <2>1. PICK m \in DOMAIN totals : b[k] = totals[m].durationExpression.sourceText BY <1>6, <1>19
  <2>2. PICK i \in DOMAIN times : totals[m] = times[i] BY <1>11
  <2>3. PICK j \in DOMAIN all : all[j] = ts[i] BY <1>3, <1>20 DEF AllIn
  <2>4. QED BY <1>3, <2>1, <2>2, <2>3 DEF SignalTexts
<1>23. ASSUME NEW k \in DOMAIN c PROVE c[k] \in SignalTexts(all)
  <2>1. PICK j \in DOMAIN all : all[j] = cs[k] BY <1>4, <1>7, <1>20 DEF AllIn
  <2>2. QED BY <1>4, <1>7, <2>1 DEF SignalTexts
<1>24. AllOfThree(few, a, b, c) BY <1>10, <1>17, <1>18, <1>19, ThreeJoined
<1>25. \A k \in DOMAIN few : few[k] \in SignalTexts(all) BY <1>21, <1>22, <1>23, <1>24 DEF AllOfThree
<1>26. QED BY <1>25 DEF ToSet

(* A picture is missing for its own reason.                                *)
LEMMA PictureIs ==
    ASSUME NEW recipe, NEW served, NEW pictureSource \in PictureSource,
           NEW p, p = PictureBlock(PictureOf(recipe, served, pictureSource))
    PROVE  /\ Given(HeroImageOf(recipe, served)) <=> p.state = "shown"
           /\ p.state = "absent" =>
                /\ p.sentence = NoPictureOfTheDish.not_served <=> Given(recipe.media.heroImage)
                /\ p.sentence = NoPictureOfTheDish.photographed_page =>
                       pictureSource = "photographed_page"
<1> DEFINE hero == recipe.media.heroImage  picture == PictureOf(recipe, served, pictureSource)
<1>1. CASE Given(HeroImageOf(recipe, served)) BY <1>1 DEF PictureOf, PictureBlock
<1>2. CASE ~Given(HeroImageOf(recipe, served))
  <2> DEFINE reason == IF Given(hero) THEN "not_served"
                       ELSE IF pictureSource = "photographed_page" THEN "photographed_page"
                       ELSE IF pictureSource = "not_photographed" THEN "none_kept" ELSE "source_unread"
  <2> HIDE DEF picture
  <2>1. p.state = "absent" /\ p.sentence = NoPictureOfTheDish[reason]
    BY <1>2 DEF PictureBlock, picture, PictureOf, PictureSource
  <2>2. CASE Given(hero) BY <1>2, <2>1, <2>2 DEF NoPictureOfTheDish
  <2>3. CASE ~Given(hero) BY <1>2, <2>1, <2>3 DEF NoPictureOfTheDish
  <2>4. QED BY <2>2, <2>3
<1>3. QED BY <1>1, <1>2

(* The units shown are the steps of the recipe, one for one. *)
LEMMA UnitsAreShown ==
    ASSUME NEW recipe, IsCanonicalRecipe(recipe), NEW steps, steps = Steps(recipe), IsTraceable(recipe),
           NEW units, units = UnitsFor(recipe), NEW items, items = [n \in DOMAIN units |-> UnitItem(units[n])]
    PROVE  /\ IsList(items) /\ Len(items) = Len(steps)
           /\ \A n \in DOMAIN steps : IsUnitOf(recipe, steps[n], items[n])
<1> DEFINE ordered == StepsWithSections(recipe)
<1>1. /\ IsList(ordered) /\ DOMAIN ordered = DOMAIN steps /\ Len(ordered) = Len(steps)
      /\ \A n \in DOMAIN steps : ordered[n].step = steps[n]
  BY SectionsKeepSteps
<1>2. /\ DOMAIN units = DOMAIN steps /\ units = [n \in DOMAIN ordered |-> units[n]]
      /\ \A n \in DOMAIN steps : units[n] = UnitOf(recipe, n, ordered[n].step, ordered[n].sectionTitle)
  BY <1>1 DEF UnitsFor
<1>3. items = [n \in DOMAIN units |-> items[n]] /\ \A n \in DOMAIN units : items[n] = UnitItem(units[n])
  OBVIOUS
<1> HIDE DEF ordered
<1>4. ASSUME NEW n \in DOMAIN steps PROVE IsUnitOf(recipe, steps[n], items[n])
  BY <1>1, <1>2, <1>3, UnitIsShown, StepsAreSteps DEF IsTraceable, ListOf, Every
<1>5. QED BY <1>1, <1>2, <1>3, <1>4, MappedIs

(* What is fetched is an ingredient of the page, with its amount or none.  *)
LEMMA FetchIsShown ==
    ASSUME NEW i
    PROVE  /\ AmountRow(FetchItem(i).amount).item = ItemShown(i).item
           /\ AmountRow(FetchItem(i).amount).amount \in {<<>>, ItemShown(i).amount}
<1> DEFINE a == FetchItem(i).amount
<1> HIDE DEF a
<1>1. QED BY DEF a, FetchItem, ItemShown, IngredientItem, IngredientView, AmountRow, ShownAmount

(* All that is fetched is on the page. *)
LEMMA PantryIsShown ==
    ASSUME NEW recipe, IsCanonicalRecipe(recipe), NEW suppress, NEW fetch, fetch = FetchedFor(recipe, suppress),
           NEW rows, rows = [k \in DOMAIN fetch |-> AmountRow(fetch[k].amount)],
           NEW shown, DOMAIN shown = DOMAIN Ingredients(recipe),
           \A i \in DOMAIN Ingredients(recipe) : shown[i] = ItemShown(Ingredients(recipe)[i])
    PROVE  \A k \in DOMAIN rows : \E i \in DOMAIN shown :
               rows[k].item = shown[i].item /\ rows[k].amount \in {<<>>, shown[i].amount}
<1> DEFINE pantry == Ingredients(recipe)
           P == {i \in DOMAIN pantry : ~(suppress /\ IsAtHandBasic(pantry[i]))}
           t == Picked(pantry, P)
<1>1. fetch = [k \in DOMAIN t |-> FetchItem(t[k])] BY DEF FetchedFor, Each, Filtered
<1>2. IsList(pantry) BY IngredientsAreIngredients DEF ListOf
<1>3. t = Picked(pantry, P) OBVIOUS
<1> HIDE DEF P
<1> HIDE DEF pantry, t
<1>4. \A k \in DOMAIN t : \E i \in DOMAIN pantry : t[k] = pantry[i] BY <1>2, <1>3, PickedElements
<1>5. ASSUME NEW k \in DOMAIN rows
      PROVE  \E i \in DOMAIN shown : rows[k].item = shown[i].item /\ rows[k].amount \in {<<>>, shown[i].amount}
  BY <1>1, <1>4, FetchIsShown DEF pantry
<1>6. QED BY <1>5

(* A cue is to be started before the first step, or a step does it itself. *)
CuesSeen(steps, block) ==
    \A n \in DOMAIN steps : \A c \in DOMAIN steps[n].prerequisiteCues :
        n >= 2 =>
          \/ \E k \in DOMAIN block :
                 block[k] = [text |-> steps[n].prerequisiteCues[c].sourceText, forStep |-> n]
          \/ LongWords[steps[n].prerequisiteCues[c].sourceText] \subseteq
                 Carries[steps[n].normalizedActionText]

(* Of a cue that no step does itself there is a line to start. *)
LEMMA CuesAreSeen ==
    ASSUME NEW steps, IsList(steps), \A n \in DOMAIN steps : IsInstructionStep(steps[n]),
           NEW plan, plan.startNow = StartNowOf(steps), NEW block, block = StartNowBlock(plan)
    PROVE  block # <<>> /\ CuesSeen(steps, block)
<1> DEFINE now == plan.startNow
<1>1. now = StartNowOf(steps) OBVIOUS
<1>2. /\ now # <<>> => block = [k \in DOMAIN now |-> [text |-> now[k].text, forStep |-> now[k].neededAtUnit]]
      /\ now = <<>> => block = <<[text |-> "nothing to start", forStep |-> 0]>>
  BY DEF StartNowBlock, Each
<1> HIDE DEF now
<1>3. IsList(now) /\ \E place : StartedAt(steps, now, place) BY <1>1, CuesAreStarted
<1>4. PICK place : StartedAt(steps, now, place) BY <1>3
<1>5. DOMAIN now = 1..Len(now) /\ Len(now) \in Nat /\ (now = <<>> <=> Len(now) = 0) BY <1>3, ListFacts
<1>6. block # <<>>
  <2>1. CASE now = <<>>
    <3>1. block = <<[text |-> "nothing to start", forStep |-> 0]>> BY <1>2, <2>1
    <3>2. QED BY ONLY <3>1
  <2>2. CASE now # <<>>
    <3>1. DOMAIN block = DOMAIN now BY <1>2, <2>2
    <3>2. QED BY <1>5, <2>2, <3>1, NoneIsAList
  <2>3. QED BY <2>1, <2>2
<1>7. ASSUME NEW n \in DOMAIN steps, NEW c \in DOMAIN steps[n].prerequisiteCues, n >= 2
      PROVE  \/ \E k \in DOMAIN block :
                    block[k] = [text |-> steps[n].prerequisiteCues[c].sourceText, forStep |-> n]
             \/ LongWords[steps[n].prerequisiteCues[c].sourceText] \subseteq
                    Carries[steps[n].normalizedActionText]
  <2>1. CASE c \in AdmittedAt(steps, n)
    <3>1. PICK k \in 1..Len(now) : place[k][1] = n /\ place[k][2] = c BY <1>4, <2>1 DEF StartedAt
    <3>2. now[k] = CueItem(steps, n, c) BY <1>4, <3>1 DEF StartedAt
    <3>3. now[k].text = steps[n].prerequisiteCues[c].sourceText /\ now[k].neededAtUnit = n
      BY <3>2 DEF CueItem
    <3>4. now # <<>> /\ k \in DOMAIN now BY <1>5, <3>1
    <3>5. k \in DOMAIN block
          /\ block[k] = [text |-> steps[n].prerequisiteCues[c].sourceText, forStep |-> n]
      BY <1>2, <3>3, <3>4
    <3>6. QED BY <3>5
  <2>2. CASE c \notin AdmittedAt(steps, n) BY <1>7, <2>2 DEF AdmittedAt, ProducedByItsOwnStep
  <2>3. QED BY <2>1, <2>2
<1>8. QED BY <1>6, <1>7 DEF CuesSeen

-------------------------------------------------------------------------------
(* The surfaces agree, step by step and as a whole.                        *)

(* The labels of what matters while a unit runs. *)
LEMMA CriticalLabels == \A label \in Range(CriticalLabel) : label \in {"Time", "Temperature", "Done when", "Wait"}
<1>1. /\ CriticalLabel["duration"] = "Time" /\ CriticalLabel["temperature"] = "Temperature"
      /\ CriticalLabel["doneness"] = "Done when" /\ CriticalLabel["wait"] = "Wait"
  BY DEF CriticalLabel
<1>2. QED BY <1>1 DEF Range, CriticalLabel

(* A unit and the page's step say the same under each label.               *)
SaysAsMuch(item, shown) ==
    /\ item.action = shown.text
    /\ \A label \in Range(CriticalLabel) :
           TextsAt(item.annotations, label) = ValuesAt(shown.annotations, label)
    /\ item.makes = ValuesAt(shown.annotations, "Produces")

(* A unit of a step says as much as the step as shown. *)
LEMMA UnitSaysAsMuch ==
    ASSUME NEW recipe, NEW step, IsInstructionStep(step), NEW shown, shown = StepShown(recipe, step),
           NEW item, IsUnitOf(recipe, step, item)
    PROVE  SaysAsMuch(item, shown)
<1> DEFINE a == item.annotations  b == shown.annotations
<1>1. shown.text = step.normalizedActionText /\ ValuesAt(b, "Produces") = ProductsOf(recipe, step)
  BY StepIsRead
<1>2. ValuesAt(b, "Time") = TimesSaidBy(step.durations) BY StepIsRead
<1>3. ValuesAt(b, "Temperature") = WordingsIn(step.temperatures) BY StepIsRead
<1>4. ValuesAt(b, "Wait") = WordingsIn(step.waitCues) BY StepIsRead
<1>5. ValuesAt(b, "Done when") = WordingsIn(step.donenessCues) BY StepIsRead
<1>6. /\ item.action = step.normalizedActionText /\ item.makes = ProductsOf(recipe, step)
      /\ a = AnnotationsOf(step)
  BY DEF IsUnitOf
<1> HIDE DEF a, b
<1>7. TextsAt(a, "Done when") = WordingsIn(step.donenessCues) BY <1>6, AnnotationsAreRead
<1>8. TextsAt(a, "Wait") = WordingsIn(step.waitCues) BY <1>6, AnnotationsAreRead
<1>9. ASSUME NEW label \in Range(CriticalLabel) PROVE TextsAt(a, label) = ValuesAt(b, label)
  BY <1>2, <1>3, <1>4, <1>5, <1>6, <1>7, <1>8, CriticalLabels, AnnotationsAreRead
<1>10. QED BY <1>1, <1>6, <1>9 DEF SaysAsMuch, a, b

(* Rows and uses counted by their places. *)
LEMMA RowsAreCounted ==
    ASSUME NEW o, IsList(o), NEW w
    PROVE  CountOf(o, LAMBDA r : r.row = w) = RowCount(o, w)
BY ListFacts DEF CountOf, RowCount, RowPlaces

LEMMA UsesAreCounted ==
    ASSUME NEW o, IsList(o), NEW w
    PROVE  CountOf(o, LAMBDA u : u.usage = w) = UseCount(o, w)
BY ListFacts DEF CountOf, UseCount, UsePlaces

(* The plan, and the cooking view made of it.                              *)
LEMMA CookingIs ==
    ASSUME NEW recipe, IsCanonicalRecipe(recipe), NEW plan, plan.title = TitleOf(recipe),
           NEW cooking, cooking = CookingPage(plan)
    PROVE  /\ cooking.heading = TitleLine(TitleView(recipe))
           /\ cooking.documentTitle = TitleLine(TitleView(recipe))
           /\ cooking.startNow = StartNowBlock(plan)
           /\ cooking.units = [n \in DOMAIN plan.units |-> UnitItem(plan.units[n])]
           /\ cooking.fetchPrepare = [k \in DOMAIN plan.fetchPrepare |-> AmountRow(plan.fetchPrepare[k].amount)]
BY DEF PlanTitleLine, TitleOf, TitleLine, TitleView, CookingPage, Each

(* A name is published exactly where the heading has one. *)
LEMMA NamesAgree ==
    ASSUME NEW recipe, NEW heading, heading = TitleView(recipe),
           NEW name, name = IF recipe.title.state = "from_source" THEN <<recipe.title.sourceText>> ELSE <<>>
    PROVE  name = IF heading.state = "from_source" THEN <<TitleLine(heading)>> ELSE <<>>
BY DEF TitleView, TitleLine

(* What a recipe's page, card and published form say of it as a whole.     *)
HeadersAgree(recipe, pictureSource, page, title, card, name) ==
    /\ card.title = title /\ title = TitleLine(page.heading)
    /\ name = IF page.heading.state = "from_source" THEN <<title>> ELSE <<>>
    /\ ToSet(card.signals) \subseteq SignalTexts(page.signals)
    /\ card.attribution = page.attribution
    /\ card.picture <=> page.picture.state = "shown"
    /\ page.picture.state = "absent" =>
           /\ page.picture.sentence = NoPictureOfTheDish.not_served <=> Given(recipe.media.heroImage)
           /\ page.picture.sentence = NoPictureOfTheDish.photographed_page =>
                  pictureSource = "photographed_page"

(* They agree for any recipe, whatever is served. *)
LEMMA HeadersDoAgree ==
    ASSUME NEW recipe, IsCanonicalRecipe(recipe), NEW served, NEW pictureSource \in PictureSource,
           NEW page, page = BodyOf(recipe, served, pictureSource),
           NEW title, title = TitleLine(TitleView(recipe)), NEW card, card = LibraryCard(recipe, served),
           NEW name, name = IF recipe.title.state = "from_source" THEN <<recipe.title.sourceText>> ELSE <<>>
    PROVE  HeadersAgree(recipe, pictureSource, page, title, card, name)
<1>1. /\ card.title = TitleLine(TitleView(recipe))
      /\ card.picture <=> Given(HeroImageOf(recipe, served))
      /\ card.attribution = recipe.authors \o AttributionOf(recipe)
      /\ card.signals = FirstYield(recipe) \o FirstTotal(recipe) \o TagsOf(recipe)
  BY CardIs
<1>2. /\ page.heading = TitleView(recipe)
      /\ page.attribution = recipe.authors \o AttributionOf(recipe)
      /\ page.picture = PictureBlock(PictureOf(recipe, served, pictureSource))
      /\ page.signals = Signals(ToRecipeView(recipe, served, pictureSource))
  BY BodyIs
<1>3. ToSet(card.signals) \subseteq SignalTexts(page.signals) BY <1>1, <1>2, CardSaysNoMore, SignalsAre
<1> DEFINE p == page.picture
<1> HIDE DEF p
<1>4. card.title = title /\ title = TitleLine(page.heading) /\ card.attribution = page.attribution
  BY <1>1, <1>2
<1>5. QED BY <1>1, <1>2, <1>3, <1>4, PictureIs, NamesAgree DEF HeadersAgree, p

(* What the cooking view says, step by step and before the first.          *)
StepAgrees(item, shown, uses) ==
    /\ SaysAsMuch(item, shown)
    /\ CountOf(item.nowYouNeed, LAMBDA r : r.row = "part_of") =
           CountOf(uses, LAMBDA u : u.usage = "use_partial_unspecified")
    /\ CountOf(item.nowYouNeed, LAMBDA r : r.row = "remaining") =
           CountOf(uses, LAMBDA u : u.usage = "use_remaining")
    /\ CountOf(item.nowYouNeed, LAMBDA r : r.row = "reserved") =
           CountOf(uses, LAMBDA u : u.usage = "reserve_for_later")

CookingAgrees(steps, cooking, pageSteps, pageItems, title) ==
    /\ cooking.heading = title /\ cooking.documentTitle = title
    /\ Len(cooking.units) = Len(pageSteps)
    /\ \A n \in DOMAIN pageSteps :
           StepAgrees(cooking.units[n], pageSteps[n], steps[n].ingredientUses \o steps[n].componentUses)
    /\ \A k \in DOMAIN cooking.fetchPrepare : \E i \in DOMAIN pageItems :
           /\ pageItems[i].item = cooking.fetchPrepare[k].item
           /\ cooking.fetchPrepare[k].amount \in {<<>>, pageItems[i].amount}
    /\ cooking.startNow # <<>>
    /\ \A n \in 2..Len(pageSteps) : \A c \in DOMAIN ValuesAt(pageSteps[n].annotations, "Prerequisite") :
           \/ \E k \in DOMAIN cooking.startNow : cooking.startNow[k] =
                  [text |-> ValuesAt(pageSteps[n].annotations, "Prerequisite")[c], forStep |-> n]
           \/ LongWords[ValuesAt(pageSteps[n].annotations, "Prerequisite")[c]] \subseteq
                  Carries[cooking.units[n].action]

(* A step of the page and its unit agree. *)
LEMMA StepsDoAgree ==
    ASSUME NEW recipe, NEW step, IsInstructionStep(step), NEW shown, shown = StepShown(recipe, step),
           NEW item, IsUnitOf(recipe, step, item)
    PROVE  StepAgrees(item, shown, step.ingredientUses \o step.componentUses)
<1> DEFINE uses == step.ingredientUses \o step.componentUses  rows == item.nowYouNeed
<1>1. IsList(uses) BY Concat DEF IsInstructionStep, ListOf
<1> HIDE DEF uses, rows
<1>2. QED
  BY <1>1, UnitSaysAsMuch, RowsAreCounted, UsesAreCounted DEF StepAgrees, uses, rows, RowsAreUses,
     IsUnitOf

(* A traceable recipe is cooked as its page says. *)
LEMMA CookingDoesAgree ==
    ASSUME NEW recipe, IsCanonicalRecipe(recipe), NEW suppress, NEW plan,
           plan = DeriveCookingPlan(recipe, suppress), plan # Untraceable,
           NEW cooking, cooking = CookingPage(plan), NEW title, title = TitleLine(TitleView(recipe)),
           NEW pageSteps, pageSteps = FlattenSeq(SectionSteps(recipe)),
           NEW pageItems, pageItems = FlattenSeq(GroupItems(recipe)), NEW steps, steps = Steps(recipe)
    PROVE  CookingAgrees(steps, cooking, pageSteps, pageItems, title)
<1>1. /\ plan = Untraceable \/ IsTraceable(recipe)
      /\ IsTraceable(recipe) =>
           /\ plan # Untraceable
           /\ plan.recipeId = recipe.id /\ plan.title = TitleOf(recipe)
           /\ plan.setUp = SetUpFor(recipe)
           /\ plan.startNow = StartNowOf(Steps(recipe))
           /\ plan.fetchPrepare = FetchedFor(recipe, suppress)
           /\ plan.units = UnitsFor(recipe)
           /\ plan.derivation = [quantityPlacement |-> "separate_block",
                                 assumedAtHandSuppressed |-> suppress]
  BY PlanOf
<1>2. /\ IsTraceable(recipe) /\ plan.title = TitleOf(recipe) /\ plan.startNow = StartNowOf(steps)
      /\ plan.fetchPrepare = FetchedFor(recipe, suppress) /\ plan.units = UnitsFor(recipe)
  BY <1>1
<1> DEFINE units == cooking.units  fetch == cooking.fetchPrepare  now == cooking.startNow
<1>3. /\ cooking.heading = title /\ cooking.documentTitle = title
      /\ now = StartNowBlock(plan)
      /\ units = [n \in DOMAIN plan.units |-> UnitItem(plan.units[n])]
      /\ fetch = [k \in DOMAIN plan.fetchPrepare |-> AmountRow(plan.fetchPrepare[k].amount)]
  BY <1>2, CookingIs
<1>4. IsList(steps) /\ DOMAIN steps = 1..Len(steps) /\ Len(steps) \in Nat
      /\ \A n \in DOMAIN steps : IsInstructionStep(steps[n])
  BY StepsAreSteps DEF ListOf, Every
<1>5. /\ DOMAIN pageSteps = DOMAIN steps /\ Len(pageSteps) = Len(steps)
      /\ \A n \in DOMAIN steps : pageSteps[n] = StepShown(recipe, steps[n])
  BY PageStepsAre
<1> HIDE DEF units, fetch, now
<1>6. IsList(units) /\ Len(units) = Len(steps) /\ \A n \in DOMAIN steps : IsUnitOf(recipe, steps[n], units[n])
  BY <1>2, <1>3, UnitsAreShown
<1>7. ASSUME NEW n \in DOMAIN pageSteps
      PROVE  StepAgrees(units[n], pageSteps[n], steps[n].ingredientUses \o steps[n].componentUses)
  BY <1>4, <1>5, <1>6, StepsDoAgree
<1>8. \A k \in DOMAIN fetch : \E i \in DOMAIN pageItems :
          fetch[k].item = pageItems[i].item /\ fetch[k].amount \in {<<>>, pageItems[i].amount}
  BY <1>2, <1>3, PantryIsShown, PageItemsAre
<1>9. now # <<>> /\ CuesSeen(steps, now) BY <1>2, <1>3, <1>4, CuesAreSeen
<1>10. ASSUME NEW n \in 2..Len(pageSteps), NEW c \in DOMAIN ValuesAt(pageSteps[n].annotations, "Prerequisite")
       PROVE  \/ \E k \in DOMAIN now : now[k] =
                     [text |-> ValuesAt(pageSteps[n].annotations, "Prerequisite")[c], forStep |-> n]
              \/ LongWords[ValuesAt(pageSteps[n].annotations, "Prerequisite")[c]] \subseteq
                     Carries[units[n].action]
  <2> DEFINE shown == pageSteps[n]  step == steps[n]  cues == ValuesAt(shown.annotations, "Prerequisite")
  <2>1. n \in DOMAIN steps /\ n >= 2 BY <1>4, <1>5
  <2>2. IsInstructionStep(step) /\ shown = StepShown(recipe, step) BY <1>4, <1>5, <2>1
  <2>3. c \in DOMAIN cues OBVIOUS
  <2>4. step = steps[n] OBVIOUS
  <2>5. cues = ValuesAt(shown.annotations, "Prerequisite") OBVIOUS
  <2> HIDE DEF shown, step, cues
  <2>6. ValuesAt(shown.annotations, "Prerequisite") = WordingsIn(step.prerequisiteCues) BY <2>2, StepIsRead
  <2>7. c \in DOMAIN steps[n].prerequisiteCues /\ cues[c] = steps[n].prerequisiteCues[c].sourceText
    BY <2>6, <2>4, <2>5, <2>3 DEF WordingsIn
  <2>8. \/ \E k \in DOMAIN now :
               now[k] = [text |-> steps[n].prerequisiteCues[c].sourceText, forStep |-> n]
        \/ LongWords[steps[n].prerequisiteCues[c].sourceText] \subseteq
               Carries[steps[n].normalizedActionText]
    BY <1>9, <2>1, <2>7 DEF CuesSeen
  <2>9. QED BY <1>6, <2>1, <2>7, <2>8 DEF cues, shown, IsUnitOf
<1>11. Len(units) = Len(pageSteps) BY <1>5, <1>6
<1>12. QED BY <1>3, <1>7, <1>8, <1>9, <1>10, <1>11 DEF CookingAgrees, units, fetch, now

(* The page's title is the recipe's. *)
LEMMA PageIsTitled ==
    ASSUME NEW recipe, NEW served, NEW pictureSource
    PROVE  RecipePage(recipe, served, pictureSource).documentTitle = TitleLine(TitleView(recipe))
<1> DEFINE view == ToRecipeView(recipe, served, pictureSource)
<1> HIDE DEF view
<1>1. QED BY DEF RecipePage, view, ToRecipeView

(* The three surfaces and the published recipe tell one story of any recipe *)
(* (render/): the title, the steps and what is said beside them, the       *)
(* portions, what is fetched and started, the card and the picture.        *)
THEOREM SurfacesTellOneStory == Spec => []SurfacesAgree
<1>1. ASSUME DocumentsInv PROVE SurfacesAgree
  <2> SUFFICES ASSUME stage = "shown" PROVE SurfacesAgree BY DEF SurfacesAgree
  <2> DEFINE recipe == subject.recipe  served == subject.served  pictureSource == subject.pictureSource
             suppress == subject.suppress  plan == DeriveCookingPlan(recipe, suppress)
             page == result.page.body  title == result.page.documentTitle  card == result.card
             cooking == result.cooking  name == result.published.recipe.name
             pageSteps == FlattenSeq(Each(page.sections, LAMBDA s : s.steps))
             pageItems == FlattenSeq(Each(page.ingredientGroups, LAMBDA g : g.ingredients))
             steps == Steps(recipe)
  <2>1. IsCanonicalRecipe(recipe) /\ pictureSource \in PictureSource
    BY <1>1, SubjectsAssumption DEF DocumentsInv
  <2>2. /\ result.page = RecipePage(recipe, served, pictureSource)
        /\ card = LibraryCard(recipe, served)
        /\ cooking = IF plan = Untraceable THEN None ELSE CookingPage(plan)
        /\ result.published = MapCanonicalToSchemaOrg(recipe) BY <1>1 DEF Shown, DocumentsInv
  <2>3. page = BodyOf(recipe, served, pictureSource) BY <2>2 DEF BodyOf
  <2>4. title = TitleLine(TitleView(recipe)) BY <2>2, PageIsTitled
  <2>5. name = IF recipe.title.state = "from_source" THEN <<recipe.title.sourceText>> ELSE <<>>
    <3>1. MapCanonicalToSchemaOrg(recipe).recipe.name =
              IF recipe.title.state = "from_source" THEN <<recipe.title.sourceText>> ELSE <<>>
      BY PublishedOf
    <3>2. QED BY <2>2, <3>1
  <2>6. pageSteps = FlattenSeq(SectionSteps(recipe)) BY <2>3, SectionsAreShown
  <2>7. pageItems = FlattenSeq(GroupItems(recipe)) BY <2>3, GroupsAreShown
  <2>8. plan = DeriveCookingPlan(recipe, suppress) /\ steps = Steps(recipe) OBVIOUS
  <2> HIDE DEF recipe, served, pictureSource, suppress, plan, page, title, card, cooking, name,
               pageSteps, pageItems, steps
  <2>9. HeadersAgree(recipe, pictureSource, page, title, card, name)
    BY <2>1, <2>2, <2>3, <2>4, <2>5, HeadersDoAgree
  <2>10. cooking # None => CookingAgrees(steps, cooking, pageSteps, pageItems, title)
    BY <2>1, <2>2, <2>4, <2>6, <2>7, <2>8, CookingDoesAgree
  <2>11. SurfacesAgree
    BY <2>9, <2>10
    DEF SurfacesAgree, HeadersAgree, SignalTexts, CookingAgrees, StepAgrees, SaysAsMuch, ValuesAt, TextsAt,
        recipe, pictureSource, page, title, card, cooking, name, pageSteps, pageItems, steps
  <2>12. QED BY <2>11
<1>2. QED BY <1>1, DocumentsAreInv, PTL

-------------------------------------------------------------------------------
(* What a page declares (distinctRecipes): read from its last node to its  *)
(* first, it declares as many recipes.                                     *)

(* Nodes the others have too, each at a place of its own, are as many      *)
(* recipes at most, and one of them no fuller.                             *)
LEMMA NoMoreRecipes ==
    ASSUME NEW nodes, NEW r, IsList(r), NEW w, Told(nodes, r, w),
           NEW others, NEW s, IsList(s), NEW u, Told(others, s, u),
           NEW g, \A i \in DOMAIN nodes : g[i] \in DOMAIN others /\ others[g[i]] = nodes[i],
           \A i, j \in DOMAIN nodes : g[i] = g[j] => i = j
    PROVE  /\ Len(r) <= Len(s)
           /\ Len(r) = 1 /\ Len(s) = 1 => RequiredSatisfiedCount(r[1]) <= RequiredSatisfiedCount(s[1])
<1> DEFINE n == Len(r)  m == Len(s)
           Tells(k, h) == h \in DOMAIN s /\ (g[w[k]] = u[h] \/ SameRecipe(r[k], s[h]))
           f == [k \in DOMAIN r |-> CHOOSE h \in DOMAIN s : Tells(k, h)]
<1>1. n \in Nat /\ m \in Nat /\ DOMAIN r = 1..n /\ DOMAIN s = 1..m BY ListFacts
<1>2. \A k \in DOMAIN r : w[k] \in DOMAIN nodes /\ r[k] = nodes[w[k]]
                          /\ g[w[k]] \in DOMAIN others /\ others[g[w[k]]] = r[k]
  BY DEF Told
<1>3. \A h \in DOMAIN s : s[h] = others[u[h]] BY DEF Told
<1>4. ASSUME NEW k \in DOMAIN r PROVE Tells(k, f[k])
  <2>1. \E h \in DOMAIN s : Tells(k, h) BY <1>2 DEF Told
  <2> HIDE DEF Tells
  <2>2. QED BY <2>1
<1> HIDE DEF f
<1>5. ASSUME NEW j \in DOMAIN r, NEW k \in DOMAIN r, f[j] = f[k], j # k PROVE FALSE
  <2> DEFINE h == f[j]  a == r[j]  b == r[k]  c == s[h]
  <2>1. ~SameRecipe(a, b) /\ ~SameRecipe(b, a) /\ w[j] # w[k] BY <1>5 DEF Told
  <2>2. Tells(j, h) /\ Tells(k, h) BY <1>4, <1>5
  <2>3. ~(g[w[j]] = u[h] /\ g[w[k]] = u[h]) BY <1>2, <2>1
  <2>4. g[w[j]] = u[h] => a = c BY <1>2, <1>3, <2>2
  <2>5. g[w[k]] = u[h] => b = c BY <1>2, <1>3, <2>2
  <2>6. SameRecipe(a, c) /\ SameRecipe(b, c) BY <2>1, <2>2, <2>3, <2>4, <2>5
  <2>7. NameOf(c) # <<>> /\ IdOf(c) = <<>> /\ NameOf(a) = NameOf(c) /\ NameOf(b) = NameOf(c) =>
            ~DifferById(a, b)
    <3>1. h \in DOMAIN s BY <2>2
    <3>2. \A x, y \in DOMAIN others :
             NameOf(s[h]) # <<>> /\ IdOf(s[h]) = <<>> /\ NameOf(others[x]) = NameOf(s[h])
             /\ NameOf(others[y]) = NameOf(s[h]) => ~DifferById(others[x], others[y])
      BY <3>1 DEF Told
    <3>3. QED BY <1>2, <3>2
  <2> HIDE DEF a, b, c
  <2>8. QED BY <2>1, <2>6, <2>7 DEF SameRecipe, DifferById
<1>6. n <= m
  <2> DEFINE T == {f[k] : k \in 1..n}
  <2>1. T \subseteq 1..m BY <1>1, <1>4
  <2>2. \A i, j \in 1..n : f[i] = f[j] => i = j BY <1>1, <1>5
  <2>3. \A b : b \in T <=> \E i \in 1..n : f[i] = b OBVIOUS
  <2> HIDE DEF T, n, m
  <2>4. n \in Nat BY <1>1
  <2>5. Cardinality(T) = n BY ONLY <2>2, <2>3, <2>4, OneOfEach
  <2>6. Cardinality(T) <= m BY <1>1, <2>1, PlacesAreFinite
  <2>7. QED BY <2>5, <2>6 DEF n, m
<1>7. ASSUME n = 1, m = 1 PROVE RequiredSatisfiedCount(r[1]) <= RequiredSatisfiedCount(s[1])
  <2>1. 1 \in DOMAIN r /\ DOMAIN s = {1} BY <1>1, <1>7
  <2>2. g[w[1]] \in DOMAIN others /\ others[g[w[1]]] = r[1] BY <1>2, <2>1
  <2>3. \E k \in DOMAIN s : RequiredSatisfiedCount(others[g[w[1]]]) <= RequiredSatisfiedCount(s[k])
    BY <1>7, <2>2 DEF Told
  <2>4. QED BY <2>1, <2>2, <2>3
<1>8. QED BY <1>6, <1>7

(* The recipe nodes of objects read from the last to the first.            *)
LEMMA NodesHaveTheirPlaces ==
    ASSUME NEW objects, IsList(objects), NEW others, IsList(others), Len(others) = Len(objects),
           \A i \in 1..Len(objects) : others[Len(objects) + 1 - i] = objects[i],
           NEW nodes, nodes = Filtered(objects, IsRecipe), NEW backward, backward = Filtered(others, IsRecipe)
    PROVE  \E g : /\ \A i \in DOMAIN nodes : g[i] \in DOMAIN backward /\ backward[g[i]] = nodes[i]
                  /\ \A i, j \in DOMAIN nodes : g[i] = g[j] => i = j
<1> DEFINE n == Len(objects)
           P == {i \in DOMAIN objects : IsRecipe(objects[i])}  p == PickedAt(n, P)
           Q == {i \in DOMAIN others : IsRecipe(others[i])}    q == PickedAt(n, Q)
           g == [i \in 1..Len(p) |-> CHOOSE k \in 1..Len(q) : q[k] = n + 1 - p[i]]
<1>1. n \in Nat /\ DOMAIN objects = 1..n /\ DOMAIN others = 1..n BY ListFacts
<1>2. P \subseteq 1..n /\ \A i \in 1..n : i \in P => n + 1 - i \in Q
  <2> HIDE DEF n
  <2>1. QED BY <1>1 DEF n
<1>3. nodes = Picked(objects, P) /\ backward = Picked(others, Q) BY DEF Filtered
<1> HIDE DEF P, Q
<1>4. /\ Enumerates(p, P \cap (1..n)) /\ IsList(nodes) /\ Len(nodes) = Len(p)
      /\ \A k \in 1..Len(p) : p[k] \in 1..n /\ p[k] \in P /\ nodes[k] = objects[p[k]]
  <2>1. p = PickedAt(Len(objects), P) OBVIOUS
  <2> HIDE DEF p
  <2>2. /\ Enumerates(p, P \cap (1..Len(objects)))
        /\ Len(p) \in Nat
        /\ \A k \in 1..Len(p) : p[k] \in 1..Len(objects) /\ p[k] \in P
        /\ IsList(Picked(objects, P)) /\ Len(Picked(objects, P)) = Len(p)
        /\ \A k \in 1..Len(p) : Picked(objects, P)[k] = objects[p[k]]
    BY <2>1, PickedIs
  <2>3. QED BY <1>3, <2>2
<1>5. /\ Enumerates(q, Q \cap (1..n)) /\ IsList(backward) /\ Len(backward) = Len(q)
      /\ \A k \in 1..Len(q) : q[k] \in 1..n /\ backward[k] = others[q[k]]
  <2>1. q = PickedAt(Len(others), Q) OBVIOUS
  <2> HIDE DEF q
  <2>2. /\ Enumerates(q, Q \cap (1..n)) /\ Len(Picked(others, Q)) = Len(q) /\ IsList(Picked(others, Q))
        /\ \A k \in 1..Len(q) : q[k] \in 1..n /\ Picked(others, Q)[k] = others[q[k]]
    BY <2>1, PickedIs
  <2>3. QED BY <1>3, <2>2
<1>6. DOMAIN nodes = 1..Len(p) /\ DOMAIN backward = 1..Len(q) BY <1>4, <1>5, ListFacts
<1>7. \A j, k \in 1..Len(p) : p[j] = p[k] => j = k
  <2>1. P \cap (1..n) \subseteq 1..n OBVIOUS
  <2> HIDE DEF p, n
  <2>2. QED BY <1>1, <1>4, <2>1, EnumerationIsOneByOne
<1> HIDE DEF p, q
<1>8. ASSUME NEW i \in 1..Len(p) PROVE g[i] \in 1..Len(q) /\ q[g[i]] = n + 1 - p[i]
  <2>1. p[i] \in 1..n /\ n + 1 - p[i] \in Q BY <1>2, <1>4
  <2>2. n + 1 - p[i] \in 1..n BY <1>1, <2>1
  <2>3. QED BY <1>5, <2>1, <2>2 DEF Enumerates
<1> HIDE DEF g
<1>9. ASSUME NEW i \in DOMAIN nodes PROVE g[i] \in DOMAIN backward /\ backward[g[i]] = nodes[i]
  <2>1. others[n + 1 - p[i]] = objects[p[i]] BY <1>4, <1>6
  <2>2. QED BY <1>4, <1>5, <1>6, <1>8, <2>1
<1>10. ASSUME NEW i \in DOMAIN nodes, NEW j \in DOMAIN nodes, g[i] = g[j] PROVE i = j
  <2>1. n + 1 - p[i] = n + 1 - p[j] /\ p[i] \in 1..n /\ p[j] \in 1..n BY <1>4, <1>6, <1>8, <1>10
  <2> HIDE DEF n
  <2>2. p[i] = p[j] BY <1>1, <2>1
  <2>3. QED BY <1>6, <1>7, <2>2
<1>11. QED BY <1>9, <1>10

(* They are the same recipes, as far as what is made of them goes.         *)
LEMMA BackwardIsTheSame ==
    ASSUME NEW objects, IsList(objects),
           NEW a, a = Extracted(DistinctRecipes(objects)),
           NEW b, b = Extracted(DistinctRecipes(Reverse(objects)))
    PROVE  b.kind = a.kind /\ (a.kind = "multiple" => b.inventory.count = a.inventory.count)
<1> DEFINE back == Reverse(objects)
           r == DistinctRecipes(objects)  s == DistinctRecipes(back)
           nodes == Filtered(objects, IsRecipe)  others == Filtered(back, IsRecipe)
           n == Len(objects)
<1>1. n \in Nat BY ListFacts
<1>2. IsList(back) /\ Len(back) = n /\ \A i \in 1..n : back[i] = objects[n + 1 - i]
  BY <1>1, AFunctionIsAList DEF Reverse
<1> HIDE DEF back
<1>3. IsList(r) /\ \E w : Told(nodes, r, w) BY RecipesAreTold
<1>4. IsList(s) /\ \E u : Told(others, s, u) BY <1>2, RecipesAreTold
<1>5. nodes = Filtered(objects, IsRecipe) /\ others = Filtered(back, IsRecipe) OBVIOUS
<1>6. a = Extracted(r) /\ b = Extracted(s) BY DEF back
<1> HIDE DEF nodes, others, r, s
<1>7. PICK g : /\ \A i \in DOMAIN nodes : g[i] \in DOMAIN others /\ others[g[i]] = nodes[i]
               /\ \A i, j \in DOMAIN nodes : g[i] = g[j] => i = j
  <2>1. \A i \in 1..Len(objects) : back[Len(objects) + 1 - i] = objects[i] BY <1>1, <1>2
  <2>2. Len(back) = Len(objects) /\ IsList(back) BY <1>2
  <2>3. QED BY <1>5, <2>1, <2>2, NodesHaveTheirPlaces
<1>8. PICK h : /\ \A i \in DOMAIN others : h[i] \in DOMAIN nodes /\ nodes[h[i]] = others[i]
               /\ \A i, j \in DOMAIN others : h[i] = h[j] => i = j
  <2>1. \A i \in 1..Len(back) : objects[Len(back) + 1 - i] = back[i] BY <1>2
  <2>2. Len(objects) = Len(back) BY <1>2
  <2>3. QED BY <1>2, <1>5, <2>1, <2>2, NodesHaveTheirPlaces
<1>9. PICK w, u : Told(nodes, r, w) /\ Told(others, s, u) BY <1>3, <1>4
<1>10. /\ Len(r) <= Len(s)
       /\ Len(r) = 1 /\ Len(s) = 1 => RequiredSatisfiedCount(r[1]) <= RequiredSatisfiedCount(s[1])
  BY <1>3, <1>4, <1>7, <1>9, NoMoreRecipes
<1>11. /\ Len(s) <= Len(r)
       /\ Len(s) = 1 /\ Len(r) = 1 => RequiredSatisfiedCount(s[1]) <= RequiredSatisfiedCount(r[1])
  BY <1>3, <1>4, <1>8, <1>9, NoMoreRecipes
<1>12. Len(r) \in Nat /\ Len(s) = Len(r) /\ (r = <<>> <=> Len(r) = 0) /\ (s = <<>> <=> Len(s) = 0)
  BY <1>3, <1>4, <1>10, <1>11, ListFacts
<1>13. CASE Len(r) > 1 BY <1>6, <1>12, <1>13 DEF Extracted, Extraction, InventoryOf
<1>14. CASE Len(r) <= 1
  <2> DEFINE missing == IF r = <<>> THEN Required ELSE MissingRequired(r[1])
             lacking == IF s = <<>> THEN Required ELSE MissingRequired(s[1])
  <2>1. (missing = <<>>) <=> (lacking = <<>>) BY <1>10, <1>11, <1>12, <1>14, CountIsMissing
  <2> HIDE DEF missing, lacking
  <2>2. a = Extraction(r, missing) /\ b = Extraction(s, lacking) BY <1>6 DEF Extracted, missing, lacking
  <2>3. CASE missing = <<>> BY <1>12, <1>14, <2>1, <2>2, <2>3 DEF Extraction
  <2>4. CASE missing # <<>> BY <1>12, <1>14, <2>1, <2>2, <2>4 DEF Extraction
  <2>5. QED BY <2>3, <2>4
<1>15. QED BY <1>12, <1>13, <1>14

-------------------------------------------------------------------------------
(* What is captured of a recipe node (recipeToRawBlocks): its blocks by type. *)

(* Where blocks have a type: behind the first l, one for each of the       *)
(* texts; and blocks that have none of it.                                 *)
Holds(blocks, type, l, texts) ==
    /\ IsList(blocks) /\ IsList(texts) /\ l \in Nat /\ l + Len(texts) <= Len(blocks)
    /\ \A i \in DOMAIN blocks : blocks[i].type = type <=> i \in After(l, Len(texts))
    /\ \A m \in DOMAIN texts : blocks[l + m].text = texts[m]
HasNone(blocks, type) == IsList(blocks) /\ \A i \in DOMAIN blocks : blocks[i].type # type

(* What blocks hold of a type is what is read of it. *)
LEMMA HeldIsRead ==
    ASSUME NEW x, NEW type, NEW l, NEW s, Holds(x, type, l, s)
    PROVE  TextsOf(x, type) = s
<1> DEFINE P == {i \in DOMAIN x : x[i].type = type}  f == Picked(x, P)
           v == [k \in DOMAIN f |-> f[k].text]  w == Len(s)
<1>1. TextsOf(x, type) = v BY DEF TextsOf, Filtered, Each
<1>2. IsList(x) /\ IsList(s) /\ l \in Nat /\ l + w <= Len(x) BY DEF Holds
<1>3. w \in Nat /\ DOMAIN s = 1..w /\ Len(x) \in Nat /\ DOMAIN x = 1..Len(x) BY <1>2, ListFacts
<1>4. P = After(l, w) BY <1>2, <1>3 DEF Holds, After
<1>5. v = [k \in DOMAIN f |-> v[k]] /\ \A k \in DOMAIN f : v[k] = f[k].text OBVIOUS
<1>6. f = Picked(x, After(l, w)) BY <1>4
<1> HIDE DEF P, f, v, w
<1>7. IsList(f) /\ Len(f) = w /\ \A m \in 1..w : f[m] = x[l + m] BY <1>2, <1>3, <1>6, AfterPicked
<1>8. IsList(v) /\ Len(v) = w BY <1>5, <1>7, MappedIs
<1>9. \A m \in 1..w : v[m] = s[m] BY <1>3, <1>5, <1>7, ListFacts DEF Holds
<1>10. v = s BY <1>2, <1>8, <1>9, ListEqual DEF w
<1>11. QED BY <1>1, <1>10

(* Blocks of one type behind, before and between blocks of others. *)
LEMMA NoneJoined ==
    ASSUME NEW a, NEW b, NEW type, HasNone(a, type), HasNone(b, type)
    PROVE  HasNone(a \o b, type)
<1>1. IsList(a) /\ IsList(b) BY DEF HasNone
<1>2. Len(a) \in Nat /\ Len(b) \in Nat /\ DOMAIN a = 1..Len(a) /\ DOMAIN b = 1..Len(b) BY <1>1, ListFacts
<1> DEFINE x == a \o b  l == Len(a)  w == Len(b)
<1>3. /\ IsList(x) /\ DOMAIN x = 1..l + w
      /\ \A i \in 1..l : x[i] = a[i]
      /\ \A i \in l + 1..l + w : x[i] = b[i - l]
  BY <1>1, Concat
<1> HIDE DEF x, l, w
<1>4. ASSUME NEW i \in 1..l + w PROVE x[i].type # type
  <2>1. i \in 1..l \/ (i \in l + 1..l + w /\ i - l \in 1..w) BY <1>2 DEF l, w
  <2>2. QED BY <1>2, <1>3, <2>1 DEF HasNone, l, w
<1>5. QED BY <1>3, <1>4 DEF HasNone, x

LEMMA HeldBefore ==
    ASSUME NEW a, NEW b, NEW type, NEW l, NEW s, Holds(a, type, l, s), HasNone(b, type)
    PROVE  Holds(a \o b, type, l, s)
<1> DEFINE x == a \o b  n == Len(a)  m == Len(b)  w == Len(s)
<1>1. IsList(a) /\ IsList(b) /\ IsList(s) /\ l \in Nat /\ l + w <= n BY DEF HasNone, Holds
<1>2. /\ n \in Nat /\ m \in Nat /\ w \in Nat /\ DOMAIN a = 1..n /\ DOMAIN b = 1..m /\ DOMAIN s = 1..w
  BY <1>1, ListFacts
<1>3. /\ IsList(x) /\ Len(x) = n + m /\ DOMAIN x = 1..n + m
      /\ \A i \in 1..n : x[i] = a[i]
      /\ \A i \in n + 1..n + m : x[i] = b[i - n]
  BY <1>1, Concat
<1>4. \A i \in 1..n : a[i].type = type <=> i \in l + 1..l + w BY <1>2 DEF Holds, After
<1>5. \A i \in 1..w : a[l + i].text = s[i] BY <1>2 DEF Holds
<1>6. \A i \in 1..m : b[i].type # type BY <1>2 DEF HasNone
<1> HIDE DEF x, n, m, w
<1>7. ASSUME NEW i \in 1..n + m PROVE x[i].type = type <=> i \in l + 1..l + w
  BY <1>1, <1>2, <1>3, <1>4, <1>6
<1>8. \A i \in 1..w : x[l + i].text = s[i] BY <1>1, <1>2, <1>3, <1>5
<1>9. l + w <= n + m BY <1>1, <1>2
<1>10. QED BY <1>1, <1>2, <1>3, <1>7, <1>8, <1>9 DEF Holds, After, x, w

LEMMA HeldBehind ==
    ASSUME NEW a, NEW b, NEW type, NEW s, HasNone(a, type), Holds(b, type, 0, s), Len(s) = Len(b)
    PROVE  Holds(a \o b, type, Len(a), s)
<1> DEFINE x == a \o b  n == Len(a)  m == Len(b)
<1>1. IsList(a) /\ IsList(b) /\ IsList(s) BY DEF HasNone, Holds
<1>2. n \in Nat /\ m \in Nat /\ Len(s) = m /\ DOMAIN a = 1..n /\ DOMAIN b = 1..m /\ DOMAIN s = 1..m
  BY <1>1, ListFacts
<1>3. /\ IsList(x) /\ Len(x) = n + m /\ DOMAIN x = 1..n + m
      /\ \A i \in 1..n : x[i] = a[i]
      /\ \A i \in 1..m : x[n + i] = b[i]
  BY <1>1, Concat
<1>4. \A i \in 1..m : b[i].type = type /\ b[i].text = s[i] BY <1>2 DEF Holds, After
<1> HIDE DEF x, n, m
<1>5. ASSUME NEW i \in 1..n + m PROVE x[i].type = type <=> i \in n + 1..n + m
  <2>1. CASE i <= n BY <1>2, <1>3, <2>1 DEF HasNone
  <2>2. CASE ~(i <= n)
    <3>1. i - n \in 1..m /\ i = n + (i - n) /\ i \in n + 1..n + m BY <1>2, <2>2
    <3>2. QED BY <1>3, <1>4, <3>1
  <2>3. QED BY <2>1, <2>2
<1>6. QED BY <1>1, <1>2, <1>3, <1>4, <1>5 DEF Holds, After, x, n

(* All blocks of a list are of one type. *)
LEMMA AllOfType ==
    ASSUME NEW texts, IsList(texts), NEW type, NEW blocks, blocks = [k \in DOMAIN texts |-> blocks[k]],
           \A k \in DOMAIN texts : blocks[k].type = type /\ blocks[k].text = texts[k]
    PROVE  /\ Holds(blocks, type, 0, texts) /\ Len(texts) = Len(blocks)
           /\ \A other : other # type => HasNone(blocks, other)
<1>1. IsList(blocks) /\ Len(blocks) = Len(texts) /\ DOMAIN blocks = 1..Len(texts) /\ DOMAIN texts = 1..Len(texts)
  BY MappedIs
<1>2. Len(texts) \in Nat BY ListFacts
<1>3. Holds(blocks, type, 0, texts)
  <2> DEFINE n == Len(texts)
  <2> HIDE DEF n
  <2>1. QED BY <1>1, <1>2 DEF Holds, n, After
<1>4. QED BY <1>1, <1>3 DEF HasNone

(* An id more takes nothing from a block.                                  *)
LEMMA HeldWithIds ==
    ASSUME NEW blocks, NEW type, NEW l, NEW texts, Holds(blocks, type, l, texts)
    PROVE  TextsOf(AssignIds(blocks), type) = texts
<1> DEFINE s == AssignIds(blocks)
<1>1. s = [i \in DOMAIN blocks |-> s[i]]
      /\ \A i \in DOMAIN blocks : s[i].type = blocks[i].type /\ s[i].text = blocks[i].text
  BY DEF AssignIds
<1> HIDE DEF s
<1>2. /\ IsList(blocks) /\ IsList(texts) /\ l \in Nat /\ l + Len(texts) <= Len(blocks)
      /\ \A m \in DOMAIN texts : blocks[l + m].text = texts[m]
  BY DEF Holds
<1>3. IsList(s) /\ Len(s) = Len(blocks) /\ DOMAIN s = DOMAIN blocks /\ DOMAIN blocks = 1..Len(blocks)
  BY <1>1, <1>2, MappedIs
<1>4. \A m \in DOMAIN texts : l + m \in DOMAIN blocks BY <1>2, <1>3, ListFacts
<1>5. Holds(s, type, l, texts) BY <1>1, <1>2, <1>3, <1>4 DEF Holds
<1>6. QED BY <1>5, HeldIsRead DEF s

(* The title, the ingredients and the steps of a recipe are in its blocks, *)
(* as it has them.                                                         *)
LEMMA BlocksHold ==
    ASSUME NEW recipe, IsValue(recipe), NEW blocks, blocks = AssignIds(RecipeToRawBlocks(recipe)),
           NEW steps, steps = InstructionSteps(Field(recipe, "recipeInstructions"))
    PROVE  /\ TextsOf(blocks, "title") = AsDisplayString(Field(recipe, "name"))
           /\ TextsOf(blocks, "ingredient") = Displayed(Items(Field(recipe, "recipeIngredient")))
           /\ IsList(steps) /\ TextsOf(blocks, "instruction") = [k \in DOMAIN steps |-> steps[k].text]
<1> DEFINE title == AsDisplayString(Field(recipe, "name"))
           lines == IngredientLines(Field(recipe, "recipeIngredient"))
           said == [k \in DOMAIN steps |-> steps[k].text]
           b1 == Block("title", <<>>, title)
           b2 == Block("author", <<>>, AuthorDisplay(Field(recipe, "author")))
           b3 == Block("metadata", << <<"recipeYield">> >>, DisplayYield(Field(recipe, "recipeYield")))
           b4 == Metadata(recipe, "prepTime")
           b5 == Metadata(recipe, "cookTime")
           b6 == Metadata(recipe, "totalTime")
           b7 == Metadata(recipe, "description")
           b8 == Block("ingredient", <<>>, lines)
           b9 == Listed(steps)
<1>1. ASSUME NEW type, NEW heading, NEW texts, AllRead(recipe, texts)
      PROVE  LET b == Block(type, heading, texts)
             IN  /\ Holds(b, type, 0, texts) /\ Len(texts) = Len(b)
                 /\ \A other : other # type => HasNone(b, other)
  <2> DEFINE b == Block(type, heading, texts)
  <2>1. b = [k \in DOMAIN texts |-> b[k]] /\ \A k \in DOMAIN texts : b[k].type = type /\ b[k].text = texts[k]
    BY DEF Block
  <2> HIDE DEF b
  <2>2. IsList(texts) BY <1>1 DEF AllRead
  <2>3. /\ Holds(b, type, 0, texts) /\ Len(texts) = Len(b)
        /\ \A other : other # type => HasNone(b, other)
    BY <2>1, <2>2, AllOfType
  <2>4. QED BY <2>3 DEF b
<1>2. /\ IsList(steps) /\ Holds(b9, "instruction", 0, said) /\ Len(said) = Len(b9)
      /\ \A other : other # "instruction" => HasNone(b9, other)
  <2>1. IsList(steps) BY PartsAreRead DEF StepsRead
  <2>2. said = [k \in DOMAIN steps |-> said[k]] OBVIOUS
  <2>3. b9 = [k \in DOMAIN steps |-> b9[k]]
        /\ \A k \in DOMAIN steps : b9[k].type = "instruction" /\ b9[k].text = said[k]
    BY DEF Listed
  <2> HIDE DEF said, b9
  <2>4. IsList(said) /\ DOMAIN said = DOMAIN steps BY <2>1, <2>2, MappedIs
  <2>5. QED BY <2>1, <2>3, <2>4, AllOfType
<1>3. /\ Holds(b1, "title", 0, title) /\ HasNone(b1, "ingredient") /\ HasNone(b1, "instruction")
      /\ Holds(b8, "ingredient", 0, lines) /\ Len(lines) = Len(b8)
      /\ HasNone(b8, "title") /\ HasNone(b8, "instruction")
      /\ HasNone(b9, "title") /\ HasNone(b9, "ingredient")
  BY <1>1, <1>2, PartsAreRead
<1>4. ASSUME NEW type \in {"title", "ingredient", "instruction"}
      PROVE  /\ HasNone(b2, type) /\ HasNone(b3, type) /\ HasNone(b4, type) /\ HasNone(b5, type)
             /\ HasNone(b6, type) /\ HasNone(b7, type)
  BY <1>1, PartsAreRead DEF Metadata
<1>5. RecipeToRawBlocks(recipe) = b1 \o b2 \o b3 \o b4 \o b5 \o b6 \o b7 \o b8 \o b9 BY BlocksAreJoined
<1>6. lines = Displayed(Items(Field(recipe, "recipeIngredient"))) BY DEF IngredientLines
<1> HIDE DEF title, lines, said, b1, b2, b3, b4, b5, b6, b7, b8, b9
<1> DEFINE x == b1 \o b2 \o b3 \o b4 \o b5 \o b6 \o b7
<1>7. Holds(x, "title", 0, title) BY <1>3, <1>4, HeldBefore
<1>8. ASSUME NEW type \in {"ingredient", "instruction"} PROVE HasNone(x, type) BY <1>3, <1>4, NoneJoined
<1>9. blocks = AssignIds(x \o b8 \o b9) BY <1>5
<1> HIDE DEF x
<1>10. TextsOf(blocks, "title") = title BY <1>3, <1>7, <1>9, HeldWithIds, HeldBefore
<1>11. TextsOf(blocks, "ingredient") = lines BY <1>3, <1>8, <1>9, HeldWithIds, HeldBehind, HeldBefore
<1>12. TextsOf(blocks, "instruction") = said
  BY <1>2, <1>3, <1>8, <1>9, HeldWithIds, NoneJoined, HeldBehind
<1>13. QED BY <1>2, <1>6, <1>10, <1>11, <1>12 DEF title, said

-------------------------------------------------------------------------------
(* The part a node starts.                                                 *)

(* What a node is, the part that starts with it is.                        *)
LEMMA PartStartsWith ==
    ASSUME NEW v, IsValue(v), NEW j \in DOMAIN v, NEW w, w = Part(v, v[j].at)
    PROVE  1 \in DOMAIN w /\ w[1].is = v[j].is /\ w[1].text = v[j].text /\ Kind(w) = v[j].is
<1> DEFINE path == v[j].at  l == Len(path)
<1>1. IsList(v) /\ (\A i \in DOMAIN v : IsList(v[i].at)) /\ IsTree(v) BY DEF IsValue, ListOf, Every
<1>2. IsList(path) BY <1>1
<1>3. PICK p : NodesOfPart(w, v, path, p) BY <1>2, PartHasNodes
<1>4. DOMAIN v = 1..Len(v) /\ Len(v) \in Nat /\ l \in Nat BY <1>1, <1>2, ListFacts
<1> DEFINE B == {i \in 1..Len(v) : Begins(path, v[i].at)}
<1>5. Enumerates(p, B) /\ Len(p) \in Nat /\ IsList(w) /\ Len(w) = Len(p)
      /\ \A k \in 1..Len(p) : /\ p[k] \in 1..Len(v) /\ Begins(path, v[p[k]].at)
                              /\ w[k].is = v[p[k]].is /\ w[k].text = v[p[k]].text
  BY <1>3 DEF NodesOfPart
<1>6. j \in B BY <1>4 DEF Begins
<1>7. PICK k \in 1..Len(p) : p[k] = j BY <1>5, <1>6 DEF Enumerates
<1>8. 1 \in 1..Len(p) BY <1>5
<1> DEFINE i == p[1]
<1>9. i <= j BY <1>4, <1>5, <1>7, <1>8 DEF Enumerates
<1>10. i \in DOMAIN v /\ Begins(path, v[i].at) /\ IsList(v[i].at) /\ Len(v[i].at) \in Nat
  BY <1>1, <1>4, <1>5, <1>8, ListFacts
<1> HIDE DEF i
<1>11. i = j
  <2>1. CASE Len(v[i].at) = l BY <1>1, <1>2, <1>10, <2>1, ListEqual DEF Begins, IsTree
  <2>2. CASE Len(v[i].at) # l
    <3>1. l \in 0..Len(v[i].at) - 1 BY <1>4, <1>10, <2>2 DEF Begins
    <3>2. PICK m \in 1..i - 1 : v[m].at = SubSeq(v[i].at, 1, l) BY <1>1, <1>10, <3>1 DEF IsTree
    <3>3. SubSeq(path, 1, l) = path
      <4> DEFINE s == SubSeq(path, 1, l)
      <4> HIDE DEF path
      <4>1. l \in 0..Len(path) BY <1>4
      <4> HIDE DEF l
      <4>2. IsList(s) /\ Len(s) = l /\ \A d \in 1..l : s[d] = path[d] BY ONLY <1>2, <4>1, StartIsList
      <4> HIDE DEF s
      <4>3. Len(s) = Len(path) /\ \A d \in 1..Len(s) : s[d] = path[d] BY <4>2 DEF l
      <4>4. s = path BY ONLY <1>2, <4>2, <4>3, ListEqual
      <4>5. QED BY <4>4 DEF s
    <3>4. m \in DOMAIN v /\ m < i BY <1>4, <1>10
    <3>5. m = j BY <1>1, <1>2, <1>10, <3>2, <3>3, <3>4, PrefixBegins DEF IsTree, IsPrefix
    <3>6. QED BY <1>4, <1>9, <1>10, <3>4, <3>5
  <2>3. QED BY <2>1, <2>2
<1>12. QED BY <1>5, <1>8, <1>11, ListFacts, NoneIsAList DEF Kind, Nothing, i

-------------------------------------------------------------------------------
(* The steps a value lists, in order (url-jsonld-adapter.ts).              *)

(* What an element says is its step, if any.                               *)
LEMMA ElementSaid ==
    ASSUME NEW v, NEW path, NEW said, said = Says(Part(v, path))
    PROVE  StepsFromElement(v, path) = [k \in DOMAIN said |-> [heading |-> HeadingOf(v, path), text |-> said[k]]]
BY DEF StepsFromElement, Says, Each

LEMMA SaysIsOne ==
    ASSUME NEW e, NEW said, said = Says(e)
    PROVE  /\ IsList(said) /\ Len(said) <= 1
           /\ said # <<>> => said = <<said[1]>> /\ DOMAIN said = {1}
           /\ said # <<>> => Kind(e) = "text" \/ (IsObject(e) /\ ~IsHowToSection(e))
<1> DEFINE shown == Displayed(<<Field(e, "text"), Field(e, "name")>>)  t == Trim(e[1].text)
<1>1. /\ said # <<>> => Kind(e) = "text" \/ (IsObject(e) /\ ~IsHowToSection(e))
      /\ said = <<>> \/ said = AsDisplayString(e) \/ said = FirstOf(shown)
  <2>1. CASE Kind(e) = "text" BY <2>1 DEF Says
  <2>2. CASE Kind(e) # "text" /\ IsObject(e) /\ ~IsHowToSection(e)
    <3>1. Says(e) = FirstOf(shown) BY <2>2 DEF Says
    <3> HIDE DEF shown
    <3>2. QED BY <2>2, <3>1
  <2>3. CASE Kind(e) # "text" /\ ~(IsObject(e) /\ ~IsHowToSection(e))
    <3>1. Says(e) = <<>> BY <2>3 DEF Says
    <3>2. QED BY <3>1
  <2>4. QED BY <2>1, <2>2, <2>3
<1> HIDE DEF shown
<1>2. said = <<>> \/ said = <<t>> \/ said = <<shown[1]>> BY <1>1 DEF AsDisplayString, FirstOf
<1> HIDE DEF t
<1>3. CASE said = <<>> BY <1>1, <1>3, NoneIsAList
<1>4. CASE said = <<t>> BY <1>1, <1>4, OneIsAList
<1>5. CASE said = <<shown[1]>> BY <1>1, <1>5, OneIsAList
<1>6. QED BY <1>2, <1>3, <1>4, <1>5

(* Lists of none or one joined: where each element comes from, in order.   *)
ComesFrom(flat, ss, q) ==
    /\ \A k \in DOMAIN flat : q[k] \in DOMAIN ss /\ 1 \in DOMAIN ss[q[k]] /\ flat[k] = ss[q[k]][1]
    /\ \A j, k \in DOMAIN flat : j < k => q[j] < q[k]
    /\ \A i \in DOMAIN ss : 1 \in DOMAIN ss[i] => \E k \in DOMAIN flat : q[k] = i

LEMMA OnesJoined ==
    ASSUME NEW ss, ListsIn(ss), \A i \in DOMAIN ss : Len(ss[i]) <= 1, NEW flat, flat = FlattenSeq(ss)
    PROVE  IsList(flat) /\ DOMAIN flat = 1..Len(flat) /\ \E q : ComesFrom(flat, ss, q)
<1> DEFINE at == PlacesOf(ss)  q == [k \in DOMAIN flat |-> at[k][1]]
<1>1. IsList(flat) /\ Len(at) \in Nat /\ JoinedAs(flat, at, ss, Len(ss)) BY FlatIs
<1> HIDE DEF at
<1>2. DOMAIN flat = 1..Len(at) BY <1>1, ListFacts DEF JoinedAs
<1>3. IsList(ss) /\ DOMAIN ss = 1..Len(ss) /\ \A i \in DOMAIN ss : DOMAIN ss[i] = 1..Len(ss[i]) /\ Len(ss[i]) \in Nat
  BY ListFacts DEF ListsIn
<1>4. ASSUME NEW k \in DOMAIN flat
      PROVE  /\ q[k] = at[k][1] /\ at[k] = <<q[k], 1>>
             /\ q[k] \in DOMAIN ss /\ 1 \in DOMAIN ss[q[k]] /\ flat[k] = ss[q[k]][1]
  <2>1. /\ at[k] = <<at[k][1], at[k][2]>> /\ at[k][1] \in 1..Len(ss) /\ at[k][2] \in 1..Len(ss[at[k][1]])
        /\ flat[k] = ss[at[k][1]][at[k][2]]
    BY <1>1, <1>2 DEF JoinedAs
  <2>2. at[k][2] = 1 BY <1>3, <2>1
  <2>3. QED BY <1>3, <2>1, <2>2
<1>5. ASSUME NEW j \in DOMAIN flat, NEW k \in DOMAIN flat, j < k PROVE q[j] < q[k]
  <2>1. at[j][1] < at[k][1] \/ (at[j][1] = at[k][1] /\ at[j][2] < at[k][2]) BY <1>1, <1>2, <1>5 DEF JoinedAs
  <2>2. at[j][2] = 1 /\ at[k][2] = 1 BY <1>4
  <2>3. QED BY <2>1, <2>2
<1>6. ASSUME NEW i \in DOMAIN ss, 1 \in DOMAIN ss[i] PROVE \E k \in DOMAIN flat : q[k] = i
  <2>1. PICK k \in 1..Len(at) : at[k] = <<i, 1>> BY <1>1, <1>3, <1>6 DEF JoinedAs
  <2>2. QED BY <1>2, <2>1
<1> HIDE DEF q
<1>7. ComesFrom(flat, ss, q) BY <1>4, <1>5, <1>6 DEF ComesFrom
<1>8. QED BY <1>1, <1>7, ListFacts

(* The steps are what the elements say, in the order of the value's nodes. *)
StepsComeFrom(v, steps, g) ==
    /\ \A k \in DOMAIN steps : /\ g[k] \in DOMAIN v /\ IsElement(v[g[k]].at)
                               /\ Says(Part(v, v[g[k]].at)) = <<steps[k].text>>
    /\ \A j, k \in DOMAIN steps : j < k => g[j] < g[k]
    /\ \A i \in DOMAIN v : IsElement(v[i].at) /\ Says(Part(v, v[i].at)) # <<>> =>
           \E k \in DOMAIN steps : g[k] = i

LEMMA StepsAreElements ==
    ASSUME NEW v, IsValue(v), Kind(v) # "text", NEW steps, steps = InstructionSteps(v)
    PROVE  IsList(steps) /\ DOMAIN steps = 1..Len(steps) /\ \E g : StepsComeFrom(v, steps, g)
<1> DEFINE P == {i \in DOMAIN v : IsElement(v[i].at)}  f == Picked(v, P)
           ss == [k \in DOMAIN f |-> StepsFromElement(v, f[k].at)]
<1>1. IsList(v) BY DEF IsValue, ListOf
<1>2. steps = FlattenSeq(ss) BY DEF InstructionSteps, Each, Filtered
<1>3. \A i \in DOMAIN v : i \in P <=> IsElement(v[i].at) OBVIOUS
<1> HIDE DEF P
<1>4. IsList(f) /\ \E p : KeptFrom(f, v, P, p) BY <1>1, KeptInOrder
<1>5. PICK p : KeptFrom(f, v, P, p) BY <1>4
<1> HIDE DEF f
<1>6. ss = [k \in DOMAIN f |-> ss[k]] OBVIOUS
<1>7. ASSUME NEW k \in DOMAIN f, NEW said, said = Says(Part(v, v[p[k]].at))
      PROVE  /\ IsList(ss[k]) /\ Len(ss[k]) <= 1 /\ DOMAIN ss[k] = DOMAIN said
             /\ \A d \in DOMAIN said : ss[k][d].text = said[d]
             /\ 1 \in DOMAIN said <=> said # <<>>
             /\ said # <<>> => said = <<said[1]>>
  <2>1. f[k] = v[p[k]] /\ ss[k] = StepsFromElement(v, f[k].at) BY <1>5 DEF KeptFrom
  <2> HIDE DEF ss
  <2> DEFINE path == v[p[k]].at
  <2>2. ss[k] = StepsFromElement(v, path) BY <2>1
  <2>3. said = Says(Part(v, path)) BY <1>7
  <2> HIDE DEF path
  <2>4. ss[k] = [d \in DOMAIN said |-> [heading |-> HeadingOf(v, path), text |-> said[d]]]
    BY <2>2, <2>3, ElementSaid
  <2>5. /\ IsList(said) /\ Len(said) <= 1 /\ (said # <<>> => said = <<said[1]>> /\ DOMAIN said = {1})
    BY <2>3, SaysIsOne
  <2>6. \A d \in DOMAIN said : ss[k][d].text = said[d] BY <2>4
  <2>7. ss[k] = [d \in DOMAIN said |-> ss[k][d]] BY <2>4
  <2>8. IsList(ss[k]) /\ Len(ss[k]) = Len(said) /\ DOMAIN ss[k] = DOMAIN said
    <3> DEFINE t == ss[k]
    <3>1. t = [d \in DOMAIN said |-> t[d]] BY <2>7
    <3> HIDE DEF t
    <3>2. IsList(t) /\ Len(t) = Len(said) /\ DOMAIN t = DOMAIN said BY <2>5, <3>1, MappedIs
    <3>3. QED BY <3>2 DEF t
  <2>9. 1 \in DOMAIN said <=> said # <<>> BY <2>5, NoneIsAList
  <2>10. QED BY <2>5, <2>6, <2>8, <2>9
<1> HIDE DEF ss
<1>8. IsList(ss) /\ DOMAIN ss = DOMAIN f BY <1>4, <1>6, MappedIs
<1>9. ListsIn(ss) /\ \A i \in DOMAIN ss : Len(ss[i]) <= 1 BY <1>7, <1>8 DEF ListsIn
<1>10. IsList(steps) /\ DOMAIN steps = 1..Len(steps) /\ \E q : ComesFrom(steps, ss, q)
  BY <1>2, <1>9, OnesJoined
<1>11. PICK q : ComesFrom(steps, ss, q) BY <1>10
<1> DEFINE g == [k \in DOMAIN steps |-> p[q[k]]]
<1>12. ASSUME NEW k \in DOMAIN steps
       PROVE  /\ g[k] \in DOMAIN v /\ IsElement(v[g[k]].at)
              /\ Says(Part(v, v[g[k]].at)) = <<steps[k].text>>
  <2> DEFINE said == Says(Part(v, v[p[q[k]]].at))
  <2>1. q[k] \in DOMAIN f /\ 1 \in DOMAIN ss[q[k]] /\ steps[k] = ss[q[k]][1] BY <1>8, <1>11 DEF ComesFrom
  <2>2. g[k] = p[q[k]] /\ g[k] \in DOMAIN v /\ g[k] \in P BY <1>5, <2>1 DEF KeptFrom
  <2>3. said = Says(Part(v, v[p[q[k]]].at)) OBVIOUS
  <2>4. said = Says(Part(v, v[g[k]].at)) BY <2>2
  <2> HIDE DEF said, g
  <2>5. /\ DOMAIN ss[q[k]] = DOMAIN said /\ (\A d \in DOMAIN said : ss[q[k]][d].text = said[d])
        /\ (1 \in DOMAIN said <=> said # <<>>) /\ (said # <<>> => said = <<said[1]>>)
    BY <1>7, <2>1, <2>3
  <2>6. said = <<steps[k].text>> BY <2>1, <2>5
  <2>7. QED BY <1>3, <2>2, <2>4, <2>6
<1>13. ASSUME NEW j \in DOMAIN steps, NEW k \in DOMAIN steps, j < k PROVE g[j] < g[k]
  BY <1>5, <1>8, <1>11, <1>13 DEF ComesFrom, KeptFrom
<1>14. ASSUME NEW i \in DOMAIN v, IsElement(v[i].at), NEW said, said = Says(Part(v, v[i].at)), said # <<>>
       PROVE  \E k \in DOMAIN steps : g[k] = i
  <2>1. PICK m \in DOMAIN f : p[m] = i BY <1>3, <1>5, <1>14 DEF KeptFrom
  <2>2. said = Says(Part(v, v[p[m]].at)) BY <1>14, <2>1
  <2>3. 1 \in DOMAIN ss[m] BY <1>7, <1>14, <2>2
  <2>4. PICK k \in DOMAIN steps : q[k] = m BY <1>8, <1>11, <2>3 DEF ComesFrom
  <2>5. QED BY <2>1, <2>4
<1> HIDE DEF g
<1>15. StepsComeFrom(v, steps, g) BY <1>12, <1>13, <1>14 DEF StepsComeFrom
<1>16. QED BY <1>10, <1>15

(* The elements are what is well listed on the way.                        *)
LEMMA ElementsAre ==
    ASSUME NEW path, IsList(path)
    PROVE  IsElement(path) <=> OnTheWay(path) /\ WellListed(path)
<1> DEFINE n == Len(path)
<1>1. n \in Nat /\ DOMAIN path = 1..n BY ListFacts
<1>2. ThroughLists(path, {"itemListElement"}) <=>
        \A k \in 1..n : \/ IsItem(path[k])
                        \/ path[k] = Key("itemListElement") /\ k < n /\ IsItem(path[k + 1])
  BY <1>1 DEF ThroughLists
<1>3. OnTheWay(path) <=> \A k \in 1..n : IsItem(path[k]) \/ path[k] = Key("itemListElement")
  BY <1>1 DEF OnTheWay
<1>4. WellListed(path) <=> \A k \in 1..n : IsItem(path[k]) <=> ~(k < n /\ IsItem(path[k + 1]))
  BY <1>1 DEF WellListed
<1>5. (\A k \in 2..n : ~(IsItem(path[k - 1]) /\ IsItem(path[k]))) <=>
        \A k \in 1..n : k < n => ~(IsItem(path[k]) /\ IsItem(path[k + 1]))
  <2>1. ASSUME \A k \in 2..n : ~(IsItem(path[k - 1]) /\ IsItem(path[k])), NEW k \in 1..n, k < n
        PROVE  ~(IsItem(path[k]) /\ IsItem(path[k + 1]))
    <3>1. k + 1 \in 2..n /\ (k + 1) - 1 = k BY <1>1, <2>1
    <3>2. ~(IsItem(path[(k + 1) - 1]) /\ IsItem(path[k + 1])) BY <2>1, <3>1
    <3>3. QED BY <3>1, <3>2
  <2>2. ASSUME \A k \in 1..n : k < n => ~(IsItem(path[k]) /\ IsItem(path[k + 1])), NEW k \in 2..n
        PROVE  ~(IsItem(path[k - 1]) /\ IsItem(path[k]))
    <3>1. k - 1 \in 1..n /\ k - 1 < n /\ (k - 1) + 1 = k BY <1>1, <2>2
    <3>2. ~(IsItem(path[k - 1]) /\ IsItem(path[(k - 1) + 1])) BY <2>2, <3>1
    <3>3. QED BY <3>1, <3>2
  <2>3. QED BY <2>1, <2>2
<1> HIDE DEF n
<1>6. IsElement(path) <=>
        /\ \A k \in 1..n : \/ IsItem(path[k])
                           \/ path[k] = Key("itemListElement") /\ k < n /\ IsItem(path[k + 1])
        /\ \A k \in 1..n : k < n => ~(IsItem(path[k]) /\ IsItem(path[k + 1]))
  BY <1>2, <1>5 DEF IsElement, n
<1>7. QED BY <1>3, <1>4, <1>6

(* Where one path goes on from another, there is a node.                   *)
StandsAt(v, m, at, l) ==
    /\ IsList(v[m].at) /\ Len(v[m].at) = l /\ Begins(v[m].at, at)
    /\ v[m].is = IF IsItem(at[l + 1]) THEN "list" ELSE "object"

LEMMA NodeOnTheWay ==
    ASSUME NEW v, IsValue(v), NEW j \in DOMAIN v, NEW at, at = v[j].at, NEW l \in 0..Len(at) - 1
    PROVE  \E m \in DOMAIN v : StandsAt(v, m, at, l)
<1>1. IsList(v) /\ (\A i \in DOMAIN v : IsList(v[i].at)) /\ IsTree(v) BY DEF IsValue, ListOf, Every
<1>2. DOMAIN v = 1..Len(v) /\ Len(v) \in Nat /\ IsList(at) /\ Len(at) \in Nat /\ l \in Nat /\ l <= Len(at)
  BY <1>1, ListFacts
<1>3. PICK m \in 1..j - 1 : /\ v[m].at = SubSeq(at, 1, l)
                           /\ v[m].is = IF IsItem(at[l + 1]) THEN "list" ELSE "object"
  BY <1>1 DEF IsTree
<1>4. m \in DOMAIN v BY <1>2
<1>5. Len(SubSeq(at, 1, l)) = l /\ \A d \in 1..l : SubSeq(at, 1, l)[d] = at[d] BY <1>2, StartIsList
<1>6. Len(v[m].at) = l /\ \A d \in 1..l : v[m].at[d] = at[d] BY <1>2, <1>3, <1>5
<1>7. QED BY <1>1, <1>2, <1>3, <1>4, <1>6 DEF Begins, StandsAt

(* Paths that begin one as far are one.                                    *)
LEMMA BeginsAlike ==
    ASSUME NEW a, IsList(a), NEW b, IsList(b), Len(a) = Len(b), NEW at, NEW as,
           Begins(a, at), Begins(b, as), \A d \in 1..Len(a) : at[d] = as[d]
    PROVE  a = b
BY ListEqual DEF Begins

(* A field of an object with something in it.                              *)
LEMMA FieldIsList ==
    ASSUME NEW v, IsValue(v), NEW i \in DOMAIN v, NEW m \in DOMAIN v, NEW path, path = v[i].at,
           NEW at, at = v[m].at, Begins(path, at), Len(at) = Len(path) + 1,
           NEW name, at[Len(path) + 1] = Key(name)
    PROVE  Kind(Field(Part(v, path), name)) = v[m].is
<1> DEFINE e == Part(v, path)  l == Len(path)
<1>1. IsList(v) /\ IsList(path) /\ IsList(at) BY DEF IsValue, ListOf, Every
<1>2. Len(at) \in Nat /\ l \in Nat /\ DOMAIN v = 1..Len(v) BY <1>1, ListFacts
<1>3. IsValue(e) BY <1>1, PartIsValue
<1>4. PICK p : NodesOfPart(e, v, path, p) BY <1>1, PartHasNodes
<1>5. PICK k \in 1..Len(p) : p[k] = m BY <1>2, <1>4 DEF NodesOfPart, Enumerates
<1> HIDE DEF e
<1>6. /\ IsList(e) /\ Len(e) = Len(p) /\ e[k].is = v[m].is
      /\ IsList(e[k].at) /\ l + Len(e[k].at) = Len(at)
      /\ \A d \in 1..Len(e[k].at) : e[k].at[d] = at[l + d]
  BY <1>4, <1>5 DEF NodesOfPart
<1>7. k \in DOMAIN e BY <1>6, ListFacts
<1> HIDE DEF l
<1>8. Len(e[k].at) = 1
  <2> DEFINE n == Len(e[k].at)
  <2>1. n \in Nat /\ l + n = Len(at) BY <1>6, ListFacts
  <2> HIDE DEF n
  <2>2. n = 1 BY <1>2, <2>1 DEF l
  <2>3. QED BY <2>2 DEF n
<1>9. e[k].at = <<Key(name)>>
  <2>1. IsList(<<Key(name)>>) /\ Len(<<Key(name)>>) = 1 BY OneIsAList
  <2>2. e[k].at[1] = Key(name) BY <1>6, <1>8 DEF l
  <2> HIDE DEF e
  <2>3. QED BY <1>6, <1>8, <2>1, <2>2, ListEqual
<1>10. Kind(Part(e, e[k].at)) = e[k].is BY <1>3, <1>7, PartStartsWith
<1>11. QED BY <1>6, <1>9, <1>10 DEF Field, e

(* No element is in another that says something.                           *)
LEMMA NoneInASaying ==
    ASSUME NEW v, IsValue(v), NEW i \in DOMAIN v, NEW j \in DOMAIN v, NEW a, a = v[i].at,
           NEW b, b = v[j].at, Begins(a, b), a # b, IsElement(b), Says(Part(v, a)) # <<>>
    PROVE  FALSE
<1> DEFINE l == Len(a)  e == Part(v, a)
<1>1. (\A m \in DOMAIN v : IsList(v[m].at)) /\ IsTree(v) /\ IsList(a) /\ IsList(b)
  BY DEF IsValue, ListOf, Every
<1>2. l \in Nat /\ Len(b) \in Nat /\ l <= Len(b) /\ DOMAIN b = 1..Len(b) BY <1>1, ListFacts DEF Begins
<1>3. l # Len(b) BY <1>1, ListEqual DEF Begins
<1>4. l \in 0..Len(b) - 1 /\ l + 1 \in 1..Len(b) BY <1>2, <1>3
<1>5. PICK m \in DOMAIN v : StandsAt(v, m, b, l)
  BY <1>4, NodeOnTheWay
<1>6. v[m].at = a BY <1>1, <1>5, BeginsAlike DEF StandsAt
<1>7. m = i BY <1>1, <1>6 DEF IsTree
<1>8. Kind(e) = v[i].is BY PartStartsWith
<1>9. Kind(e) = "text" \/ (IsObject(e) /\ ~IsHowToSection(e)) BY SaysIsOne
<1> HIDE DEF e
<1>10. ~IsItem(b[l + 1]) /\ ~IsHowToSection(e) BY <1>5, <1>7, <1>8, <1>9 DEF IsObject, StandsAt
<1>11. b[l + 1] = Key("itemListElement") /\ l + 1 < Len(b) /\ IsItem(b[(l + 1) + 1])
  BY <1>2, <1>4, <1>10 DEF IsElement, ThroughLists
<1>12. l + 1 \in 0..Len(b) - 1 BY <1>2, <1>11
<1>13. PICK n \in DOMAIN v : StandsAt(v, n, b, l + 1)
  BY <1>12, NodeOnTheWay
<1>14. v[n].is = "list" BY <1>11, <1>13 DEF StandsAt
<1>15. Begins(a, v[n].at) /\ v[n].at[l + 1] = Key("itemListElement")
  BY <1>2, <1>11, <1>13 DEF Begins, StandsAt
<1>16. Kind(Field(Part(v, a), "itemListElement")) = v[n].is
  <2> DEFINE at == v[n].at
  <2>1. at = v[n].at /\ Len(at) = Len(a) + 1 /\ Begins(a, at) /\ at[Len(a) + 1] = Key("itemListElement")
    BY <1>13, <1>15 DEF StandsAt
  <2> HIDE DEF at
  <2>2. QED BY <2>1, FieldIsList
<1>17. QED BY <1>10, <1>14, <1>16 DEF IsHowToSection, e

(* Of two elements that say something, the one before is read before.      *)
LEMMA SaidApart ==
    ASSUME NEW v, IsValue(v), NEW i \in DOMAIN v, NEW j \in DOMAIN v, i < j,
           NEW a, a = v[i].at, NEW b, b = v[j].at, IsElement(a), IsElement(b),
           Says(Part(v, a)) # <<>>, Says(Part(v, b)) # <<>>
    PROVE  ReadBefore(a, b)
<1>1. /\ IsList(v) /\ (\A m \in DOMAIN v : IsList(v[m].at)) /\ IsTree(v) /\ IsList(a) /\ IsList(b)
  BY DEF IsValue, ListOf, Every
<1>2. /\ Len(a) \in Nat /\ Len(b) \in Nat /\ DOMAIN a = 1..Len(a) /\ DOMAIN b = 1..Len(b)
      /\ DOMAIN v = 1..Len(v) /\ Len(v) \in Nat
  BY <1>1, ListFacts
<1>3. a # b BY <1>1, <1>2 DEF IsTree
<1>4. ~Begins(a, b) /\ ~Begins(b, a) BY <1>3, NoneInASaying
<1> DEFINE T == {d \in 1..Len(a) : d <= Len(b) /\ a[d] # b[d]}  d == Min(T)
<1>5. T # {} /\ T \subseteq Nat
  <2>1. CASE Len(a) <= Len(b)
    <3>1. PICK e \in 1..Len(a) : a[e] # b[e] BY <1>4, <2>1 DEF Begins
    <3>2. e \in T BY <1>2, <2>1, <3>1
    <3>3. QED BY <1>2, <3>2
  <2>2. CASE Len(b) <= Len(a)
    <3>1. PICK e \in 1..Len(b) : a[e] # b[e] BY <1>4, <2>2 DEF Begins
    <3>2. e \in T BY <1>2, <2>2, <3>1
    <3>3. QED BY <1>2, <3>2
  <2>3. QED BY <1>2, <2>1, <2>2
<1>6. d \in T /\ \A x \in T : d <= x
  <2> HIDE DEF T
  <2>1. QED BY <1>5, Least
<1> HIDE DEF d
<1>7. d \in 1..Len(a) /\ d \in 1..Len(b) /\ a[d] # b[d] BY <1>2, <1>6
<1>8. \A e \in 1..d - 1 : a[e] = b[e] BY <1>2, <1>6, <1>7
<1> HIDE DEF T
<1> DEFINE l == d - 1
<1>9. l \in 0..Len(a) - 1 /\ l \in 0..Len(b) - 1 /\ l + 1 = d BY <1>2, <1>7
<1> HIDE DEF l
<1>10. PICK m \in DOMAIN v : StandsAt(v, m, a, l)
  <2>1. l \in 0..Len(a) - 1 /\ a = v[i].at BY <1>9
  <2>2. QED BY ONLY IsValue(v), i \in DOMAIN v, <2>1, NodeOnTheWay
<1>11. PICK n \in DOMAIN v : StandsAt(v, n, b, l)
  <2>1. l \in 0..Len(b) - 1 /\ b = v[j].at BY <1>9
  <2>2. QED BY ONLY IsValue(v), j \in DOMAIN v, <2>1, NodeOnTheWay
<1>12. v[m].at = v[n].at
  <2>1. \A e \in 1..Len(v[m].at) : a[e] = b[e] BY <1>8, <1>10 DEF l, StandsAt
  <2>2. QED BY <1>10, <1>11, <2>1, BeginsAlike DEF StandsAt
<1>13. m = n BY <1>1, <1>12 DEF IsTree
<1>14. IsItem(a[d]) <=> IsItem(b[d])
  <2>1. IsItem(a[l + 1]) <=> IsItem(b[l + 1]) BY <1>10, <1>11, <1>13 DEF StandsAt
  <2>2. QED BY <1>9, <2>1
<1>15. IsItem(a[d]) /\ IsItem(b[d]) BY <1>2, <1>7, <1>14 DEF IsElement, ThroughLists
<1>16. a[d][2] # b[d][2] /\ a[d][2] \in Nat /\ b[d][2] \in Nat
  <2>1. IsStep(a[d]) /\ IsStep(b[d]) BY <1>1, <1>2, <1>7 DEF IsTree
  <2>2. a[d] = <<"", a[d][2]>> /\ b[d] = <<"", b[d][2]>> /\ a[d][2] \in Nat /\ b[d][2] \in Nat
    BY <1>15, <2>1 DEF IsStep, IsItem
  <2>3. QED BY <1>7, <2>2
<1>17. ASSUME b[d][2] < a[d][2] PROVE FALSE
  <2>1. ReadBefore(b, a) BY <1>2, <1>7, <1>8, <1>15, <1>17 DEF ReadBefore
  <2>2. j < i BY <1>1, <2>1 DEF IsTree
  <2>3. QED BY <1>2, <2>2
<1>18. a[d][2] < b[d][2] BY <1>16, <1>17
<1>19. QED BY <1>2, <1>7, <1>8, <1>15, <1>18 DEF ReadBefore

(* The steps of a value that is no text: one for each that is stated and   *)
(* well listed, in order.                                                  *)
LEMMA StepsAreInOrder ==
    ASSUME NEW v, IsValue(v), Kind(v) # "text", NEW steps, steps = InstructionSteps(v),
           NEW texts, texts = [k \in DOMAIN steps |-> steps[k].text]
    PROVE  StepsInOrder(v, texts)
<1>1. PICK g : StepsComeFrom(v, steps, g) BY StepsAreElements
<1>2. DOMAIN texts = DOMAIN steps /\ \A k \in DOMAIN texts : texts[k] = steps[k].text OBVIOUS
<1>3. \A i \in DOMAIN v : IsList(v[i].at) BY DEF IsValue, ListOf, Every
<1> DEFINE from == [k \in DOMAIN texts |-> v[g[k]].at]
<1>4. ASSUME NEW k \in DOMAIN texts
      PROVE  /\ g[k] \in DOMAIN v /\ from[k] = v[g[k]].at /\ IsElement(from[k])
             /\ Says(Part(v, from[k])) = <<texts[k]>> /\ Says(Part(v, from[k])) # <<>>
  BY <1>1, <1>2, OneIsAList, NoneIsAList DEF StepsComeFrom
<1>5. \A k \in DOMAIN texts : from[k] \in StatedSteps(v)
  <2> TAKE k \in DOMAIN texts
  <2>1. OnTheWay(from[k]) BY <1>3, <1>4, ElementsAre
  <2>2. QED BY <1>4, <2>1 DEF StatedSteps
<1>6. from \in [DOMAIN texts -> StatedSteps(v)] BY <1>5
<1>7. ASSUME NEW j \in DOMAIN texts, NEW k \in DOMAIN texts, j < k PROVE ReadBefore(from[j], from[k])
  <2>1. g[j] < g[k] BY <1>1, <1>2, <1>7 DEF StepsComeFrom
  <2> HIDE DEF from
  <2>2. QED BY <1>4, <2>1, SaidApart
<1>8. ASSUME NEW path \in StatedSteps(v), WellListed(path) PROVE \E k \in DOMAIN texts : from[k] = path
  <2>1. PICK i \in DOMAIN v : path = v[i].at /\ OnTheWay(path) /\ Says(Part(v, path)) # <<>>
    BY DEF StatedSteps
  <2>2. IsElement(path) BY <1>3, <1>8, <2>1, ElementsAre
  <2>3. PICK k \in DOMAIN steps : g[k] = i BY <1>1, <2>1, <2>2 DEF StepsComeFrom
  <2>4. QED BY <1>2, <2>1, <2>3
<1> HIDE DEF from
<1>9. QED BY <1>4, <1>6, <1>7, <1>8 DEF StepsInOrder

-------------------------------------------------------------------------------
(* A page is read for what it declares.                                    *)

(* A page of several recipes has been refused, and what is captured with a *)
(* recipe node is what the page declares.                                  *)
SeveralIn(page) == Len(DistinctRecipes(LoadLdObjects(page))) > 1
DeclaredInv ==
    (subject.is = "source" /\ subject.provenance = "url" /\ stage # "source") =>
        /\ SeveralIn(subject.page) => stage = "refused" /\ result = CaptureJsonLd(subject.page)
        /\ (stage = "captured" /\ Given(snapshot.payload)) =>
               snapshot = CaptureSnapshot(CaptureJsonLd(subject.page)) /\ ~IsRefused(snapshot)

(* Every step keeps it. *)
LEMMA DeclaredInvInit == Init => DeclaredInv
BY DEF Init, DeclaredInv

\* What a model captures has no recipe node.
LEMMA ModelsDeclareNothing ==
    ASSUME NEW provenance, NEW input, NEW reply,
           NEW s, s = CaptureSnapshot(CaptureByModel(provenance, input, reply)), ~IsRefused(s)
    PROVE  s.payload = <<>>
<1> DEFINE read == CaptureByModel(provenance, input, reply)  type == SourceTypeOf(provenance)
<1>1. ~IsRefused(read) /\ s.payload = read.payload BY SnapshotKeeps
<1> DEFINE unread == ~BlocksReadable(reply.blocks)
           unsaid == ~VerifyCaptureSupport(type, input, reply.blocks)
           uncounted == ~CountIsKnown(reply)  several == reply.recipeCount > 1
           blocks == ReadBlocks(reply.blocks)
<1>2. read = CASE unread -> Refused("ModelReplyError")
               [] unsaid -> Refused("UnsupportedCaptureError")
               [] uncounted -> Refused("UnknownRecipeCountError")
               [] several -> Refused("MultipleRecipesError")
               [] OTHER -> [sourceType |-> type, blocks |-> blocks, payload |-> <<>>]
  BY DEF CaptureByModel
<1> HIDE DEF read, type, unread, unsaid, uncounted, several, blocks
<1>3. QED BY <1>1, <1>2 DEF IsRefused, Refused

LEMMA ReadSourceDeclares == DocumentsInv /\ ReadSource => DeclaredInv'
<1> SUFFICES ASSUME DocumentsInv, ReadSource PROVE DeclaredInv' OBVIOUS
<1> SUFFICES ASSUME subject.is = "source", subject.provenance = "url" PROVE DeclaredInv'
  BY DEF DeclaredInv, ReadSource, ReadDeclared, AskAbout, Captured, Settle
<1> DEFINE page == subject.page  D == CaptureJsonLd(page)  read == CaptureSnapshot(D)
<1>1. ReadDeclared(D) BY DEF ReadSource
<1>2. SeveralIn(page) => IsRefused(D) /\ D.refused # "InsufficientRecipeJsonLdError"
  BY SeveralAreRefused DEF SeveralIn, IsRefused
<1>3. D = CaptureJsonLd(subject.page) /\ read = CaptureSnapshot(D) /\ page = subject.page OBVIOUS
<1> HIDE DEF read, D, page
<1>4. CASE IsRefused(D) /\ D.refused = "InsufficientRecipeJsonLdError"
  BY <1>1, <1>2, <1>3, <1>4 DEF ReadDeclared, AskAbout, Settle, DeclaredInv
<1>5. CASE ~(IsRefused(D) /\ D.refused = "InsufficientRecipeJsonLdError")
  BY <1>1, <1>2, <1>3, <1>5 DEF ReadDeclared, Captured, Settle, DeclaredInv, CaptureSnapshot
<1>6. QED BY <1>4, <1>5

LEMMA ModelReadsDeclares == DeclaredInv /\ ModelReads => DeclaredInv'
<1> SUFFICES ASSUME DeclaredInv, ModelReads PROVE DeclaredInv' OBVIOUS
<1>1. PICK reply \in Replies(subject) :
        LET read == CaptureSnapshot(CaptureByModel(subject.provenance, Input(subject), reply))
        IN  IF AsksAgain(read) THEN AskAgain(TextsIn(reply.blocks)) ELSE Captured(read)
  BY DEF ModelReads
<1> DEFINE read == CaptureSnapshot(CaptureByModel(subject.provenance, Input(subject), reply))
<1>2. ~IsRefused(read) => read.payload = <<>> BY ModelsDeclareNothing
<1>3. AskAgain(TextsIn(reply.blocks)) \/ Captured(read) BY <1>1
<1>4. stage = "reading" BY DEF ModelReads
<1> HIDE DEF read
<1>5. CASE AskAgain(TextsIn(reply.blocks)) BY <1>4, <1>5 DEF AskAgain, Settle, DeclaredInv
<1>6. CASE Captured(read) BY <1>2, <1>4, <1>6 DEF Captured, Settle, DeclaredInv, Given
<1>7. QED BY <1>3, <1>5, <1>6

LEMMA OthersDeclare ==
    DocumentsInv /\ DeclaredInv /\ (BeginNormalization \/ ModelNormalizes \/ Derive \/ Show) => DeclaredInv'
BY DEF BeginNormalization, AskAbout, Settle, DeclaredInv, ModelNormalizes, AskAgain, DocumentsInv,
   Derive, Show

(* A page of several recipes is refused, whatever comes; what is captured  *)
(* with a recipe node is the snapshot of what the page declares.           *)
THEOREM DeclaredHolds == Spec => []DeclaredInv
<1>1. ASSUME DocumentsInv, DeclaredInv, [Next]_vars PROVE DeclaredInv'
  <2>1. CASE UNCHANGED vars BY <1>1, <2>1 DEF vars, DeclaredInv
  <2>2. CASE Next
    BY <1>1, <2>2, ReadSourceDeclares, ModelReadsDeclares, OthersDeclare DEF Next
  <2>3. QED BY <1>1, <2>1, <2>2
<1>2. QED BY <1>1, DeclaredInvInit, DocumentsAreInv, PTL DEF Spec

\* Every recipe node is one of the recipes, and no two of them are one.
LEMMA RecipesAreAll ==
    ASSUME NEW page, IsPage(page), NEW nodes, nodes = RecipeNodes(page),
           NEW recipes, recipes = DistinctRecipes(LoadLdObjects(page))
    PROVE  /\ IsList(recipes)
           /\ \A i \in DOMAIN nodes : \E j \in DOMAIN recipes :
                  recipes[j] = nodes[i] \/ SameRecipe(nodes[i], recipes[j])
           /\ \A j, k \in DOMAIN recipes : j # k => ~SameRecipe(recipes[j], recipes[k])
           /\ \A k \in DOMAIN recipes : \E i \in DOMAIN nodes : recipes[k] = nodes[i]
           /\ Len(recipes) = 1 => \A i \in DOMAIN nodes :
                  RequiredSatisfiedCount(nodes[i]) <= RequiredSatisfiedCount(recipes[1])
<1> DEFINE objects == LoadLdObjects(page)
<1>1. IsList(objects) BY ObjectsAreValues DEF Values
<1>2. nodes = Filtered(objects, IsRecipe) BY DEF RecipeNodes
<1>3. recipes = DistinctRecipes(objects) OBVIOUS
<1> HIDE DEF objects
<1>4. IsList(recipes) /\ \E w : Told(nodes, recipes, w) BY <1>1, <1>2, <1>3, RecipesAreTold
<1>5. PICK w : Told(nodes, recipes, w) BY <1>4
<1>6. \A i \in DOMAIN nodes : \E j \in DOMAIN recipes :
          recipes[j] = nodes[i] \/ SameRecipe(nodes[i], recipes[j])
  BY <1>5 DEF Told
<1>7. \A k \in DOMAIN recipes : \E i \in DOMAIN nodes : recipes[k] = nodes[i] BY <1>5 DEF Told
<1>8. ASSUME Len(recipes) = 1, NEW i \in DOMAIN nodes
      PROVE  RequiredSatisfiedCount(nodes[i]) <= RequiredSatisfiedCount(recipes[1])
  BY <1>4, <1>5, <1>8, ListFacts DEF Told
<1>9. QED BY <1>4, <1>5, <1>6, <1>7, <1>8 DEF Told

\* The steps of a text are its lines.
LEMMA StepsOfText ==
    ASSUME NEW v, IsValue(v), Kind(v) = "text", NEW steps, steps = InstructionSteps(v)
    PROVE  [k \in DOMAIN steps |-> steps[k].text] = Lines(v[1].text)
<1> DEFINE lines == Lines(v[1].text)
<1> HIDE DEF lines
<1>1. QED
  BY ListFacts, LinesAreLists DEF InstructionSteps, Each, IsValue, ListOf, Every, Kind, Nothing, ListsIn

\* What is captured of the node a page declares is what it says.
LEMMA CapturedIsDeclared ==
    ASSUME NEW page, IsPage(page), NEW s, s = CaptureSnapshot(CaptureJsonLd(page)), ~IsRefused(s),
           NEW r, r = s.payload[1],
           NEW nodes, nodes = RecipeNodes(page),
           NEW recipes, recipes = DistinctRecipes(LoadLdObjects(page)),
           NEW v, v = Field(r, "recipeInstructions")
    PROVE  /\ recipes = <<r>> /\ r \in ToSet(nodes)
           /\ \A i \in DOMAIN nodes : RequiredSatisfiedCount(nodes[i]) <= RequiredSatisfiedCount(r)
           /\ TextsOf(s.blocks, "title") = AsDisplayString(Field(r, "name"))
           /\ TextsOf(s.blocks, "ingredient") = Displayed(Items(Field(r, "recipeIngredient")))
           /\ Kind(v) # "text" => StepsInOrder(v, TextsOf(s.blocks, "instruction"))
           /\ Kind(v) = "text" =>
                  FlattenSeq(TextsOf(s.blocks, "instruction")) = FlattenSeq(Lines(v[1].text))
<1> DEFINE D == CaptureJsonLd(page)
<1>1. s = CaptureSnapshot(D) OBVIOUS
<1>2. ~IsRefused(D)
  <2> HIDE DEF D
  <2>1. QED BY <1>1, SnapshotKeeps
<1>3. PICK x : /\ IsValue(x) /\ DistinctRecipes(LoadLdObjects(page)) = <<x>>
               /\ D = [sourceType |-> "url", blocks |-> RecipeToRawBlocks(x), payload |-> <<x>>]
  BY <1>2, DeclaredIsAValue
<1> HIDE DEF D
<1>4. s.payload = D.payload /\ s.blocks = AssignIds(D.blocks)
  <2> DEFINE made == [sourceType |-> D.sourceType, blocks |-> AssignIds(D.blocks), payload |-> D.payload]
  <2>1. s = IF IsSourceSnapshot(made) THEN made ELSE Refused("ZodError")
    BY <1>1, <1>2 DEF CaptureSnapshot
  <2>2. s = made
    <3> HIDE DEF made
    <3>1. QED BY <2>1 DEF IsRefused, Refused
  <2>3. QED BY <1>1, <2>2, SnapshotKeeps
<1>5. s.payload = <<x>> /\ s.blocks = AssignIds(RecipeToRawBlocks(x)) BY <1>3, <1>4
<1>6. x = r BY <1>5
<1>7. recipes = <<r>> BY <1>3, <1>6
<1>8. /\ \A k \in DOMAIN recipes : \E i \in DOMAIN nodes : recipes[k] = nodes[i]
      /\ Len(recipes) = 1 => \A i \in DOMAIN nodes :
             RequiredSatisfiedCount(nodes[i]) <= RequiredSatisfiedCount(recipes[1])
  BY RecipesAreAll
<1> DEFINE steps == InstructionSteps(v)
<1>9. IsValue(r) /\ s.blocks = AssignIds(RecipeToRawBlocks(r)) BY <1>3, <1>5, <1>6
<1>10. steps = InstructionSteps(v) /\ steps = InstructionSteps(Field(r, "recipeInstructions")) OBVIOUS
<1> HIDE DEF steps
<1>11. /\ TextsOf(s.blocks, "title") = AsDisplayString(Field(r, "name"))
       /\ TextsOf(s.blocks, "ingredient") = Displayed(Items(Field(r, "recipeIngredient")))
       /\ IsList(steps) /\ TextsOf(s.blocks, "instruction") = [k \in DOMAIN steps |-> steps[k].text]
  BY <1>9, <1>10, BlocksHold
<1>12. IsValue(v) BY <1>9, OneIsAList, PartIsValue DEF Field
<1>13. ASSUME Kind(v) # "text" PROVE StepsInOrder(v, TextsOf(s.blocks, "instruction"))
  BY <1>10, <1>11, <1>12, <1>13, StepsAreInOrder
<1>14. ASSUME Kind(v) = "text"
       PROVE  FlattenSeq(TextsOf(s.blocks, "instruction")) = FlattenSeq(Lines(v[1].text))
  BY <1>10, <1>11, <1>12, <1>14, StepsOfText
<1>15. QED BY <1>7, <1>8, <1>11, <1>13, <1>14, OneIsAList DEF ToSet

(* PagesAreReadForWhatTheyDeclare: of any page, every recipe node is one of *)
(* the recipes counted and none is counted twice, in either order of the   *)
(* nodes, and what is captured without a model is the only recipe, its     *)
(* title, every ingredient and a block for every step that is listed where *)
(* the schema lists them, in order (distinctRecipes, recipeToRawBlocks).   *)
THEOREM PagesAreReadSo == Spec => []PagesAreReadForWhatTheyDeclare
<1>1. ASSUME DocumentsInv, DeclaredInv PROVE PagesAreReadForWhatTheyDeclare
  <2> DEFINE page == subject.page
             objects == LoadLdObjects(page)
             nodes == RecipeNodes(page)
             recipes == DistinctRecipes(objects)
             reversed == Extracted(DistinctRecipes(Reverse(objects)))
             extracted == ExtractRecipeJsonLd(page)
             r == snapshot.payload[1]
             v == Field(r, "recipeInstructions")
             texts == TextsOf(snapshot.blocks, "instruction")
  <2> SUFFICES ASSUME subject.is = "source", subject.provenance = "url",
                      stage \in {"reading", "captured", "refused"}
      PROVE /\ \A i \in DOMAIN nodes : \E j \in DOMAIN recipes :
                   recipes[j] = nodes[i] \/ SameRecipe(nodes[i], recipes[j])
            /\ \A j, k \in DOMAIN recipes : j # k => ~SameRecipe(recipes[j], recipes[k])
            /\ reversed.kind = extracted.kind
            /\ extracted.kind = "multiple" => reversed.inventory.count = extracted.inventory.count
            /\ Len(recipes) > 1 => stage = "refused" /\ result.inventory.count = Len(recipes)
            /\ stage = "captured" /\ Given(snapshot.payload) =>
                  /\ recipes = <<r>> /\ r \in ToSet(nodes)
                  /\ \A i \in DOMAIN nodes : RequiredSatisfiedCount(nodes[i]) <= RequiredSatisfiedCount(r)
                  /\ TextsOf(snapshot.blocks, "title") = AsDisplayString(Field(r, "name"))
                  /\ TextsOf(snapshot.blocks, "ingredient") =
                         Displayed(Items(Field(r, "recipeIngredient")))
                  /\ Kind(v) # "text" => StepsInOrder(v, texts)
                  /\ Kind(v) = "text" =>
                         FlattenSeq(texts) = FlattenSeq(Lines(v[1].text))
    BY DEF PagesAreReadForWhatTheyDeclare, Every
  <2>1. IsPage(page) BY <1>1, SubjectsAssumption DEF DocumentsInv
  <2>2. /\ SeveralIn(page) => stage = "refused" /\ result = CaptureJsonLd(page)
        /\ (stage = "captured" /\ Given(snapshot.payload)) =>
               snapshot = CaptureSnapshot(CaptureJsonLd(page)) /\ ~IsRefused(snapshot)
    BY <1>1 DEF DeclaredInv
  <2>3. /\ nodes = RecipeNodes(page) /\ objects = LoadLdObjects(page)
        /\ recipes = DistinctRecipes(LoadLdObjects(page)) /\ recipes = DistinctRecipes(objects)
        /\ reversed = Extracted(DistinctRecipes(Reverse(objects)))
        /\ v = Field(r, "recipeInstructions") /\ r = snapshot.payload[1]
        /\ texts = TextsOf(snapshot.blocks, "instruction")
    OBVIOUS
  <2>4. extracted = Extracted(DistinctRecipes(objects)) BY DEF ExtractRecipeJsonLd
  <2> HIDE DEF page, objects, nodes, recipes, reversed, extracted, r, v, texts
  <2>5. ASSUME Len(recipes) > 1 PROVE stage = "refused" /\ result.inventory.count = Len(recipes)
    <3>1. InventoryOf(recipes).count = Len(recipes) BY DEF InventoryOf
    <3>2. QED BY <2>2, <2>3, <2>5, <3>1, SeveralAreRefused DEF SeveralIn
  <2>6. ASSUME stage = "captured", Given(snapshot.payload)
        PROVE  /\ recipes = <<r>> /\ r \in ToSet(nodes)
               /\ \A i \in DOMAIN nodes : RequiredSatisfiedCount(nodes[i]) <= RequiredSatisfiedCount(r)
               /\ TextsOf(snapshot.blocks, "title") = AsDisplayString(Field(r, "name"))
               /\ TextsOf(snapshot.blocks, "ingredient") = Displayed(Items(Field(r, "recipeIngredient")))
               /\ Kind(v) # "text" => StepsInOrder(v, TextsOf(snapshot.blocks, "instruction"))
               /\ Kind(v) = "text" =>
                      FlattenSeq(TextsOf(snapshot.blocks, "instruction")) = FlattenSeq(Lines(v[1].text))
    BY <2>1, <2>2, <2>3, <2>6, CapturedIsDeclared
  <2>7. QED
    BY <2>1, <2>3, <2>4, <2>5, <2>6, RecipesAreAll, BackwardIsTheSame, ObjectsAreValues DEF Values
<1>2. QED BY <1>1, DocumentsAreInv, DeclaredHolds, PTL

===============================================================================
