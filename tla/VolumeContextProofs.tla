------------------------- MODULE VolumeContextProofs -------------------------
(***************************************************************************)
(* The volume context carries a scope: what ToMap writes and                *)
(* NewvolumeContextFromMap reads back, for every scope.                     *)
(***************************************************************************)
EXTENDS VolumeBinding, FiniteSetTheorems, SequenceTheorems, TLAPS

\* The names an item may carry, and the scopes that ToMap may be given.
ItemNames == ListenerVolumes \cup Services \cup {None}
Scopes == [pod: BOOLEAN, node: BOOLEAN, services: Seq(ItemNames), listeners: Seq(ItemNames)]

\* The positions of the items of one kind.
Of(items, kind) == {i \in DOMAIN items : items[i].kind = kind}

\* The names of some items, in their order.
NamesOf(items) == [n \in DOMAIN items |-> items[n].name]

\* All items are of the kind; the part stands in the items after the first a.
OnlyOf(kind, items) == \A i \in 1 .. Len(items) : items[i].kind = kind
Stands(part, a, items) == \A i \in 1 .. Len(part) : items[a + i] = part[i]

\* The parts of an encoded scope, joined.
Joined(p, q, r, s) == p \o q \o r \o s

\* The k positions after the first a.
Row(a, k) == (a + 1) .. (a + k)
-----------------------------------------------------------------------------
(***************************************************************************)
(* The scope on its way through the volume context.                        *)
(***************************************************************************)
\* In a set of n positions there is a first, a second ... and an n-th: the
\* CHOOSE in Names, which stands for the append loop of decodeScope, has
\* something to choose.
LEMMA RankOnto ==
  ASSUME NEW m \in Nat, NEW of \in SUBSET (1 .. m)
  PROVE  /\ Cardinality(of) \in Nat
         /\ \A n \in 1 .. Cardinality(of) : \E i \in of : Cardinality({j \in of : j <= i}) = n
<1> DEFINE UpTo(i) == {j \in of : j <= i}
           size == Cardinality(of)
           rank == [i \in of |-> Cardinality(UpTo(i))]
<1>1. IsFiniteSet(of) /\ size \in Nat
  <2>1. IsFiniteSet(1 .. m)
    BY FS_Interval
  <2> QED BY Zenon, <2>1, FS_Subset, FS_CardinalityType
<1>2. ASSUME NEW i \in of
      PROVE  IsFiniteSet(UpTo(i)) /\ Cardinality(UpTo(i)) \in 1 .. size
  <2>1. UpTo(i) \in SUBSET of /\ i \in UpTo(i)
    OBVIOUS
  <2>2. IsFiniteSet(UpTo(i)) /\ Cardinality(UpTo(i)) <= size /\ Cardinality(UpTo(i)) \in Nat
    BY Zenon, <1>1, <2>1, FS_Subset, FS_CardinalityType
  <2>3. Cardinality(UpTo(i)) # 0
    BY Zenon, <2>1, <2>2, FS_EmptySet
  <2> QED BY <1>1, <2>2, <2>3
<1>3. ASSUME NEW i \in of, NEW k \in of, i < k
      PROVE  rank[i] # rank[k]
  <2>1. UpTo(i) \in SUBSET UpTo(k) /\ k \in UpTo(k) /\ k \notin UpTo(i)
    <3>1. i \in Nat /\ k \in Nat /\ \A j \in of : j \in Nat
      OBVIOUS
    <3>2. \A j \in UpTo(i) : j \in UpTo(k)
      BY <1>3, <3>1
    <3>3. k \in UpTo(k) /\ k \notin UpTo(i)
      BY <1>3, <3>1
    <3> HIDE DEF UpTo
    <3> QED BY Zenon, <3>2, <3>3
  <2>2. UpTo(i) # UpTo(k)
    BY Zenon, <2>1
  <2>3. Cardinality(UpTo(i)) # Cardinality(UpTo(k))
    BY Zenon, <1>2, <2>1, <2>2, FS_Subset
  <2> QED BY Zenon, <2>3
<1>4. rank \in [of -> 1 .. size]
  BY Zenon, <1>2
<1>5. rank \in Injection(of, 1 .. size)
  <2> HIDE DEF rank, size
  <2>1. \A i, k \in of : i = k \/ i < k \/ k < i
    OBVIOUS
  <2>2. \A i, k \in of : rank[i] = rank[k] => i = k
    BY Zenon, <1>3, <2>1
  <2> QED BY Zenon, <1>4, <2>2 DEF Injection, IsInjective
<1>6. IsFiniteSet(1 .. size) /\ Cardinality(1 .. size) = size
  BY <1>1, FS_Interval
<1>7. rank \in Surjection(of, 1 .. size)
  BY Zenon, <1>5, <1>6, FS_Injection
<1>8. \A n \in 1 .. size : \E i \in of : rank[i] = n
  BY Zenon, <1>7 DEF Surjection
<1> QED BY Zenon, <1>1, <1>8

\* decodeScope returns a scope: the names it collects are names of items.
LEMMA NamesType ==
  ASSUME NEW items \in Seq(Item), NEW kind
  PROVE  Names(items, kind) \in Seq(ItemNames)
<1> DEFINE of == Of(items, kind)
           Nth(n) == CHOOSE i \in of : Cardinality({j \in of : j <= i}) = n
<1>1. of \in SUBSET (1 .. Len(items)) /\ Len(items) \in Nat
  BY DEF Of
<1>2. Names(items, kind) = [n \in 1 .. Cardinality(of) |-> items[Nth(n)].name]
  BY Zenon DEF Names, Of
<1>3. ASSUME NEW n \in 1 .. Cardinality(of)
      PROVE  items[Nth(n)].name \in ItemNames
  <2> HIDE DEF of
  <2>1. \E i \in of : Cardinality({j \in of : j <= i}) = n
    BY Zenon, <1>1, RankOnto
  <2>2. Nth(n) \in 1 .. Len(items)
    BY Zenon, <1>1, <2>1
  <2> HIDE DEF Nth
  <2>3. items[Nth(n)] \in Item
    BY <2>2
  <2> QED BY Zenon, <2>3 DEF Item, ItemNames
<1>4. Cardinality(of) \in Nat
  <2> HIDE DEF of
  <2> QED BY Zenon, <1>1, RankOnto
<1> HIDE DEF of, Nth
<1> QED BY <1>2, <1>3, <1>4

LEMMA DecodedType ==
  ASSUME NEW items \in Seq(Item)
  PROVE  decodeScope(items) \in Scopes
BY Zenon, NamesType DEF decodeScope, Scopes

\* Items of one kind that stand next to each other keep their order and number.
LEMMA NamesInRow ==
  ASSUME NEW items, NEW kind, NEW a \in Nat, NEW part \in Seq(Item),
         Of(items, kind) = Row(a, Len(part)), Stands(part, a, items)
  PROVE  Names(items, kind) = NamesOf(part)
<1> DEFINE k == Len(part)
           of == (a + 1) .. (a + k)
           Nth(n) == CHOOSE i \in of : Cardinality({j \in of : j <= i}) = n
<1> k \in Nat
  OBVIOUS
<1> HIDE DEF k
<1>1. Cardinality(of) = k
  BY FS_Interval
<1>2. \A i \in of : Cardinality({j \in of : j <= i}) = i - a
  <2> SUFFICES ASSUME NEW i \in of
               PROVE  Cardinality({j \in of : j <= i}) = i - a
    OBVIOUS
  <2>1. i \in Int /\ a + 1 <= i /\ i <= a + k
    OBVIOUS
  <2>2. {j \in of : j <= i} = (a + 1) .. i
    BY <2>1
  <2>3. Cardinality((a + 1) .. i) = i - a
    BY <2>1, FS_Interval
  <2> QED BY Zenon, <2>2, <2>3
<1>3. ASSUME NEW n \in 1 .. k
      PROVE  Nth(n) = a + n
  <2>1. a + n \in of
    OBVIOUS
  <2>2. (a + n) - a = n /\ \A i \in of : i - a = n => i = a + n
    OBVIOUS
  <2> HIDE DEF of
  <2>3. \A i \in of : Cardinality({j \in of : j <= i}) = n <=> i = a + n
    BY Zenon, <1>2, <2>1, <2>2
  <2> QED BY Zenon, <2>1, <2>3
<1>4. Names(items, kind) = [n \in 1 .. Cardinality(of) |-> items[Nth(n)].name]
  <2>1. of = {i \in DOMAIN items : items[i].kind = kind}
    BY Zenon DEF Of, Row, k
  <2> HIDE DEF of
  <2> QED BY <2>1 DEF Names
<1> HIDE DEF of, Nth
<1>5. Names(items, kind) = [n \in 1 .. k |-> items[a + n].name]
  BY Zenon, <1>1, <1>3, <1>4
<1>6. \A n \in 1 .. k : items[a + n].name = part[n].name
  BY Zenon DEF Stands, k
<1>7. NamesOf(part) = [n \in 1 .. k |-> part[n].name]
  BY DEF NamesOf, k
<1> QED BY Zenon, <1>5, <1>6, <1>7

\* What encodeScope joins: every part is found again at its place.
LEMMA JoinParts ==
  ASSUME NEW p \in Seq(Item), NEW q \in Seq(Item), NEW r \in Seq(Item), NEW s \in Seq(Item),
         NEW all, all = Joined(p, q, r, s)
  PROVE  /\ all \in Seq(Item) /\ Len(all) = Len(p) + Len(q) + Len(r) + Len(s)
         /\ Stands(p, 0, all) /\ Stands(q, Len(p), all)
         /\ Stands(r, Len(p) + Len(q), all) /\ Stands(s, Len(p) + Len(q) + Len(r), all)
<1> DEFINE pq == p \o q
           pqr == p \o q \o r
<1>1. /\ pq \in Seq(Item) /\ Len(pq) = Len(p) + Len(q)
      /\ \A i \in 1 .. Len(p) + Len(q) : pq[i] = IF i <= Len(p) THEN p[i] ELSE q[i - Len(p)]
  BY Zenon, ConcatProperties
<1>2. pqr = pq \o r /\ all = pqr \o s
  BY Zenon DEF Joined
<1> HIDE DEF pq, pqr
<1>3. /\ pqr \in Seq(Item) /\ Len(pqr) = Len(pq) + Len(r)
      /\ \A i \in 1 .. Len(pq) + Len(r) : pqr[i] = IF i <= Len(pq) THEN pq[i] ELSE r[i - Len(pq)]
  <2>1. pqr = pq \o r /\ pq \in Seq(Item)
    BY Zenon, <1>1, <1>2
  <2> QED BY Zenon, <2>1, ConcatProperties
<1>4. /\ all \in Seq(Item) /\ Len(all) = Len(pqr) + Len(s)
      /\ \A i \in 1 .. Len(pqr) + Len(s) : all[i] = IF i <= Len(pqr) THEN pqr[i] ELSE s[i - Len(pqr)]
  <2>1. all = pqr \o s /\ pqr \in Seq(Item)
    BY Zenon, <1>2, <1>3
  <2> QED BY <2>1, ConcatProperties
<1>5. Len(p) \in Nat /\ Len(q) \in Nat /\ Len(r) \in Nat /\ Len(s) \in Nat
  OBVIOUS
<1>6. \A i \in 1 .. Len(p) : all[i] = p[i]
  <2> TAKE i \in 1 .. Len(p)
  <2>1. pq[i] = p[i]
    BY <1>1, <1>5
  <2>2. pqr[i] = pq[i]
    BY <1>1, <1>3, <1>5
  <2>3. all[i] = pqr[i]
    BY <1>1, <1>3, <1>4, <1>5
  <2> QED BY Zenon, <2>1, <2>2, <2>3
<1>7. \A i \in 1 .. Len(q) : all[Len(p) + i] = q[i]
  <2> TAKE i \in 1 .. Len(q)
  <2>1. pq[Len(p) + i] = q[i]
    <3>1. /\ Len(p) + i \in 1 .. Len(p) + Len(q) /\ ~(Len(p) + i <= Len(p))
          /\ (Len(p) + i) - Len(p) = i
      BY <1>5
    <3> QED BY Zenon, <1>1, <3>1
  <2>2. pqr[Len(p) + i] = pq[Len(p) + i]
    <3>1. Len(p) + i \in 1 .. Len(pq) + Len(r) /\ Len(p) + i <= Len(pq)
      BY <1>1, <1>5
    <3> QED BY Zenon, <1>3, <3>1
  <2>3. all[Len(p) + i] = pqr[Len(p) + i]
    <3>1. Len(p) + i \in 1 .. Len(pqr) + Len(s) /\ Len(p) + i <= Len(pqr)
      BY <1>1, <1>3, <1>5
    <3> QED BY Zenon, <1>4, <3>1
  <2> QED BY Zenon, <2>1, <2>2, <2>3
<1>8. \A i \in 1 .. Len(r) : all[Len(p) + Len(q) + i] = r[i]
  <2> TAKE i \in 1 .. Len(r)
  <2> DEFINE j == Len(p) + Len(q) + i
  <2>1. j \in 1 .. Len(pq) + Len(r) /\ ~(j <= Len(pq)) /\ j - Len(pq) = i
    BY <1>1, <1>5
  <2>2. j \in 1 .. Len(pqr) + Len(s) /\ j <= Len(pqr)
    BY <1>1, <1>3, <1>5
  <2> HIDE DEF j
  <2>3. pqr[j] = r[i]
    BY Zenon, <1>3, <2>1
  <2>4. all[j] = pqr[j]
    BY Zenon, <1>4, <2>2
  <2> QED BY Zenon, <2>3, <2>4 DEF j
<1>9. \A i \in 1 .. Len(s) : all[Len(p) + Len(q) + Len(r) + i] = s[i]
  <2> TAKE i \in 1 .. Len(s)
  <2> DEFINE j == Len(p) + Len(q) + Len(r) + i
  <2>1. j \in 1 .. Len(pqr) + Len(s) /\ ~(j <= Len(pqr)) /\ j - Len(pqr) = i
    BY <1>1, <1>3, <1>5
  <2> HIDE DEF j
  <2>2. all[j] = s[i]
    BY Zenon, <1>4, <2>1
  <2> QED BY Zenon, <2>2 DEF j
<1>10. Stands(p, 0, all)
  <2>1. \A i \in 1 .. Len(p) : 0 + i = i
    OBVIOUS
  <2> QED BY Zenon, <1>6, <2>1 DEF Stands
<1>11. /\ Stands(q, Len(p), all) /\ Stands(r, Len(p) + Len(q), all)
       /\ Stands(s, Len(p) + Len(q) + Len(r), all)
  BY Zenon, <1>7, <1>8, <1>9 DEF Stands
<1> QED BY Zenon, <1>1, <1>3, <1>4, <1>10, <1>11

\* decodeScope sorts the items of an encoded scope by their kinds again.
LEMMA JoinedNames ==
  ASSUME NEW p \in Seq(Item), NEW q \in Seq(Item), NEW r \in Seq(Item), NEW s \in Seq(Item),
         OnlyOf("pod", p), OnlyOf("node", q), OnlyOf("service", r), OnlyOf("listener-volume", s),
         NEW all, all = Joined(p, q, r, s)
  PROVE  /\ all \in Seq(Item)
         /\ Names(all, "pod") = NamesOf(p) /\ Names(all, "node") = NamesOf(q)
         /\ Names(all, "service") = NamesOf(r) /\ Names(all, "listener-volume") = NamesOf(s)
<1> DEFINE a == Len(p)
           b == a + Len(q)
           c == b + Len(r)
<1>1. /\ Len(p) \in Nat /\ Len(q) \in Nat /\ Len(r) \in Nat /\ Len(s) \in Nat
      /\ a \in Nat /\ b \in Nat /\ c \in Nat
  OBVIOUS
<1>2. /\ all \in Seq(Item) /\ Len(all) = c + Len(s)
      /\ Stands(p, 0, all) /\ Stands(q, a, all) /\ Stands(r, b, all) /\ Stands(s, c, all)
  <2>1. all \in Seq(Item)
    BY Zenon, JoinParts
  <2>2. Len(all) = Len(p) + Len(q) + Len(r) + Len(s)
    BY JoinParts
  <2>3. Stands(p, 0, all) /\ Stands(q, Len(p), all)
    BY Zenon, JoinParts
  <2>4. Stands(r, Len(p) + Len(q), all) /\ Stands(s, Len(p) + Len(q) + Len(r), all)
    BY Zenon, JoinParts
  <2> QED BY Zenon, <2>1, <2>2, <2>3, <2>4
<1>3. DOMAIN all = 1 .. c + Len(s)
  BY <1>2
<1>4. /\ \A i \in 1 .. a : all[i].kind = "pod"
      /\ \A i \in (a + 1) .. b : all[i].kind = "node"
      /\ \A i \in (b + 1) .. c : all[i].kind = "service"
      /\ \A i \in (c + 1) .. (c + Len(s)) : all[i].kind = "listener-volume"
  <2>1. ASSUME NEW i \in 1 .. a PROVE all[i].kind = "pod"
    <3>1. 0 + i = i /\ i \in 1 .. Len(p)
      OBVIOUS
    <3>2. all[0 + i] = p[i]
      BY Zenon, <3>1, <1>2 DEF Stands
    <3> QED BY <3>1, <3>2 DEF OnlyOf
  <2>2. ASSUME NEW i \in (a + 1) .. b PROVE all[i].kind = "node"
    <3>1. i - a \in 1 .. Len(q) /\ a + (i - a) = i
      BY <1>1
    <3> HIDE DEF a, b, c
    <3>2. all[a + (i - a)] = q[i - a]
      BY Zenon, <3>1, <1>2 DEF Stands
    <3> QED BY <3>1, <3>2 DEF OnlyOf
  <2>3. ASSUME NEW i \in (b + 1) .. c PROVE all[i].kind = "service"
    <3>1. i - b \in 1 .. Len(r) /\ b + (i - b) = i
      BY <1>1
    <3> HIDE DEF a, b, c
    <3>2. all[b + (i - b)] = r[i - b]
      BY Zenon, <3>1, <1>2 DEF Stands
    <3> QED BY <3>1, <3>2 DEF OnlyOf
  <2>4. ASSUME NEW i \in (c + 1) .. (c + Len(s)) PROVE all[i].kind = "listener-volume"
    <3>1. i - c \in 1 .. Len(s) /\ c + (i - c) = i
      BY <1>1
    <3> HIDE DEF a, b, c
    <3>2. all[c + (i - c)] = s[i - c]
      BY Zenon, <3>1, <1>2 DEF Stands
    <3> QED BY <3>1, <3>2 DEF OnlyOf
  <2> HIDE DEF a, b, c
  <2> QED BY Zenon, <2>1, <2>2, <2>3, <2>4
<1>5. /\ \A i \in DOMAIN all : \/ i \in 1 .. a \/ i \in (a + 1) .. b
                               \/ i \in (b + 1) .. c \/ i \in (c + 1) .. (c + Len(s))
      /\ 1 .. a \subseteq DOMAIN all /\ (a + 1) .. b \subseteq DOMAIN all
      /\ (b + 1) .. c \subseteq DOMAIN all /\ (c + 1) .. (c + Len(s)) \subseteq DOMAIN all
  BY <1>1, <1>3
<1>6. /\ Of(all, "pod") = 1 .. a /\ Of(all, "node") = (a + 1) .. b
      /\ Of(all, "service") = (b + 1) .. c
      /\ Of(all, "listener-volume") = (c + 1) .. (c + Len(s))
  <2> HIDE DEF a, b, c
  <2>1. Of(all, "pod") = 1 .. a
    BY Zenon, <1>4, <1>5 DEF Of
  <2>2. Of(all, "node") = (a + 1) .. b
    BY Zenon, <1>4, <1>5 DEF Of
  <2>3. Of(all, "service") = (b + 1) .. c
    BY Zenon, <1>4, <1>5 DEF Of
  <2>4. Of(all, "listener-volume") = (c + 1) .. (c + Len(s))
    BY Zenon, <1>4, <1>5 DEF Of
  <2> QED BY Zenon, <2>1, <2>2, <2>3, <2>4
<1>7. /\ Of(all, "pod") = Row(0, Len(p)) /\ Of(all, "node") = Row(a, Len(q))
      /\ Of(all, "service") = Row(b, Len(r)) /\ Of(all, "listener-volume") = Row(c, Len(s))
  BY <1>6 DEF Row
<1> HIDE DEF a, b, c
<1>8. Names(all, "pod") = NamesOf(p) /\ Names(all, "node") = NamesOf(q)
  BY Zenon, <1>1, <1>2, <1>7, NamesInRow, 0 \in Nat
<1>9. Names(all, "service") = NamesOf(r) /\ Names(all, "listener-volume") = NamesOf(s)
  BY Zenon, <1>1, <1>2, <1>7, NamesInRow
<1> QED BY Zenon, <1>2, <1>8, <1>9

\* The parts of an encoded scope are items of their kinds, with the names.
LEMMA EncodedType ==
  ASSUME NEW kind \in {"pod", "node", "service", "listener-volume"}, NEW names \in Seq(ItemNames)
  PROVE  /\ Encoded(kind, names) \in Seq(Item)
         /\ OnlyOf(kind, Encoded(kind, names))
         /\ NamesOf(Encoded(kind, names)) = names
<1> DEFINE items == Encoded(kind, names)
<1>1. items = [i \in 1 .. Len(names) |-> [kind |-> kind, name |-> names[i]]]
  BY DEF Encoded
<1>2. \A i \in 1 .. Len(names) : [kind |-> kind, name |-> names[i]] \in Item
  BY DEF Item, ItemNames
<1> HIDE DEF items
<1>3. items \in Seq(Item) /\ Len(items) = Len(names)
  BY <1>1, <1>2
<1>4. \A i \in 1 .. Len(names) : items[i].kind = kind /\ items[i].name = names[i]
  BY Zenon, <1>1
<1>5. names = [i \in 1 .. Len(names) |-> names[i]] /\ DOMAIN items = 1 .. Len(names)
  BY <1>1
<1>6. NamesOf(items) = names
  BY Zenon, <1>4, <1>5 DEF NamesOf
<1>7. OnlyOf(kind, items)
  BY Zenon, <1>3, <1>4 DEF OnlyOf
<1> QED BY Zenon, <1>3, <1>6, <1>7 DEF items

\* CreateVolume writes the scope with ToMap and NodePublishVolume reads it with
\* NewvolumeContextFromMap: whatever the scope, it comes back unchanged, the
\* names in their order and with their repetitions.
THEOREM ScopeSurvives ==
  ASSUME NEW scope \in Scopes
  PROVE  ToMap(scope) \in Seq(Item) /\ NewvolumeContextFromMap(ToMap(scope)) = scope
<1> DEFINE one == <<None>>
           p == IF scope.pod THEN Encoded("pod", one) ELSE <<>>
           q == IF scope.node THEN Encoded("node", one) ELSE <<>>
           r == Encoded("service", scope.services)
           s == Encoded("listener-volume", scope.listeners)
           all == p \o q \o r \o s
<1>1. /\ scope.pod \in BOOLEAN /\ scope.node \in BOOLEAN
      /\ scope.services \in Seq(ItemNames) /\ scope.listeners \in Seq(ItemNames)
      /\ scope = [pod |-> scope.pod, node |-> scope.node, services |-> scope.services,
                  listeners |-> scope.listeners]
  BY Zenon DEF Scopes
<1>2. one \in Seq(ItemNames) /\ one # <<>>
  BY DEF ItemNames
<1>3. <<>> \in Seq(Item) /\ NamesOf(<<>>) = <<>> /\ \A kind : OnlyOf(kind, <<>>)
  BY DEF NamesOf, OnlyOf
<1>4. ToMap(scope) = all
  BY Zenon DEF ToMap, encodeScope
<1> HIDE DEF one
<1>5. /\ p \in Seq(Item) /\ OnlyOf("pod", p)
      /\ (NamesOf(p) # <<>>) = scope.pod
  <2>1. CASE scope.pod
    <3>1. p = Encoded("pod", one)
      BY Zenon, <2>1
    <3> HIDE DEF p
    <3>2. NamesOf(p) = one /\ p \in Seq(Item) /\ OnlyOf("pod", p)
      BY <1>2, <3>1, EncodedType
    <3> QED BY <1>1, <1>2, <2>1, <3>2
  <2>2. CASE ~scope.pod
    <3>1. p = <<>>
      BY Zenon, <2>2
    <3> HIDE DEF p
    <3> QED BY <1>1, <1>3, <2>2, <3>1
  <2> QED BY Zenon, <2>1, <2>2
<1>6. /\ q \in Seq(Item) /\ OnlyOf("node", q)
      /\ (NamesOf(q) # <<>>) = scope.node
  <2>1. CASE scope.node
    <3>1. q = Encoded("node", one)
      BY Zenon, <2>1
    <3> HIDE DEF q
    <3>2. NamesOf(q) = one /\ q \in Seq(Item) /\ OnlyOf("node", q)
      BY Zenon, <1>2, <3>1, EncodedType
    <3> QED BY <1>1, <1>2, <2>1, <3>2
  <2>2. CASE ~scope.node
    <3>1. q = <<>>
      BY Zenon, <2>2
    <3> HIDE DEF q
    <3> QED BY <1>1, <1>3, <2>2, <3>1
  <2> QED BY Zenon, <2>1, <2>2
<1>7. /\ r \in Seq(Item) /\ OnlyOf("service", r)
      /\ NamesOf(r) = scope.services
  BY Zenon, <1>1, EncodedType
<1>8. /\ s \in Seq(Item) /\ OnlyOf("listener-volume", s)
      /\ NamesOf(s) = scope.listeners
  BY Zenon, <1>1, EncodedType
<1>9. all = Joined(p, q, r, s)
  BY Zenon DEF Joined
<1> HIDE DEF p, q, r, s, all
<1>10. /\ all \in Seq(Item)
       /\ Names(all, "pod") = NamesOf(p) /\ Names(all, "node") = NamesOf(q)
       /\ Names(all, "service") = NamesOf(r) /\ Names(all, "listener-volume") = NamesOf(s)
  <2>1. p \in Seq(Item) /\ q \in Seq(Item) /\ r \in Seq(Item) /\ s \in Seq(Item)
    BY Zenon, <1>5, <1>6, <1>7, <1>8
  <2>2. OnlyOf("pod", p) /\ OnlyOf("node", q) /\ OnlyOf("service", r) /\ OnlyOf("listener-volume", s)
    BY Zenon, <1>5, <1>6, <1>7, <1>8
  <2> QED BY <1>9, <2>1, <2>2, JoinedNames
<1>11. decodeScope(all) = scope
  BY Zenon, <1>1, <1>5, <1>6, <1>7, <1>8, <1>10 DEF decodeScope
<1> QED BY <1>4, <1>10, <1>11 DEF NewvolumeContextFromMap
==============================================================================
