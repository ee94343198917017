-------------------------- MODULE PluginSlotsProofs --------------------------
(***************************************************************************)
(* Proofs about PluginSlots: numbers of slots keep their meaning, and a    *)
(* tick runs its owner, for any plugins, files and handlers.               *)
(***************************************************************************)
EXTENDS PluginSlots, NumberLemmas

------------------------------------------------------------------------------
(* Positions by descending key, equal keys by position.                     *)
LEMMA AheadIsOrder ==
    ASSUME NEW n \in Nat, NEW key \in [1..n -> Nat]
    PROVE  TotalOrder(1..n, Ahead(key))
<1>1. \A x, y \in 1..n : <<x, y>> \in Ahead(key) <=>
                         (key[x] > key[y] \/ (key[x] = key[y] /\ x <= y))
  BY DEF Ahead
<1>2. \A x \in 1..n : key[x] \in Nat
  OBVIOUS
<1>3. ASSUME NEW x \in 1..n, NEW y \in 1..n
      PROVE  /\ <<x, y>> \in Ahead(key) \/ <<y, x>> \in Ahead(key)
             /\ <<x, y>> \in Ahead(key) /\ <<y, x>> \in Ahead(key) => x = y
  BY <1>1, <1>2
<1>4. ASSUME NEW x \in 1..n, NEW y \in 1..n, NEW z \in 1..n,
             <<x, y>> \in Ahead(key), <<y, z>> \in Ahead(key)
      PROVE  <<x, z>> \in Ahead(key)
  <2>1. key[x] \in Nat /\ key[y] \in Nat /\ key[z] \in Nat
    BY <1>2
  <2>2. /\ key[x] > key[y] \/ (key[x] = key[y] /\ x <= y)
        /\ key[y] > key[z] \/ (key[y] = key[z] /\ y <= z)
    BY <1>1, <1>4
  <2>3. key[x] > key[z] \/ (key[x] = key[z] /\ x <= z)
    BY <2>1, <2>2
  <2>4. QED
    BY <1>1, <2>3
<1>5. QED
  BY <1>3, <1>4 DEF TotalOrder

(* retain: what is left, and nothing twice that was there once.             *)
LEMMA WithoutSeq ==
    ASSUME NEW T, NEW s \in Seq(T), NEW S
    PROVE  /\ Without(s, S) \in Seq(T)
           /\ ToSet(Without(s, S)) = ToSet(s) \ S
           /\ IsInjective(s) => IsInjective(Without(s, S))
<1> DEFINE K == {k \in DOMAIN s : s[k] \notin S}
           n == Cardinality(K)
           a == Arranged(s, K, Upward(K))
           at == InOrder(K, Upward(K))
<1>1. TotalOrder(K, Upward(K))
  <2>1. K \in SUBSET Nat
    OBVIOUS
  <2>2. QED
    BY <2>1, UpwardIsOrder
<1>2. K \in SUBSET DOMAIN s
  OBVIOUS
<1>3. Without(s, S) = a
  BY DEF Without, Kept
<1>4. \A k \in DOMAIN s : k \in K <=> s[k] \notin S
  OBVIOUS
<1> HIDE DEF K
<1>5. /\ a \in Seq(T) /\ Len(a) = n
      /\ \A i \in K : \E k \in 1..n : a[k] = s[i]
      /\ IsInjective(s) => IsInjective(a)
      /\ \A k \in 1..n : at[k] \in K /\ a[k] = s[at[k]]
  BY <1>1, <1>2, ArrangedSeq
<1> HIDE DEF n, a, at
<1>6. DOMAIN a = 1..n
  BY <1>5
<1>7. ASSUME NEW y \in ToSet(a) PROVE y \in ToSet(s) \ S
  <2>1. PICK k \in 1..n : y = a[k]
    BY <1>6 DEF ToSet
  <2>2. y = s[at[k]] /\ at[k] \in K
    BY <1>5, <2>1
  <2>3. QED
    BY <1>2, <1>4, <2>2 DEF ToSet
<1>8. ASSUME NEW y \in ToSet(s) \ S PROVE y \in ToSet(a)
  <2>1. PICK i \in DOMAIN s : y = s[i]
    BY DEF ToSet
  <2>2. i \in K
    BY <1>4, <2>1
  <2>3. PICK k \in 1..n : a[k] = s[i]
    BY <1>5, <2>2
  <2>4. QED
    BY <1>6, <2>1, <2>3 DEF ToSet
<1>9. QED
  BY <1>3, <1>5, <1>7, <1>8

(* sort_by_key: the same members, by descending key.                        *)
LEMMA DescendingSeq ==
    ASSUME NEW T, NEW s \in Seq(T), NEW key \in [DOMAIN s -> Nat]
    PROVE  /\ StableDescending(s, key) \in Seq(T)
           /\ ToSet(StableDescending(s, key)) = ToSet(s)
           /\ IsInjective(s) => IsInjective(StableDescending(s, key))
           /\ DOMAIN StableDescending(s, key) = DOMAIN s
           /\ \A i, j \in DOMAIN s : i < j =>
                \E k, l \in DOMAIN s : /\ StableDescending(s, key)[i] = s[k]
                                       /\ StableDescending(s, key)[j] = s[l]
                                       /\ key[k] >= key[l]
<1> DEFINE K  == DOMAIN s
           at == InOrder(K, Ahead(key))
           a  == Arranged(s, K, Ahead(key))
<1>1. K = 1..Len(s) /\ Cardinality(K) = Len(s) /\ IsFiniteSet(K)
  BY FS_Interval
<1>2. TotalOrder(K, Ahead(key))
  BY <1>1, AheadIsOrder
<1>3. StableDescending(s, key) = a
  BY DEF StableDescending
<1>4. K \in SUBSET DOMAIN s
  OBVIOUS
<1>5. 1..Cardinality(K) = K
  BY <1>1
<1>6. \A k \in K : key[k] \in Nat
  OBVIOUS
<1>7. ToSet(s) = {s[i] : i \in K}
  BY DEF ToSet
<1>8. \A p, q \in K : <<p, q>> \in Ahead(key) => key[p] > key[q] \/ key[p] = key[q]
  BY DEF Ahead
<1>9. K = DOMAIN s
  OBVIOUS
<1> HIDE DEF K
<1>10. /\ a \in Seq(T) /\ Len(a) = Cardinality(K)
       /\ \A i \in K : \E k \in 1..Cardinality(K) : a[k] = s[i]
       /\ IsInjective(s) => IsInjective(a)
       /\ \A k \in 1..Cardinality(K) : at[k] \in K /\ a[k] = s[at[k]]
  BY <1>2, <1>4, ArrangedSeq
<1>11. \A k, l \in 1..Cardinality(K) : k < l => <<at[k], at[l]>> \in Ahead(key)
  BY <1>1, <1>2, MembersInOrder
<1> HIDE DEF at, a
<1>12. DOMAIN a = K
  BY <1>5, <1>10
<1>13. ToSet(a) = ToSet(s)
  <2>1. ASSUME NEW y \in ToSet(a) PROVE y \in ToSet(s)
    <3>1. PICK k \in K : y = a[k]
      BY <1>12 DEF ToSet
    <3>2. QED
      BY <1>5, <1>7, <1>10, <3>1
  <2>2. ASSUME NEW y \in ToSet(s) PROVE y \in ToSet(a)
    <3>1. PICK i \in K : y = s[i]
      BY <1>7
    <3>2. PICK k \in K : a[k] = s[i]
      BY <1>5, <1>10
    <3>3. QED
      BY <1>12, <3>1, <3>2 DEF ToSet
  <2>3. QED
    BY <2>1, <2>2
<1>14. ASSUME NEW i \in K, NEW j \in K, i < j
       PROVE  \E k, l \in K : a[i] = s[k] /\ a[j] = s[l] /\ key[k] >= key[l]
  <2>1. <<at[i], at[j]>> \in Ahead(key)
    BY <1>5, <1>11, <1>14
  <2>2. at[i] \in K /\ at[j] \in K /\ a[i] = s[at[i]] /\ a[j] = s[at[j]]
    BY <1>5, <1>10
  <2>3. key[at[i]] > key[at[j]] \/ key[at[i]] = key[at[j]]
    BY <1>8, <2>1, <2>2
  <2>4. key[at[i]] \in Nat /\ key[at[j]] \in Nat
    BY <1>6, <2>2
  <2>5. key[at[i]] >= key[at[j]]
    BY <2>3, <2>4
  <2>6. QED
    BY <2>2, <2>5
<1>15. QED
  BY <1>3, <1>9, <1>10, <1>12, <1>13, <1>14

------------------------------------------------------------------------------
(* Managers.  The lists of a manager speak of the slots S; its ticks are    *)
(* numbered below next.                                                     *)
Lists(x, S) ==
    /\ S \subseteq DOMAIN x.slots
    /\ \A c \in CmdNames : /\ ToSet(x.cmds[c]) = {i \in S : c \in x.slots[i].set.cmds}
                           /\ IsInjective(x.cmds[c])
    /\ x.msgs = {i \in S : x.slots[i].set.msg}

Numbered(x) ==
    /\ IsFiniteSet(x.ticks)
    /\ \A t \in x.ticks : t.id < x.next
    /\ \A t, u \in x.ticks : t.id = u.id => t = u

Ordered(x) ==
    \A c \in CmdNames : \A i, j \in DOMAIN x.cmds[c] :
        i < j => Prio(x, x.cmds[c][i]) >= Prio(x, x.cmds[c][j])

(* A tick of y is one of x, perhaps with another slot, or was registered    *)
(* later.                                                                   *)
Renewed(x, y) ==
    /\ x.next <= y.next
    /\ \A t \in y.ticks : \/ t.id >= x.next
                          \/ \E u \in x.ticks : u.id = t.id /\ u.owner = t.owner

(* Renewals may be chained.                                                 *)
LEMMA RenewedIsTransitive ==
    ASSUME NEW x \in Manager, NEW y \in Manager, NEW z \in Manager, Renewed(x, y), Renewed(y, z)
    PROVE  Renewed(x, z)
<1>1. x.next \in Nat /\ y.next \in Nat /\ z.next \in Nat
  BY DEF Manager
<1>2. x.next <= z.next
  BY <1>1 DEF Renewed
<1>3. ASSUME NEW t \in z.ticks
      PROVE  t.id >= x.next \/ \E u \in x.ticks : u.id = t.id /\ u.owner = t.owner
  <2>1. CASE t.id >= y.next
    <3>1. t.id \in Nat
      BY DEF Manager, TickEntry
    <3>2. QED
      BY <1>1, <2>1, <3>1 DEF Renewed
  <2>2. CASE \E u \in y.ticks : u.id = t.id /\ u.owner = t.owner
    BY <2>2 DEF Renewed
  <2>3. QED
    BY <2>1, <2>2 DEF Renewed
<1>4. QED
  BY <1>2, <1>3 DEF Renewed

(* A manager that stays renews nothing.                                     *)
LEMMA RenewedIsReflexive ==
    ASSUME NEW x \in Manager
    PROVE  Renewed(x, x)
<1>1. x.next \in Nat
  BY DEF Manager
<1>2. QED
  BY <1>1 DEF Renewed

(* The fields of a setting.                                                 *)
LEMMA SetPriorities == \A set \in Settings : /\ set.prio \in Nat /\ set.cmds \in SUBSET CmdNames
                                             /\ set.msg \in BOOLEAN /\ set.tick \in BOOLEAN
BY SettingsAssumption

(* The fields of a slot.                                                    *)
LEMMA SlotFields ==
    ASSUME NEW x \in Manager, NEW i \in DOMAIN x.slots
    PROVE  /\ x.slots[i] \in Slot /\ x.slots[i].name \in Names /\ x.slots[i].set \in Settings
           /\ x.slots[i].inst \in Instance \union {NoInstance}
           /\ x.slots[i].lost \in Nat /\ x.slots[i].fails \in Nat
           /\ i \in Position
<1>1. x.slots \in Seq(Slot)
  BY DEF Manager
<1>2. x.slots[i] \in Slot /\ i \in Nat \ {0}
  BY <1>1
<1>3. QED
  BY <1>2 DEF Slot, Position

(* Sorting the command map changes the order of its lists and nothing else. *)
LEMMA SortedManager ==
    ASSUME NEW x \in Manager, NEW S, Lists(x, S)
    PROVE  /\ Sorted(x) \in Manager
           /\ Sorted(x).slots = x.slots /\ Sorted(x).msgs = x.msgs
           /\ Sorted(x).ticks = x.ticks /\ Sorted(x).next = x.next
           /\ Lists(Sorted(x), S) /\ Ordered(Sorted(x))
<1> DEFINE y == Sorted(x)
           s(c) == x.cmds[c]
           key(c) == [i \in DOMAIN s(c) |-> Prio(x, s(c)[i])]
           d(c) == StableDescending(s(c), key(c))
<1>1. y = [x EXCEPT !.cmds = [c \in CmdNames |-> d(c)]]
  BY DEF Sorted, ByPriority
<1>2. \A c \in CmdNames : s(c) \in Seq(Position)
  BY DEF Manager
<1>3. ASSUME NEW c \in CmdNames
      PROVE  key(c) \in [DOMAIN s(c) -> Nat] /\ \A i \in DOMAIN s(c) : key(c)[i] = Prio(x, s(c)[i])
  <2>1. ASSUME NEW i \in DOMAIN s(c) PROVE Prio(x, s(c)[i]) \in Nat
    <3>1. s(c)[i] \in ToSet(s(c))
      BY DEF ToSet
    <3>2. s(c)[i] \in DOMAIN x.slots
      BY <3>1 DEF Lists
    <3>3. QED
      BY <3>2, SlotFields, SetPriorities DEF Prio
  <2>2. QED
    BY <2>1
<1> HIDE DEF key
<1>4. ASSUME NEW c \in CmdNames
      PROVE  /\ d(c) \in Seq(Position) /\ ToSet(d(c)) = ToSet(s(c)) /\ DOMAIN d(c) = DOMAIN s(c)
             /\ IsInjective(s(c)) => IsInjective(d(c))
             /\ \A i, j \in DOMAIN d(c) : i < j => Prio(x, d(c)[i]) >= Prio(x, d(c)[j])
  <2>1. /\ d(c) \in Seq(Position) /\ ToSet(d(c)) = ToSet(s(c)) /\ DOMAIN d(c) = DOMAIN s(c)
        /\ IsInjective(s(c)) => IsInjective(d(c))
        /\ \A i, j \in DOMAIN s(c) : i < j =>
             \E k, l \in DOMAIN s(c) : d(c)[i] = s(c)[k] /\ d(c)[j] = s(c)[l] /\ key(c)[k] >= key(c)[l]
    <3> DEFINE ss == s(c)
               kk == key(c)
    <3>1. ss \in Seq(Position) /\ kk \in [DOMAIN ss -> Nat]
      BY <1>2, <1>3
    <3> HIDE DEF ss, kk
    <3>2. /\ StableDescending(ss, kk) \in Seq(Position)
          /\ ToSet(StableDescending(ss, kk)) = ToSet(ss)
          /\ DOMAIN StableDescending(ss, kk) = DOMAIN ss
          /\ IsInjective(ss) => IsInjective(StableDescending(ss, kk))
          /\ \A i, j \in DOMAIN ss : i < j =>
               \E k, l \in DOMAIN ss : /\ StableDescending(ss, kk)[i] = ss[k]
                                       /\ StableDescending(ss, kk)[j] = ss[l] /\ kk[k] >= kk[l]
      BY <3>1, DescendingSeq
    <3>3. QED
      BY <3>2 DEF ss, kk
  <2>2. QED
    BY <1>3, <2>1
<1> HIDE DEF d
<1>5. [c \in CmdNames |-> d(c)] \in [CmdNames -> Seq(Position)]
  BY <1>4
<1>6. /\ y.slots = x.slots /\ y.msgs = x.msgs /\ y.ticks = x.ticks /\ y.next = x.next
      /\ \A c \in CmdNames : y.cmds[c] = d(c)
  BY <1>1 DEF Manager
<1>7. y \in Manager
  BY <1>1, <1>5 DEF Manager
<1> HIDE DEF y
<1>8. Lists(y, S)
  BY <1>4, <1>6 DEF Lists
<1>9. Ordered(y)
  <2>1. \A i : Prio(y, i) = Prio(x, i)
    BY <1>6 DEF Prio
  <2>2. QED
    BY <1>4, <1>6, <2>1 DEF Ordered
<1>10. QED
  BY <1>6, <1>7, <1>8, <1>9 DEF y

(* What leaves the lists, and that nothing else changes.                    *)
LEMMA UnlistedFields ==
    ASSUME NEW x \in Manager, NEW G
    PROVE  /\ Unlisted(x, G) \in Manager
           /\ Unlisted(x, G).slots = x.slots
           /\ Unlisted(x, G).ticks = x.ticks /\ Unlisted(x, G).next = x.next
           /\ Unlisted(x, G).msgs = x.msgs \ G
           /\ \A c \in CmdNames :
                /\ ToSet(Unlisted(x, G).cmds[c]) = ToSet(x.cmds[c]) \ G
                /\ IsInjective(x.cmds[c]) => IsInjective(Unlisted(x, G).cmds[c])
<1> DEFINE y == Unlisted(x, G)
           s(c) == x.cmds[c]
           w(c) == Without(s(c), G)
<1>1. y = [x EXCEPT !.cmds = [c \in CmdNames |-> w(c)], !.msgs = x.msgs \ G]
  BY DEF Unlisted
<1>2. \A c \in CmdNames : s(c) \in Seq(Position)
  BY DEF Manager
<1>3. ASSUME NEW c \in CmdNames
      PROVE  /\ w(c) \in Seq(Position) /\ ToSet(w(c)) = ToSet(s(c)) \ G
             /\ IsInjective(s(c)) => IsInjective(w(c))
  BY <1>2, WithoutSeq
<1> HIDE DEF w
<1>4. [c \in CmdNames |-> w(c)] \in [CmdNames -> Seq(Position)]
  BY <1>3
<1>5. x.msgs \ G \in SUBSET Position
  BY DEF Manager
<1>6. /\ y.slots = x.slots /\ y.msgs = x.msgs \ G /\ y.ticks = x.ticks /\ y.next = x.next
      /\ \A c \in CmdNames : y.cmds[c] = w(c)
  BY <1>1 DEF Manager
<1>7. y \in Manager
  BY <1>1, <1>4, <1>5 DEF Manager
<1> HIDE DEF y
<1>8. \A c \in CmdNames : /\ ToSet(y.cmds[c]) = ToSet(x.cmds[c]) \ G
                          /\ IsInjective(x.cmds[c]) => IsInjective(y.cmds[c])
  BY <1>3, <1>6
<1>9. QED
  BY <1>6, <1>7, <1>8 DEF y

(* What an unlisted slot holds may have changed before.                     *)
LEMMA UnlistedManager ==
    ASSUME NEW x \in Manager, NEW S, Lists(x, S), NEW G, NEW z \in Manager,
           z.cmds = x.cmds, z.msgs = x.msgs, S \ G \subseteq DOMAIN z.slots,
           \A i \in S \ G : z.slots[i].set = x.slots[i].set
    PROVE  Lists(Unlisted(z, G), S \ G)
<1> DEFINE y == Unlisted(z, G)
<1>1. /\ y.slots = z.slots /\ y.msgs = z.msgs \ G
      /\ \A c \in CmdNames : /\ ToSet(y.cmds[c]) = ToSet(z.cmds[c]) \ G
                             /\ IsInjective(z.cmds[c]) => IsInjective(y.cmds[c])
  BY UnlistedFields
<1> HIDE DEF y
<1>2. ASSUME NEW c \in CmdNames
      PROVE  /\ ToSet(y.cmds[c]) = {i \in S \ G : c \in y.slots[i].set.cmds}
             /\ IsInjective(y.cmds[c])
  BY <1>1 DEF Lists
<1>3. y.msgs = {i \in S \ G : y.slots[i].set.msg}
  BY <1>1 DEF Lists
<1>4. S \ G \subseteq DOMAIN y.slots
  BY <1>1
<1>5. QED
  BY <1>2, <1>3, <1>4 DEF Lists, y

(* A slot that was in no list is in those its setting names.                *)
LEMMA ListedManager ==
    ASSUME NEW x \in Manager, NEW S, Lists(x, S), NEW i \in DOMAIN x.slots, i \notin S
    PROVE  /\ Listed(x, i) \in Manager
           /\ Listed(x, i).slots = x.slots
           /\ Listed(x, i).ticks = x.ticks /\ Listed(x, i).next = x.next
           /\ Lists(Listed(x, i), S \union {i})
<1> DEFINE y == Listed(x, i)
           set == x.slots[i].set
           s(c) == x.cmds[c]
           l(c) == IF c \in set.cmds THEN Append(s(c), i) ELSE s(c)
           ms == IF set.msg THEN x.msgs \union {i} ELSE x.msgs
<1>1. y = [x EXCEPT !.cmds = [c \in CmdNames |-> l(c)], !.msgs = ms]
  BY DEF Listed
<1>2. \A c \in CmdNames : s(c) \in Seq(Position)
  BY DEF Manager
<1>3. i \in Position /\ set.msg \in BOOLEAN
  BY SlotFields, SetPriorities
<1>4. ASSUME NEW c \in CmdNames
      PROVE  /\ l(c) \in Seq(Position)
             /\ ToSet(l(c)) = IF c \in set.cmds THEN ToSet(s(c)) \union {i} ELSE ToSet(s(c))
             /\ IsInjective(s(c)) => IsInjective(l(c))
  <2>1. CASE c \notin set.cmds
    BY <1>2, <2>1
  <2>2. CASE c \in set.cmds
    <3> DEFINE q == s(c)
               a == Append(q, i)
               n == Len(q)
    <3>1. q \in Seq(Position) /\ n \in Nat /\ DOMAIN q = 1..n
      BY <1>2
    <3> HIDE DEF q
    <3>2. a \in Seq(Position) /\ Len(a) = n + 1 /\ DOMAIN a = 1..(n + 1)
      BY <1>3, <3>1
    <3>3. a[n + 1] = i /\ \A k \in 1..n : a[k] = q[k]
      BY <3>1
    <3> HIDE DEF a, n
    <3>4. \A k \in 1..(n + 1) : k \in 1..n \/ k = n + 1
      BY <3>1
    <3>5. 1..n \subseteq 1..(n + 1) /\ n + 1 \in 1..(n + 1)
      BY <3>1
    <3>6. ToSet(a) = ToSet(q) \union {i}
      <4>1. ASSUME NEW e \in ToSet(a) PROVE e \in ToSet(q) \union {i}
        BY <3>1, <3>2, <3>3, <3>4 DEF ToSet
      <4>2. ASSUME NEW e \in ToSet(q) PROVE e \in ToSet(a)
        <5>1. PICK k \in 1..n : e = q[k]
          BY <3>1 DEF ToSet
        <5>2. QED
          BY <3>2, <3>3, <3>5, <5>1 DEF ToSet
      <4>3. i \in ToSet(a)
        BY <3>2, <3>3, <3>5 DEF ToSet
      <4>4. QED
        BY <4>1, <4>2, <4>3
    <3>7. i \notin ToSet(q)
      BY DEF Lists, q
    <3>8. ASSUME IsInjective(q) PROVE IsInjective(a)
      <4>1. SUFFICES ASSUME NEW k \in 1..(n + 1), NEW j \in 1..(n + 1), a[k] = a[j] PROVE k = j
        BY <3>2 DEF IsInjective
      <4>2. \A h \in 1..n : q[h] # i
        BY <3>1, <3>7 DEF ToSet
      <4>3. CASE k \in 1..n /\ j \in 1..n
        BY <3>1, <3>3, <3>8, <4>1, <4>3 DEF IsInjective
      <4>4. QED
        BY <3>3, <3>4, <4>1, <4>2, <4>3
    <3>9. QED
      BY <2>2, <3>2, <3>6, <3>8 DEF a, q
  <2>3. QED
    BY <2>1, <2>2
<1> HIDE DEF l
<1>5. [c \in CmdNames |-> l(c)] \in [CmdNames -> Seq(Position)]
  BY <1>4
<1>6. ms \in SUBSET Position
  BY <1>3 DEF Manager
<1>7. ms = IF set.msg THEN x.msgs \union {i} ELSE x.msgs
  OBVIOUS
<1> HIDE DEF ms
<1>8. /\ y.slots = x.slots /\ y.msgs = ms /\ y.ticks = x.ticks /\ y.next = x.next
      /\ \A c \in CmdNames : y.cmds[c] = l(c)
  BY <1>1 DEF Manager
<1>9. y \in Manager
  BY <1>1, <1>5, <1>6 DEF Manager
<1> HIDE DEF y
<1>10. Lists(y, S \union {i})
  <2>1. S \union {i} \subseteq DOMAIN y.slots
    BY <1>8 DEF Lists
  <2>2. ASSUME NEW c \in CmdNames
        PROVE  /\ ToSet(y.cmds[c]) = {j \in S \union {i} : c \in y.slots[j].set.cmds}
               /\ IsInjective(y.cmds[c])
    BY <1>4, <1>8 DEF Lists
  <2>3. y.msgs = {j \in S \union {i} : y.slots[j].set.msg}
    BY <1>3, <1>7, <1>8 DEF Lists
  <2>4. QED
    BY <2>1, <2>2, <2>3 DEF Lists
<1>11. QED
  BY <1>8, <1>9, <1>10 DEF y

(* A registration adds at most a tick of the instance, with a new id.       *)
LEMMA RegisteredManager ==
    ASSUME NEW x \in Manager, NEW inst \in Instance, Numbered(x)
    PROVE  /\ Registered(x, inst) \in Manager
           /\ Registered(x, inst).slots = x.slots /\ Registered(x, inst).cmds = x.cmds
           /\ Registered(x, inst).msgs = x.msgs
           /\ Numbered(Registered(x, inst)) /\ Renewed(x, Registered(x, inst))
           /\ \A t \in Registered(x, inst).ticks :
                t \in x.ticks \/ (t.idx = inst.at /\ t.owner = inst.name)
<1> DEFINE y == Registered(x, inst)
           new == [idx |-> inst.at, id |-> x.next, owner |-> inst.name]
<1>1. CASE y = x
  BY <1>1, RenewedIsReflexive
<1>2. CASE y = [x EXCEPT !.ticks = x.ticks \union {new}, !.next = x.next + 1]
  <2>1. x.next \in Nat /\ x.ticks \in SUBSET TickEntry
    BY DEF Manager
  <2>2. new \in TickEntry /\ new.id = x.next /\ new.idx = inst.at /\ new.owner = inst.name
    BY <2>1 DEF Instance, TickEntry
  <2> HIDE DEF new
  <2>3. /\ y.slots = x.slots /\ y.cmds = x.cmds /\ y.msgs = x.msgs
        /\ y.ticks = x.ticks \union {new} /\ y.next = x.next + 1
    BY <1>2 DEF Manager
  <2>4. y \in Manager
    <3>1. x.ticks \union {new} \in SUBSET TickEntry /\ x.next + 1 \in Nat
      BY <2>1, <2>2
    <3>2. QED
      BY <1>2, <3>1 DEF Manager
  <2>5. Numbered(y)
    <3>1. IsFiniteSet(y.ticks)
      BY <2>3, FS_AddElement DEF Numbered
    <3>2. \A t \in x.ticks : t.id \in Nat /\ t.id < x.next
      BY <2>1 DEF TickEntry, Numbered
    <3>3. \A t \in y.ticks : t.id < y.next
      BY <2>1, <2>2, <2>3, <3>2
    <3>4. \A t, u \in y.ticks : t.id = u.id => t = u
      BY <2>1, <2>2, <2>3, <3>2 DEF Numbered
    <3>5. QED
      BY <3>1, <3>3, <3>4 DEF Numbered
  <2>6. Renewed(x, y)
    BY <2>1, <2>2, <2>3 DEF Renewed
  <2>7. QED
    BY <2>2, <2>3, <2>4, <2>5, <2>6
<1>3. QED
  BY <1>1, <1>2 DEF Registered

(* Some ticks of a manager are dropped.                                     *)
LEMMA FewerTicks ==
    ASSUME NEW x \in Manager, Numbered(x), NEW T \in SUBSET x.ticks, NEW y \in Manager,
           y.ticks = T, y.next = x.next
    PROVE  Numbered(y) /\ Renewed(x, y)
<1>1. IsFiniteSet(T)
  BY FS_Subset DEF Numbered
<1>2. x.next \in Nat
  BY DEF Manager
<1>3. QED
  BY <1>1, <1>2 DEF Numbered, Renewed
(* A sequence with one element replaced.                                    *)
LEMMA SeqExcept ==
    ASSUME NEW T, NEW s \in Seq(T), NEW i \in DOMAIN s, NEW e \in T
    PROVE  /\ [s EXCEPT ![i] = e] \in Seq(T)
           /\ DOMAIN [s EXCEPT ![i] = e] = DOMAIN s
           /\ Len([s EXCEPT ![i] = e]) = Len(s)
           /\ \A j \in DOMAIN s : [s EXCEPT ![i] = e][j] = IF j = i THEN e ELSE s[j]
OBVIOUS

NewSlot(name, i, set) ==
    [name |-> name, set |-> set, inst |-> [name |-> name, at |-> i], lost |-> 0, fails |-> 0]

(* A new slot is a slot with an instance.                                   *)
LEMMA NewSlotIsSlot ==
    ASSUME NEW name \in Names, NEW i \in Position, NEW set \in Settings
    PROVE  /\ NewSlot(name, i, set) \in Slot
           /\ NewSlot(name, i, set).inst \in Instance
           /\ NewSlot(name, i, set).inst # NoInstance
BY InstanceAssumption DEF NewSlot, Slot, Instance

(* A new instance: its slot, the lists and the ticks of its slot are new.   *)
LEMMA InstalledManager ==
    ASSUME NEW x \in Manager, NEW S, Lists(x, S), Numbered(x),
           NEW i \in DOMAIN x.slots, NEW set \in Settings
    PROVE  /\ Installed(x, i, set) \in Manager
           /\ Installed(x, i, set).slots = [x.slots EXCEPT ![i] = NewSlot(x.slots[i].name, i, set)]
           /\ Lists(Installed(x, i, set), S \union {i})
           /\ Numbered(Installed(x, i, set)) /\ Renewed(x, Installed(x, i, set))
           /\ \A t \in Installed(x, i, set).ticks :
                \/ t \in x.ticks /\ t.idx # i
                \/ t.idx = i /\ t.owner = x.slots[i].name
<1> DEFINE name == x.slots[i].name
           inst == [name |-> name, at |-> i]
           slots == [x.slots EXCEPT ![i] = NewSlot(name, i, set)]
           old == x.ticks \ TicksOf(x, i)
           filled == [x EXCEPT !.slots = slots, !.ticks = old]
           reg == IF set.tick THEN Registered(filled, inst) ELSE filled
           un == Unlisted(reg, {i})
           y == Listed(un, i)
<1>1. y = Installed(x, i, set)
  BY DEF Installed, NewSlot
<1>2. name \in Names /\ i \in Position
  BY SlotFields
<1>3. inst \in Instance /\ inst.at = i /\ inst.name = name
  BY <1>2 DEF Instance
<1>4. x.slots \in Seq(Slot) /\ x.ticks \in SUBSET TickEntry
  BY DEF Manager
<1>5. /\ slots \in Seq(Slot) /\ DOMAIN slots = DOMAIN x.slots
      /\ \A j \in DOMAIN x.slots : slots[j] = IF j = i THEN NewSlot(name, i, set) ELSE x.slots[j]
  BY <1>2, <1>4, NewSlotIsSlot, SeqExcept
<1>6. old \in SUBSET x.ticks /\ \A t \in old : t \in x.ticks /\ t.idx # i
  BY DEF TicksOf
<1>7. name = x.slots[i].name
  OBVIOUS
<1> HIDE DEF name, inst, slots, old
<1>8. /\ filled.slots = slots /\ filled.cmds = x.cmds /\ filled.msgs = x.msgs
      /\ filled.ticks = old /\ filled.next = x.next
  BY DEF Manager
<1>9. filled \in Manager
  BY <1>4, <1>5, <1>6 DEF Manager
<1> HIDE DEF filled
<1>10. Numbered(filled) /\ Renewed(x, filled)
  BY <1>6, <1>8, <1>9, FewerTicks
<1>11. /\ reg \in Manager /\ reg.slots = slots /\ reg.cmds = x.cmds /\ reg.msgs = x.msgs
       /\ Numbered(reg) /\ Renewed(x, reg)
       /\ \A t \in reg.ticks : t \in filled.ticks \/ (t.idx = i /\ t.owner = name)
  <2>1. CASE set.tick
    <3>1. /\ reg \in Manager /\ reg.slots = filled.slots /\ reg.cmds = filled.cmds
          /\ reg.msgs = filled.msgs /\ Numbered(reg) /\ Renewed(filled, reg)
          /\ \A t \in reg.ticks : t \in filled.ticks \/ (t.idx = inst.at /\ t.owner = inst.name)
      BY <1>3, <1>9, <1>10, <2>1, RegisteredManager
    <3> HIDE DEF reg
    <3>2. Renewed(x, reg)
      BY <1>9, <1>10, <3>1, RenewedIsTransitive
    <3>3. QED
      BY <1>3, <1>8, <3>1, <3>2
  <2>2. CASE ~set.tick
    BY <1>8, <1>9, <1>10, <2>2
  <2>3. QED
    BY <2>1, <2>2
<1> HIDE DEF reg
<1>12. /\ un \in Manager /\ un.slots = slots /\ un.ticks = reg.ticks /\ un.next = reg.next
  BY <1>11, UnlistedFields
<1>13. Lists(un, S \ {i})
  <2>1. S \ {i} \subseteq DOMAIN reg.slots
    BY <1>5, <1>11 DEF Lists
  <2>2. \A j \in S \ {i} : reg.slots[j].set = x.slots[j].set
    BY <1>5, <1>11 DEF Lists
  <2>3. QED
    BY <1>11, <2>1, <2>2, UnlistedManager
<1> HIDE DEF un
<1>14. i \in DOMAIN un.slots /\ i \notin S \ {i}
  BY <1>5, <1>12
<1>15. /\ y \in Manager /\ y.slots = slots /\ y.ticks = reg.ticks /\ y.next = reg.next
       /\ Lists(y, (S \ {i}) \union {i})
  BY <1>12, <1>13, <1>14, ListedManager
<1>16. (S \ {i}) \union {i} = S \union {i}
  OBVIOUS
<1> HIDE DEF y
<1>17. Numbered(y) /\ Renewed(x, y)
  BY <1>11, <1>12, <1>15 DEF Numbered, Renewed
<1>18. \A t \in y.ticks : (t \in x.ticks /\ t.idx # i) \/ (t.idx = i /\ t.owner = name)
  BY <1>6, <1>8, <1>11, <1>15
<1>19. QED
  BY <1>1, <1>7, <1>15, <1>16, <1>17, <1>18 DEF slots

(* A plugin that is added gets the next slot, with its lists and its ticks. *)
LEMMA AddedManager ==
    ASSUME NEW x \in Manager, NEW S, Lists(x, S), Numbered(x),
           NEW name \in Names, NEW set \in Settings
    PROVE  /\ Added(x, name, set) \in Manager
           /\ Added(x, name, set).slots = Append(x.slots, NewSlot(name, Len(x.slots) + 1, set))
           /\ Lists(Added(x, name, set), S \union {Len(x.slots) + 1})
           /\ Numbered(Added(x, name, set)) /\ Renewed(x, Added(x, name, set))
           /\ \A t \in Added(x, name, set).ticks :
                \/ t \in x.ticks /\ t.idx # Len(x.slots) + 1
                \/ t.idx = Len(x.slots) + 1 /\ t.owner = name
<1> DEFINE i == Len(x.slots) + 1
           blank == [name |-> name, set |-> set, inst |-> NoInstance, lost |-> 0, fails |-> 0]
           z == [x EXCEPT !.slots = Append(x.slots, blank)]
           y == Installed(z, i, set)
<1>1. y = Added(x, name, set)
  BY DEF Added
<1>2. x.slots \in Seq(Slot)
  BY DEF Manager
<1>3. blank \in Slot /\ blank.name = name
  BY DEF Slot
<1> HIDE DEF blank
<1>4. /\ Append(x.slots, blank) \in Seq(Slot) /\ DOMAIN Append(x.slots, blank) = 1..i
      /\ \A j \in DOMAIN x.slots : Append(x.slots, blank)[j] = x.slots[j]
      /\ Append(x.slots, blank)[i] = blank /\ DOMAIN x.slots \subseteq 1..i /\ i \in 1..i
  BY <1>2, <1>3
<1>5. /\ z.slots = Append(x.slots, blank) /\ z.cmds = x.cmds /\ z.msgs = x.msgs
      /\ z.ticks = x.ticks /\ z.next = x.next
  BY DEF Manager
<1>6. z \in Manager
  BY <1>4 DEF Manager
<1>7. [Append(x.slots, blank) EXCEPT ![i] = NewSlot(name, i, set)]
        = Append(x.slots, NewSlot(name, i, set))
  <2>1. NewSlot(name, i, set) \in Slot
    <3>1. i \in Position
      BY <1>2 DEF Position
    <3>2. QED
      BY <3>1, NewSlotIsSlot
  <2> DEFINE a == Append(x.slots, blank)
             b == Append(x.slots, NewSlot(name, i, set))
             e == [a EXCEPT ![i] = NewSlot(name, i, set)]
  <2>2. /\ DOMAIN b = 1..i /\ b[i] = NewSlot(name, i, set)
        /\ \A j \in DOMAIN x.slots : b[j] = x.slots[j]
    BY <1>2, <2>1
  <2>3. /\ DOMAIN e = 1..i /\ e[i] = NewSlot(name, i, set)
        /\ \A j \in 1..i : j # i => e[j] = a[j]
    BY <1>4, <2>1
  <2>4. \A j \in 1..i : j # i => j \in DOMAIN x.slots
    BY <1>2
  <2>5. \A j \in 1..i : e[j] = b[j]
    BY <1>4, <2>2, <2>3, <2>4
  <2>6. b = [j \in 1..i |-> b[j]]
    BY <1>2, <2>1, <2>2
  <2>7. e = [j \in 1..i |-> e[j]]
    BY <2>3
  <2> HIDE DEF a, b, e
  <2>8. e = b
    BY <2>5, <2>6, <2>7
  <2>9. QED
    BY <2>8 DEF a, b, e
<1> HIDE DEF z, i
<1>8. Lists(z, S)
  <2>1. S \subseteq DOMAIN x.slots
    BY DEF Lists
  <2>2. S \subseteq DOMAIN z.slots /\ \A j \in S : z.slots[j] = x.slots[j]
    BY <1>4, <1>5, <2>1
  <2>3. QED
    BY <1>5, <2>2 DEF Lists
<1>9. Numbered(z) /\ (\A w : Renewed(z, w) <=> Renewed(x, w))
  BY <1>5 DEF Numbered, Renewed
<1>10. i \in DOMAIN z.slots /\ z.slots[i].name = name
  BY <1>3, <1>4, <1>5
<1>11. /\ y \in Manager /\ y.slots = [z.slots EXCEPT ![i] = NewSlot(z.slots[i].name, i, set)]
       /\ Lists(y, S \union {i}) /\ Numbered(y) /\ Renewed(z, y)
       /\ \A t \in y.ticks : \/ t \in z.ticks /\ t.idx # i
                             \/ t.idx = i /\ t.owner = z.slots[i].name
  BY <1>6, <1>8, <1>9, <1>10, InstalledManager
<1> HIDE DEF y
<1>12. /\ y \in Manager /\ y.slots = Append(x.slots, NewSlot(name, i, set))
       /\ Lists(y, S \union {i}) /\ Numbered(y) /\ Renewed(x, y)
       /\ \A t \in y.ticks : \/ t \in x.ticks /\ t.idx # i
                             \/ t.idx = i /\ t.owner = name
  BY <1>5, <1>7, <1>9, <1>10, <1>11
<1>13. QED
  BY <1>1, <1>12 DEF i

------------------------------------------------------------------------------
(* Additions, one after the other.                                          *)
Hows == [Names -> {"ok", "path", "build", "load"}]

Appended(x, n, f) == Append(x.slots, NewSlot(n, Len(x.slots) + 1, f[n]))

(* An addition: a new slot, or none.                                        *)
LEMMA AddStepManager ==
    ASSUME NEW x \in Manager, NEW S, Lists(x, S), Numbered(x), NEW n \in Names,
           NEW f \in File, f[n] # Off, NEW how \in Hows
    PROVE  /\ AddStep(x, n, f, how) \in Manager /\ Numbered(AddStep(x, n, f, how))
           /\ Renewed(x, AddStep(x, n, f, how))
           /\ \/ /\ how[n] = "ok" /\ Lists(AddStep(x, n, f, how), S \union {Len(x.slots) + 1})
                 /\ AddStep(x, n, f, how).slots = Appended(x, n, f)
              \/ /\ how[n] # "ok" /\ Lists(AddStep(x, n, f, how), S)
                 /\ AddStep(x, n, f, how).slots = x.slots
           /\ \A t \in AddStep(x, n, f, how).ticks :
                \/ t \in x.ticks
                \/ how[n] = "ok" /\ t.idx = Len(x.slots) + 1 /\ t.owner = n
<1> DEFINE i == Len(x.slots) + 1
           y == AddStep(x, n, f, how)
<1>1. CASE how[n] = "ok"
  <2>1. y = Added(x, n, f[n])
    BY <1>1 DEF AddStep
  <2> DEFINE set == f[n]
             z == Added(x, n, set)
  <2>2. /\ z \in Manager /\ z.slots = Append(x.slots, NewSlot(n, i, f[n]))
        /\ Lists(z, S \union {i}) /\ Numbered(z) /\ Renewed(x, z)
        /\ \A t \in z.ticks : (t \in x.ticks /\ t.idx # i) \/ (t.idx = i /\ t.owner = n)
    <3>1. set \in Settings
      BY DEF File
    <3> HIDE DEF set
    <3>2. /\ Added(x, n, set) \in Manager
          /\ Added(x, n, set).slots = Append(x.slots, NewSlot(n, i, set))
          /\ Lists(Added(x, n, set), S \union {i})
          /\ Numbered(Added(x, n, set)) /\ Renewed(x, Added(x, n, set))
          /\ \A t \in Added(x, n, set).ticks : \/ t \in x.ticks /\ t.idx # i
                                               \/ t.idx = i /\ t.owner = n
      BY <3>1, AddedManager
    <3>3. QED
      BY <3>2 DEF set
  <2> HIDE DEF z, y, i
  <2>3. y = z
    BY <2>1 DEF z
  <2>4. QED
    BY <1>1, <2>2, <2>3 DEF y, i, Appended
<1>2. CASE how[n] # "ok" /\ y = x
  BY <1>2, RenewedIsReflexive
<1>3. CASE how[n] # "ok" /\ y = [x EXCEPT !.ticks = x.ticks \ TicksOf(x, i)]
  <2> DEFINE T == x.ticks \ TicksOf(x, i)
  <2>1. T \in SUBSET x.ticks
    OBVIOUS
  <2> HIDE DEF T
  <2>2. /\ y.slots = x.slots /\ y.cmds = x.cmds /\ y.msgs = x.msgs
        /\ y.ticks = T /\ y.next = x.next
    BY <1>3 DEF Manager, T
  <2>3. T \in SUBSET TickEntry
    BY <2>1 DEF Manager
  <2>4. y \in Manager
    BY <1>3, <2>3 DEF Manager, T
  <2> HIDE DEF y
  <2>5. Numbered(y) /\ Renewed(x, y)
    BY <2>1, <2>2, <2>4, FewerTicks
  <2>6. Lists(y, S)
    BY <2>2 DEF Lists
  <2>7. QED
    BY <1>3, <2>1, <2>2, <2>4, <2>5, <2>6 DEF y
<1>4. QED
  BY <1>1, <1>2, <1>3 DEF AddStep

(* The lists speak at least of the slots that have an instance.             *)
Sound(x) == Numbered(x) /\ \E S \in SUBSET DOMAIN x.slots : Filled(x) \subseteq S /\ Lists(x, S)

(* An addition, successful or not, leaves the lists sound.                  *)
LEMMA AddStepIsSound ==
    ASSUME NEW x \in Manager, Sound(x), NEW n \in Names, NEW f \in File, f[n] # Off, NEW how \in Hows
    PROVE  AddStep(x, n, f, how) \in Manager /\ Sound(AddStep(x, n, f, how))
<1> DEFINE i == Len(x.slots) + 1
           y == AddStep(x, n, f, how)
<1>1. PICK S \in SUBSET DOMAIN x.slots : Filled(x) \subseteq S /\ Lists(x, S)
  BY DEF Sound
<1>2. Numbered(x) /\ x.slots \in Seq(Slot)
  BY DEF Sound, Manager
<1>3. /\ y \in Manager /\ Numbered(y)
      /\ \/ Lists(y, S \union {i}) /\ y.slots = Appended(x, n, f)
         \/ Lists(y, S) /\ y.slots = x.slots
  BY <1>1, <1>2, AddStepManager
<1> HIDE DEF y
<1>4. CASE Lists(y, S) /\ y.slots = x.slots
  BY <1>1, <1>3, <1>4 DEF Sound, Filled, Lists, y
<1>5. CASE Lists(y, S \union {i}) /\ y.slots = Appended(x, n, f)
  <2>1. DOMAIN y.slots = 1..i /\ \A k \in 1..i : k # i => k \in DOMAIN x.slots /\ y.slots[k] = x.slots[k]
    BY <1>2, <1>5 DEF Appended
  <2>2. Filled(y) \subseteq S \union {i}
    BY <1>1, <2>1 DEF Filled
  <2>3. S \union {i} \in SUBSET DOMAIN y.slots
    BY <1>5 DEF Lists
  <2>4. QED
    BY <1>3, <1>5, <2>2, <2>3 DEF Sound, y
<1>6. QED
  BY <1>3, <1>4, <1>5

(* The additions are the steps of a function.                               *)
LEMMA AddedAllSteps ==
    ASSUME NEW x \in Manager, Sound(x), NEW list \in Seq(Names),
           NEW f \in File, \A k \in DOMAIN list : f[list[k]] # Off, NEW how \in Hows
    PROVE  \E g \in [0..Len(list) -> Manager] :
              /\ g[0] = x
              /\ \A k \in 1..Len(list) : g[k] = AddStep(g[k - 1], list[k], f, how)
              /\ AddedAll(x, list, f, how) = g[Len(list)]
<1> DEFINE n == Len(list)
           D == {z \in Manager : Sound(z)}
           F == [k \in 1..n |-> [z \in D |-> AddStep(z, list[k], f, how)]]
           Eq(g) == g = [k \in 0..n |-> IF k = 0 THEN x ELSE AddStep(g[k - 1], list[k], f, how)]
<1>1. n \in Nat /\ DOMAIN list = 1..n /\ \A k \in 1..n : list[k] \in Names /\ f[list[k]] # Off
  OBVIOUS
<1>2. ASSUME NEW k \in 1..n, NEW z \in D PROVE AddStep(z, list[k], f, how) \in D
  BY <1>1, AddStepIsSound
<1>3. F \in [1..n -> [D -> D]]
  BY <1>2
<1>4. x \in D
  OBVIOUS
<1> HIDE DEF n, D
<1>5. PICK g \in [0..n -> D] : g[0] = x /\ \A k \in 1..n : g[k] = F[k][g[k - 1]]
  <2> HIDE DEF F
  <2>1. n \in Nat /\ x \in D /\ F \in [1..n -> [D -> D]]
    BY <1>1, <1>3, <1>4
  <2>2. Iterations(D, x, n, F) # {}
    BY <2>1, Recursion
  <2>3. QED
    BY <2>2 DEF Iterations
<1>6. \A k \in 1..n : k - 1 \in 0..n
  BY <1>1
<1>7. ASSUME NEW k \in 1..n PROVE F[k][g[k - 1]] = AddStep(g[k - 1], list[k], f, how)
  <2>1. g[k - 1] \in D
    BY <1>6
  <2>2. QED
    BY <2>1
<1> HIDE DEF F
<1>8. Eq(g)
  <2>1. \A k \in 0..n : k = 0 \/ k \in 1..n
    BY <1>1
  <2>2. \A k \in 0..n : g[k] = IF k = 0 THEN x ELSE AddStep(g[k - 1], list[k], f, how)
    BY <1>1, <1>5, <1>7, <2>1
  <2>3. QED
    BY <2>2
<1> DEFINE h == CHOOSE h : Eq(h)
<1>9. Eq(h)
  BY <1>8
<1>10. AddedAll(x, list, f, how) = h[n]
  BY DEF AddedAll, n
<1> HIDE DEF h
<1>11. h = [k \in 0..n |-> IF k = 0 THEN x ELSE AddStep(h[k - 1], list[k], f, how)]
  BY <1>9
<1>12. /\ h[0] = x
       /\ \A k \in 1..n : h[k] = AddStep(h[k - 1], list[k], f, how)
  <2>1. 0 \in 0..n /\ \A k \in 1..n : k \in 0..n /\ k # 0
    BY <1>1
  <2>2. h[0] = x
    BY <1>11, <2>1
  <2>3. ASSUME NEW k \in 1..n PROVE h[k] = AddStep(h[k - 1], list[k], f, how)
    BY <1>11, <2>1
  <2>4. QED
    BY <2>2, <2>3
<1> DEFINE T == {k \in 0..n : h[k] \in D}
<1>13. 0 \in T
  BY <1>1, <1>4, <1>12
<1>14. ASSUME NEW k \in 1..n, k - 1 \in T PROVE k \in T
  <2>1. h[k] \in D
    BY <1>2, <1>12, <1>14
  <2>2. k \in 0..n
    BY <1>1
  <2>3. QED
    BY <2>1, <2>2
<1>15. \A k \in 0..n : k \in T
  <2> HIDE DEF T
  <2>1. QED
    BY <1>1, <1>13, <1>14, UpTo
<1>16. \A k \in 0..n : h[k] \in Manager
  BY <1>15 DEF D
<1>17. DOMAIN h = 0..n /\ h = [k \in 0..n |-> h[k]]
  BY <1>11
<1>18. h \in [0..n -> Manager]
  BY <1>16, <1>17
<1>19. QED
  BY <1>10, <1>12, <1>18 DEF n

(* After k plugins of the list: old slots are what they were, new slots     *)
(* hold, once each, what did not fail, and new ticks name their owner.      *)
Fresh(x, z) == DOMAIN z.slots \ DOMAIN x.slots

GrownSlots(x, z, list, f, how, k) ==
    /\ DOMAIN x.slots \subseteq DOMAIN z.slots
    /\ \A i \in DOMAIN x.slots : z.slots[i] = x.slots[i]
    /\ \A i \in Fresh(x, z) :
         \E j \in 1..k : how[list[j]] = "ok" /\ z.slots[i] = NewSlot(list[j], i, f[list[j]])
    /\ \A i, j \in Fresh(x, z) : z.slots[i].name = z.slots[j].name => i = j
    /\ \A j \in 1..k : how[list[j]] = "ok" => \E i \in Fresh(x, z) : z.slots[i].name = list[j]
GrownTicks(x, z) ==
    /\ Renewed(x, z)
    /\ \A t \in z.ticks : \/ t \in x.ticks
                          \/ t.idx \in Fresh(x, z) /\ z.slots[t.idx].name = t.owner

(* One more plugin of the list.                                             *)
LEMMA GrownStep ==
    ASSUME NEW x \in Manager, NEW list \in Seq(Names), IsInjective(list), NEW f \in File,
           NEW k \in DOMAIN list, f[list[k]] # Off, NEW how \in Hows,
           NEW z \in Manager, Sound(z), GrownSlots(x, z, list, f, how, k - 1), GrownTicks(x, z)
    PROVE  /\ GrownSlots(x, AddStep(z, list[k], f, how), list, f, how, k)
           /\ GrownTicks(x, AddStep(z, list[k], f, how))
<1> DEFINE n == list[k]
           i == Len(z.slots) + 1
           y == AddStep(z, n, f, how)
<1>1. /\ n \in Names /\ f[n] # Off /\ k \in Nat /\ k >= 1 /\ DOMAIN list = 1..Len(list)
      /\ Len(list) \in Nat
  OBVIOUS
<1>2. z.slots \in Seq(Slot) /\ x.slots \in Seq(Slot) /\ Numbered(z)
  BY DEF Sound, Manager
<1>3. PICK S : Lists(z, S)
  BY DEF Sound
<1>4. \A j \in 1..k : j \in 1..(k - 1) \/ j = k
  BY <1>1
<1>5. 1..(k - 1) \subseteq 1..k /\ k \in 1..k
  BY <1>1
<1>6. \A j \in 1..(k - 1) : list[j] # n
  BY <1>1 DEF IsInjective
<1>7. n = list[k]
  OBVIOUS
<1> HIDE DEF n
<1>8. /\ y \in Manager /\ Renewed(z, y)
      /\ \/ how[n] = "ok" /\ y.slots = Appended(z, n, f)
         \/ how[n] # "ok" /\ y.slots = z.slots
      /\ \A t \in y.ticks : t \in z.ticks \/ (how[n] = "ok" /\ t.idx = i /\ t.owner = n)
  <2>1. Numbered(z) /\ Lists(z, S) /\ n \in Names /\ f[n] # Off
    BY <1>1, <1>2, <1>3
  <2>2. \/ /\ how[n] = "ok" /\ Lists(y, S \union {i})
           /\ y.slots = Appended(z, n, f)
        \/ how[n] # "ok" /\ Lists(y, S) /\ y.slots = z.slots
    BY <2>1, AddStepManager
  <2>3. y \in Manager /\ Renewed(z, y)
    BY <2>1, AddStepManager
  <2>4. \A t \in y.ticks : t \in z.ticks \/ (how[n] = "ok" /\ t.idx = i /\ t.owner = n)
    BY <2>1, AddStepManager
  <2>5. QED
    BY <2>2, <2>3, <2>4
<1> HIDE DEF y
<1>9. Renewed(x, y)
  BY <1>8, RenewedIsTransitive DEF GrownTicks
<1>10. CASE how[n] # "ok" /\ y.slots = z.slots
  <2>1. GrownSlots(x, y, list, f, how, k)
    BY <1>4, <1>5, <1>7, <1>10 DEF GrownSlots, Fresh
  <2>2. GrownTicks(x, y)
    BY <1>8, <1>9, <1>10 DEF GrownTicks, Fresh
  <2>3. QED
    BY <1>7, <2>1, <2>2 DEF y
<1>11. CASE how[n] = "ok" /\ y.slots = Appended(z, n, f)
  <2> DEFINE e == NewSlot(n, i, f[n])
  <2>1. e.name = n
    BY DEF NewSlot
  <2>2. e = NewSlot(n, i, f[n])
    OBVIOUS
  <2> HIDE DEF e
  <2>3. /\ DOMAIN y.slots = DOMAIN z.slots \union {i} /\ i \notin DOMAIN z.slots
        /\ y.slots[i] = e /\ \A j \in DOMAIN z.slots : y.slots[j] = z.slots[j]
    BY <1>2, <1>11, <2>2 DEF Appended
  <2>4. Fresh(x, y) = Fresh(x, z) \union {i} /\ i \notin Fresh(x, z)
    BY <2>3 DEF Fresh, GrownSlots
  <2>5. /\ DOMAIN x.slots \subseteq DOMAIN y.slots
        /\ \A j \in DOMAIN x.slots : y.slots[j] = x.slots[j]
    BY <2>3 DEF GrownSlots
  <2>6. ASSUME NEW h \in Fresh(x, y)
        PROVE  \E j \in 1..k : how[list[j]] = "ok" /\ y.slots[h] = NewSlot(list[j], h, f[list[j]])
    <3>1. CASE h = i
      BY <1>5, <1>7, <1>11, <2>2, <2>3, <3>1
    <3>2. CASE h \in Fresh(x, z)
      <4>1. PICK j \in 1..(k - 1) : how[list[j]] = "ok" /\ z.slots[h] = NewSlot(list[j], h, f[list[j]])
        BY <3>2 DEF GrownSlots
      <4>2. y.slots[h] = z.slots[h]
        BY <2>3, <3>2 DEF Fresh
      <4>3. QED
        BY <1>5, <4>1, <4>2
    <3>3. QED
      BY <2>4, <3>1, <3>2
  <2>7. ASSUME NEW h \in Fresh(x, z) PROVE y.slots[h].name = z.slots[h].name /\ z.slots[h].name # n
    <3>1. PICK j \in 1..(k - 1) : z.slots[h] = NewSlot(list[j], h, f[list[j]])
      BY DEF GrownSlots
    <3>2. z.slots[h].name = list[j]
      BY <3>1 DEF NewSlot
    <3>3. y.slots[h] = z.slots[h]
      BY <2>3 DEF Fresh
    <3>4. QED
      BY <1>6, <3>2, <3>3
  <2>8. \A g, h \in Fresh(x, y) : y.slots[g].name = y.slots[h].name => g = h
    BY <2>1, <2>3, <2>4, <2>7 DEF GrownSlots
  <2>9. \A j \in 1..k : how[list[j]] = "ok" => \E h \in Fresh(x, y) : y.slots[h].name = list[j]
    <3>1. SUFFICES ASSUME NEW j \in 1..k, how[list[j]] = "ok"
                   PROVE  \E h \in Fresh(x, y) : y.slots[h].name = list[j]
      OBVIOUS
    <3>2. CASE j = k
      BY <1>7, <2>1, <2>3, <2>4, <3>2
    <3>3. CASE j \in 1..(k - 1)
      BY <2>4, <2>7, <3>1, <3>3 DEF GrownSlots
    <3>4. QED
      BY <1>4, <3>2, <3>3
  <2>10. GrownSlots(x, y, list, f, how, k)
    BY <2>5, <2>6, <2>8, <2>9 DEF GrownSlots
  <2>11. GrownTicks(x, y)
    BY <1>8, <1>9, <2>1, <2>3, <2>4, <2>7 DEF GrownTicks
  <2>12. QED
    BY <1>7, <2>10, <2>11 DEF y
<1>12. QED
  BY <1>8, <1>10, <1>11

(* All plugins of the list.                                                 *)
LEMMA AddedAllManager ==
    ASSUME NEW x \in Manager, Sound(x), NEW list \in Seq(Names), IsInjective(list),
           NEW f \in File, \A k \in DOMAIN list : f[list[k]] # Off, NEW how \in Hows
    PROVE  /\ AddedAll(x, list, f, how) \in Manager /\ Sound(AddedAll(x, list, f, how))
           /\ GrownSlots(x, AddedAll(x, list, f, how), list, f, how, Len(list))
           /\ GrownTicks(x, AddedAll(x, list, f, how))
<1> DEFINE n == Len(list)
<1>1. n \in Nat /\ DOMAIN list = 1..n /\ \A k \in 1..n : list[k] \in Names /\ f[list[k]] # Off
  OBVIOUS
<1>2. PICK g \in [0..n -> Manager] :
         /\ g[0] = x
         /\ \A k \in 1..n : g[k] = AddStep(g[k - 1], list[k], f, how)
         /\ AddedAll(x, list, f, how) = g[n]
  BY AddedAllSteps
<1> HIDE DEF n
<1> DEFINE Fits(z, k) == Sound(z) /\ GrownSlots(x, z, list, f, how, k) /\ GrownTicks(x, z)
           T == {k \in 0..n : Fits(g[k], k)}
<1>3. 0 \in T
  <2>1. Fresh(x, x) = {} /\ 1..0 = {}
    BY DEF Fresh
  <2>2. GrownSlots(x, x, list, f, how, 0)
    BY <2>1 DEF GrownSlots
  <2>3. GrownTicks(x, x)
    BY RenewedIsReflexive DEF GrownTicks
  <2>4. 0 \in 0..n
    BY <1>1
  <2>5. QED
    BY <1>2, <2>2, <2>3, <2>4
<1>4. ASSUME NEW k \in 1..n, k - 1 \in T PROVE k \in T
  <2>1. k - 1 \in 0..n /\ k \in 0..n
    BY <1>1
  <2>2. g[k - 1] \in Manager /\ Fits(g[k - 1], k - 1)
    BY <1>4, <2>1
  <2>3. k \in DOMAIN list /\ list[k] \in Names /\ f[list[k]] # Off
    BY <1>1
  <2>4. Sound(g[k])
    BY <1>2, <2>2, <2>3, AddStepIsSound
  <2>5. /\ GrownSlots(x, AddStep(g[k - 1], list[k], f, how), list, f, how, k)
        /\ GrownTicks(x, AddStep(g[k - 1], list[k], f, how))
    BY <2>2, <2>3, GrownStep
  <2>6. QED
    BY <1>2, <2>1, <2>4, <2>5
<1> HIDE DEF T
<1>5. \A k \in 0..n : k \in T
  BY <1>1, <1>3, <1>4, UpTo
<1>6. n \in T /\ n \in 0..n
  BY <1>1, <1>5
<1>7. QED
  BY <1>2, <1>6 DEF T, n

------------------------------------------------------------------------------
(* Removals.                                                                *)
LEMMA RemovedManager ==
    ASSUME NEW x \in Manager, Sound(x), NEW G
    PROVE  /\ Removed(x, G) \in Manager /\ Sound(Removed(x, G)) /\ Renewed(x, Removed(x, G))
           /\ DOMAIN Removed(x, G).slots = DOMAIN x.slots
           /\ \A i \in DOMAIN x.slots :
                /\ i \notin G => Removed(x, G).slots[i] = x.slots[i]
                /\ Removed(x, G).slots[i].name = x.slots[i].name
           /\ Filled(Removed(x, G)) = Filled(x) \ G
           /\ Removed(x, G).ticks = {t \in x.ticks : t.idx \notin G}
<1> DEFINE un == Unlisted(x, G)
           out(i) == IF i \in G THEN [x.slots[i] EXCEPT !.inst = NoInstance] ELSE x.slots[i]
           slots == [i \in DOMAIN x.slots |-> out(i)]
           ticks == {t \in x.ticks : t.idx \notin G}
           y == Removed(x, G)
<1>1. PICK S \in SUBSET DOMAIN x.slots : Filled(x) \subseteq S /\ Lists(x, S)
  BY DEF Sound
<1>2. /\ un \in Manager /\ un.slots = x.slots /\ un.ticks = x.ticks /\ un.next = x.next
  BY UnlistedFields
<1>3. Lists(un, S \ G)
  <2>1. S \ G \subseteq DOMAIN x.slots
    OBVIOUS
  <2>2. QED
    BY <1>1, <2>1, UnlistedManager
<1>4. \A i \in DOMAIN x.slots :
        /\ out(i) \in Slot /\ out(i).name = x.slots[i].name /\ out(i).set = x.slots[i].set
        /\ i \notin G => out(i) = x.slots[i]
        /\ i \in G => out(i).inst = NoInstance
  <2>1. TAKE i \in DOMAIN x.slots
  <2>2. x.slots[i] \in Slot
    BY SlotFields
  <2>3. QED
    BY <2>2 DEF Slot
<1> HIDE DEF out
<1>5. slots \in Seq(Slot) /\ DOMAIN slots = DOMAIN x.slots /\ \A i \in DOMAIN x.slots : slots[i] = out(i)
  <2>1. DOMAIN x.slots = 1..Len(x.slots) /\ Len(x.slots) \in Nat
    BY DEF Manager
  <2>2. QED
    BY <1>4, <2>1
<1> HIDE DEF slots
<1>6. ticks \in SUBSET x.ticks
  OBVIOUS
<1>7. ticks \in SUBSET TickEntry
  BY <1>6 DEF Manager
<1>8. y = [un EXCEPT !.slots = slots, !.ticks = ticks]
  BY <1>2 DEF Removed, slots, out
<1> HIDE DEF un, ticks
<1>9. /\ y.slots = slots /\ y.ticks = ticks /\ y.next = x.next /\ y.cmds = un.cmds /\ y.msgs = un.msgs
  BY <1>2, <1>8 DEF Manager
<1>10. y \in Manager
  BY <1>2, <1>5, <1>7, <1>8 DEF Manager
<1> HIDE DEF y
<1>11. Numbered(y) /\ Renewed(x, y)
  BY <1>6, <1>9, <1>10, FewerTicks DEF Sound
<1>12. Filled(y) = Filled(x) \ G
  BY <1>4, <1>5, <1>9 DEF Filled
<1>13. Lists(y, S \ G)
  BY <1>2, <1>3, <1>4, <1>5, <1>9 DEF Lists
<1>14. Sound(y)
  <2>1. S \ G \in SUBSET DOMAIN y.slots /\ Filled(y) \subseteq S \ G
    BY <1>1, <1>12, <1>13 DEF Lists
  <2>2. QED
    BY <1>11, <1>13, <2>1 DEF Sound
<1>15. /\ DOMAIN y.slots = DOMAIN x.slots
       /\ \A i \in DOMAIN x.slots : /\ i \notin G => y.slots[i] = x.slots[i]
                                    /\ y.slots[i].name = x.slots[i].name
  BY <1>4, <1>5, <1>9
<1>16. QED
  BY <1>9, <1>10, <1>11, <1>12, <1>14, <1>15 DEF y, ticks

------------------------------------------------------------------------------
(* Changes of one slot that leave its setting alone.                        *)
LEMMA SlotChanged ==
    ASSUME NEW x \in Manager, NEW S, Lists(x, S), NEW i \in DOMAIN x.slots,
           NEW e \in Slot, e.set = x.slots[i].set,
           NEW y, y = [x EXCEPT !.slots = [x.slots EXCEPT ![i] = e]]
    PROVE  /\ y \in Manager /\ DOMAIN y.slots = DOMAIN x.slots
           /\ \A j \in DOMAIN x.slots : y.slots[j] = IF j = i THEN e ELSE x.slots[j]
           /\ y.cmds = x.cmds /\ y.msgs = x.msgs /\ y.ticks = x.ticks /\ y.next = x.next
           /\ Lists(y, S) /\ Renewed(x, y)
           /\ Numbered(x) => Numbered(y)
           /\ Ordered(x) => Ordered(y)
<1> DEFINE slots == [x.slots EXCEPT ![i] = e]
<1>1. x.slots \in Seq(Slot)
  BY DEF Manager
<1>2. /\ slots \in Seq(Slot) /\ DOMAIN slots = DOMAIN x.slots
      /\ \A j \in DOMAIN x.slots : slots[j] = IF j = i THEN e ELSE x.slots[j]
  BY <1>1, SeqExcept
<1>3. y = [x EXCEPT !.slots = slots]
  OBVIOUS
<1> HIDE DEF slots
<1>4. /\ y.slots = slots /\ y.cmds = x.cmds /\ y.msgs = x.msgs /\ y.ticks = x.ticks
      /\ y.next = x.next
  BY <1>3 DEF Manager
<1>5. y \in Manager
  BY <1>2, <1>3 DEF Manager
<1>6. \A j \in DOMAIN x.slots : y.slots[j].set = x.slots[j].set
  BY <1>2, <1>4
<1>7. Lists(y, S)
  BY <1>2, <1>4, <1>6 DEF Lists
<1>8. (Numbered(x) => Numbered(y)) /\ Renewed(x, y)
  <2>1. x.next \in Nat
    BY DEF Manager
  <2>2. QED
    BY <1>4, <2>1 DEF Numbered, Renewed
<1>9. ASSUME Ordered(x) PROVE Ordered(y)
  <2>1. ASSUME NEW c \in CmdNames, NEW k \in DOMAIN x.cmds[c]
        PROVE  Prio(y, x.cmds[c][k]) = Prio(x, x.cmds[c][k])
    <3>1. x.cmds[c][k] \in DOMAIN x.slots
      BY DEF Lists, ToSet
    <3>2. QED
      BY <1>6, <3>1 DEF Prio
  <2>2. QED
    BY <1>4, <1>9, <2>1 DEF Ordered
<1>10. QED
  BY <1>2, <1>4, <1>5, <1>7, <1>8, <1>9

(* A failed reload only counts.                                             *)
LEMMA FailedManager ==
    ASSUME NEW x \in Manager, NEW S, Lists(x, S), NEW i \in DOMAIN x.slots
    PROVE  /\ Failed(x, i) \in Manager /\ DOMAIN Failed(x, i).slots = DOMAIN x.slots
           /\ \A j \in DOMAIN x.slots \ {i} : Failed(x, i).slots[j] = x.slots[j]
           /\ Failed(x, i).slots[i].name = x.slots[i].name
           /\ Failed(x, i).slots[i].set = x.slots[i].set
           /\ Failed(x, i).slots[i].inst = x.slots[i].inst
           /\ Failed(x, i).slots[i].lost = x.slots[i].lost
           /\ Failed(x, i).ticks = x.ticks /\ Failed(x, i).next = x.next
           /\ Lists(Failed(x, i), S) /\ Renewed(x, Failed(x, i))
           /\ Numbered(x) => Numbered(Failed(x, i))
           /\ Ordered(x) => Ordered(Failed(x, i))
<1> DEFINE s == x.slots[i]
           e == [s EXCEPT !.fails = s.fails + 1]
           y == Failed(x, i)
<1>1. s \in Slot
  BY SlotFields
<1>2. s = x.slots[i]
  OBVIOUS
<1>3. y = [x EXCEPT !.slots = [x.slots EXCEPT ![i] = e]]
  BY DEF Failed
<1> HIDE DEF s
<1>4. /\ e \in Slot /\ e.set = s.set /\ e.name = s.name /\ e.inst = s.inst /\ e.lost = s.lost
  BY <1>1 DEF Slot
<1> HIDE DEF e, y
<1>5. /\ y \in Manager /\ DOMAIN y.slots = DOMAIN x.slots
      /\ \A j \in DOMAIN x.slots : y.slots[j] = IF j = i THEN e ELSE x.slots[j]
      /\ y.ticks = x.ticks /\ y.next = x.next /\ Lists(y, S) /\ Renewed(x, y)
      /\ Numbered(x) => Numbered(y)
      /\ Ordered(x) => Ordered(y)
  BY <1>2, <1>3, <1>4, SlotChanged
<1>6. QED
  BY <1>2, <1>4, <1>5 DEF y

------------------------------------------------------------------------------
(* Reloads, one after the other.                                            *)
LEMMA ReloadStepManager ==
    ASSUME NEW x \in Manager, Sound(x), NEW i \in Filled(x), NEW n \in Names, x.slots[i].name = n,
           NEW f \in File, f[n] # Off, NEW how \in Hows
    PROVE  /\ ReloadStep(x, n, i, f, how) \in Manager /\ Sound(ReloadStep(x, n, i, f, how))
           /\ Renewed(x, ReloadStep(x, n, i, f, how))
           /\ DOMAIN ReloadStep(x, n, i, f, how).slots = DOMAIN x.slots
           /\ Filled(ReloadStep(x, n, i, f, how)) = Filled(x)
           /\ \A j \in DOMAIN x.slots \ {i} : ReloadStep(x, n, i, f, how).slots[j] = x.slots[j]
           /\ ReloadStep(x, n, i, f, how).slots[i].name = n
           /\ \/ ReloadStep(x, n, i, f, how).slots[i].inst = x.slots[i].inst
              \/ ReloadStep(x, n, i, f, how).slots[i].inst = [name |-> n, at |-> i]
           /\ how[n] = "ok" => \/ ReloadStep(x, n, i, f, how).slots[i].set = f[n]
                               \/ x.slots[i].fails >= ReloadThreshold
           /\ \A t \in ReloadStep(x, n, i, f, how).ticks :
                t \in x.ticks \/ (t.idx = i /\ t.owner = n)
<1> DEFINE y == ReloadStep(x, n, i, f, how)
           set == f[n]
<1>1. PICK S \in SUBSET DOMAIN x.slots : Filled(x) \subseteq S /\ Lists(x, S)
  BY DEF Sound
<1>2. Numbered(x) /\ i \in DOMAIN x.slots /\ x.slots[i].inst # NoInstance
  BY DEF Sound, Filled
<1>3. set \in Settings
  BY DEF File
<1>4. CASE y = x /\ (x.slots[i].fails >= ReloadThreshold \/ how[n] = "path")
  <2>1. Renewed(x, x)
    BY RenewedIsReflexive
  <2> HIDE DEF y
  <2>2. QED
    BY <1>2, <1>4, <2>1 DEF y
<1>5. CASE y = Failed(x, i) /\ how[n] # "ok"
  <2> HIDE DEF y
  <2>1. /\ y \in Manager /\ DOMAIN y.slots = DOMAIN x.slots
        /\ \A j \in DOMAIN x.slots \ {i} : y.slots[j] = x.slots[j]
        /\ y.slots[i].name = x.slots[i].name /\ y.slots[i].inst = x.slots[i].inst
        /\ y.ticks = x.ticks /\ Lists(y, S) /\ Renewed(x, y) /\ Numbered(y)
    BY <1>1, <1>2, <1>5, FailedManager
  <2>2. Filled(y) = Filled(x)
    BY <1>2, <2>1 DEF Filled
  <2>3. Sound(y)
    BY <1>1, <2>1, <2>2 DEF Sound
  <2>4. QED
    BY <1>5, <2>1, <2>2, <2>3 DEF y
<1>6. CASE y = Installed(x, i, set)
  <2> DEFINE e == NewSlot(n, i, set)
  <2>1. /\ e \in Slot /\ e.inst # NoInstance /\ e.name = n /\ e.set = set
        /\ e.inst = [name |-> n, at |-> i]
    <3>1. i \in Position
      BY <1>2, SlotFields
    <3>2. e \in Slot /\ e.inst # NoInstance
      BY <1>3, <3>1, NewSlotIsSlot
    <3>3. QED
      BY <3>2 DEF NewSlot
  <2>2. e = NewSlot(n, i, set)
    OBVIOUS
  <2> HIDE DEF y, set, e
  <2>3. /\ y \in Manager /\ y.slots = [x.slots EXCEPT ![i] = NewSlot(x.slots[i].name, i, set)]
        /\ Lists(y, S \union {i}) /\ Numbered(y) /\ Renewed(x, y)
        /\ \A t \in y.ticks : \/ t \in x.ticks /\ t.idx # i
                              \/ t.idx = i /\ t.owner = x.slots[i].name
    BY <1>1, <1>2, <1>3, <1>6, InstalledManager
  <2>4. /\ DOMAIN y.slots = DOMAIN x.slots /\ y.slots[i] = e
        /\ \A j \in DOMAIN x.slots \ {i} : y.slots[j] = x.slots[j]
    <3>1. x.slots \in Seq(Slot)
      BY DEF Manager
    <3>2. y.slots = [x.slots EXCEPT ![i] = e]
      BY <2>2, <2>3
    <3>3. QED
      BY <1>2, <2>1, <3>1, <3>2
  <2>5. Filled(y) = Filled(x)
    BY <1>2, <2>1, <2>4 DEF Filled
  <2>6. Sound(y)
    <3>1. S \union {i} = S
      BY <1>1
    <3>2. QED
      BY <1>1, <2>3, <2>4, <2>5, <3>1 DEF Sound
  <2>7. QED
    BY <2>1, <2>3, <2>4, <2>5, <2>6 DEF y, set
<1>7. QED
  BY <1>4, <1>5, <1>6 DEF ReloadStep

(* After k plugins of the list: their slots have the new setting, or the    *)
(* old instance, and the others are what they were.                         *)
ReloadedSlots(x, z, list, at, f, how, k) ==
    /\ DOMAIN z.slots = DOMAIN x.slots
    /\ Filled(z) = Filled(x)
    /\ \A i \in DOMAIN x.slots :
         /\ z.slots[i].name = x.slots[i].name
         /\ \/ z.slots[i].inst = x.slots[i].inst
            \/ z.slots[i].inst = [name |-> x.slots[i].name, at |-> i]
         /\ (\A j \in 1..k : at[list[j]] # i) => z.slots[i] = x.slots[i]
    /\ \A j \in 1..k : how[list[j]] = "ok" =>
         \/ z.slots[at[list[j]]].set = f[list[j]]
         \/ x.slots[at[list[j]]].fails >= ReloadThreshold
ReloadedTicks(x, z) ==
    /\ Renewed(x, z)
    /\ \A t \in z.ticks : \/ t \in x.ticks
                          \/ t.idx \in Filled(x) /\ x.slots[t.idx].name = t.owner

(* Each plugin of the list has a slot with an instance.                     *)
Addressed(x, list, at) ==
    \A k \in DOMAIN list : at[list[k]] \in Filled(x) /\ x.slots[at[list[k]]].name = list[k]

(* One more plugin of the list.                                             *)
LEMMA ReloadedStep ==
    ASSUME NEW x \in Manager, NEW list \in Seq(Names), IsInjective(list), NEW f \in File,
           NEW k \in DOMAIN list, f[list[k]] # Off, NEW how \in Hows,
           NEW at, Addressed(x, list, at), NEW z \in Manager, Sound(z),
           ReloadedSlots(x, z, list, at, f, how, k - 1), ReloadedTicks(x, z)
    PROVE  LET y == ReloadStep(z, list[k], at[list[k]], f, how)
           IN  /\ y \in Manager /\ Sound(y)
               /\ ReloadedSlots(x, y, list, at, f, how, k) /\ ReloadedTicks(x, y)
<1> DEFINE n == list[k]
           i == at[n]
           y == ReloadStep(z, n, i, f, how)
<1>1. /\ n \in Names /\ f[n] # Off /\ k \in Nat /\ k >= 1 /\ DOMAIN list = 1..Len(list)
      /\ Len(list) \in Nat
  OBVIOUS
<1>2. i \in Filled(x) /\ x.slots[i].name = n
  BY DEF Addressed
<1>3. i \in Filled(z) /\ z.slots[i].name = n /\ i \in DOMAIN x.slots
  BY <1>2 DEF ReloadedSlots, Filled
<1>4. \A j \in 1..k : j \in 1..(k - 1) \/ j = k
  BY <1>1
<1>5. 1..(k - 1) \subseteq 1..k /\ k \in 1..k
  BY <1>1
<1>6. \A j \in 1..(k - 1) : j \in DOMAIN list /\ j # k
  BY <1>1
<1>7. \A j \in 1..(k - 1) : at[list[j]] # i
  <2>1. TAKE j \in 1..(k - 1)
  <2>2. list[j] # n
    BY <1>6 DEF IsInjective
  <2>3. QED
    BY <1>2, <1>6, <2>2 DEF Addressed
<1>8. n = list[k] /\ i = at[n]
  OBVIOUS
<1> HIDE DEF n, i
<1>9. /\ y \in Manager /\ Sound(y) /\ Renewed(z, y)
      /\ DOMAIN y.slots = DOMAIN z.slots /\ Filled(y) = Filled(z)
      /\ \A j \in DOMAIN z.slots \ {i} : y.slots[j] = z.slots[j]
      /\ y.slots[i].name = n
      /\ y.slots[i].inst = z.slots[i].inst \/ y.slots[i].inst = [name |-> n, at |-> i]
      /\ how[n] = "ok" => y.slots[i].set = f[n] \/ z.slots[i].fails >= ReloadThreshold
      /\ \A t \in y.ticks : t \in z.ticks \/ (t.idx = i /\ t.owner = n)
  BY <1>1, <1>3, ReloadStepManager
<1> HIDE DEF y
<1>10. z.slots[i] = x.slots[i]
  BY <1>3, <1>7 DEF ReloadedSlots
<1>11. ReloadedTicks(x, y)
  <2>1. Renewed(x, y)
    BY <1>9, RenewedIsTransitive DEF ReloadedTicks
  <2>2. QED
    BY <1>2, <1>9, <2>1 DEF ReloadedTicks
<1>12. ASSUME NEW h \in DOMAIN x.slots
       PROVE  /\ y.slots[h].name = x.slots[h].name
              /\ \/ y.slots[h].inst = x.slots[h].inst
                 \/ y.slots[h].inst = [name |-> x.slots[h].name, at |-> h]
              /\ (\A j \in 1..k : at[list[j]] # h) => y.slots[h] = x.slots[h]
  <2>1. CASE h = i
    BY <1>2, <1>5, <1>8, <1>9, <1>10, <2>1
  <2>2. CASE h # i
    <3>1. y.slots[h] = z.slots[h]
      BY <1>9, <2>2 DEF ReloadedSlots
    <3>2. QED
      BY <1>5, <3>1 DEF ReloadedSlots
  <2>3. QED
    BY <2>1, <2>2
<1>13. ASSUME NEW j \in 1..k, how[list[j]] = "ok"
       PROVE  \/ y.slots[at[list[j]]].set = f[list[j]]
              \/ x.slots[at[list[j]]].fails >= ReloadThreshold
  <2>1. CASE j = k
    BY <1>8, <1>9, <1>10, <1>13, <2>1
  <2>2. CASE j \in 1..(k - 1)
    <3>1. at[list[j]] \in DOMAIN z.slots \ {i}
      BY <1>6, <1>7, <2>2 DEF Addressed, Filled, ReloadedSlots
    <3>2. y.slots[at[list[j]]] = z.slots[at[list[j]]]
      BY <1>9, <3>1
    <3>3. QED
      BY <1>13, <2>2, <3>2 DEF ReloadedSlots
  <2>3. QED
    BY <1>4, <2>1, <2>2
<1>14. ReloadedSlots(x, y, list, at, f, how, k)
  BY <1>9, <1>12, <1>13 DEF ReloadedSlots
<1>15. QED
  BY <1>8, <1>9, <1>11, <1>14 DEF y

Alike(x, z) ==
    /\ DOMAIN z.slots = DOMAIN x.slots /\ Filled(z) = Filled(x)
    /\ \A i \in DOMAIN x.slots : z.slots[i].name = x.slots[i].name

(* A reload keeps names and which slots have an instance.                   *)
LEMMA ReloadStepIsAlike ==
    ASSUME NEW x \in Manager, NEW z \in Manager, Sound(z), Alike(x, z), NEW i \in Filled(x),
           NEW n \in Names, x.slots[i].name = n, NEW f \in File, f[n] # Off, NEW how \in Hows
    PROVE  /\ ReloadStep(z, n, i, f, how) \in Manager /\ Sound(ReloadStep(z, n, i, f, how))
           /\ Alike(x, ReloadStep(z, n, i, f, how))
<1> DEFINE y == ReloadStep(z, n, i, f, how)
<1>1. i \in Filled(z) /\ z.slots[i].name = n /\ i \in DOMAIN x.slots
  BY DEF Alike, Filled
<1>2. /\ y \in Manager /\ Sound(y) /\ Renewed(z, y)
      /\ DOMAIN y.slots = DOMAIN z.slots /\ Filled(y) = Filled(z)
      /\ \A j \in DOMAIN z.slots \ {i} : y.slots[j] = z.slots[j]
      /\ y.slots[i].name = n
      /\ y.slots[i].inst = z.slots[i].inst \/ y.slots[i].inst = [name |-> n, at |-> i]
      /\ how[n] = "ok" => y.slots[i].set = f[n] \/ z.slots[i].fails >= ReloadThreshold
      /\ \A t \in y.ticks : t \in z.ticks \/ (t.idx = i /\ t.owner = n)
  BY <1>1, ReloadStepManager
<1> HIDE DEF y
<1>3. Alike(x, y)
  BY <1>1, <1>2 DEF Alike
<1>4. QED
  BY <1>2, <1>3 DEF y

(* The reloads are the steps of a function.                                 *)
LEMMA ReloadedSteps ==
    ASSUME NEW x \in Manager, Sound(x), NEW list \in Seq(Names), NEW f \in File,
           \A k \in DOMAIN list : f[list[k]] # Off, NEW how \in Hows, NEW at, Addressed(x, list, at)
    PROVE  \E g \in [0..Len(list) -> Manager] :
              /\ g[0] = x
              /\ \A k \in 1..Len(list) : g[k] = ReloadStep(g[k - 1], list[k], at[list[k]], f, how)
              /\ ReloadedInTurn(x, list, at, f, how) = g[Len(list)]
<1> DEFINE n == Len(list)
           D == {z \in Manager : Sound(z) /\ Alike(x, z)}
           step(z, k) == ReloadStep(z, list[k], at[list[k]], f, how)
           F == [k \in 1..n |-> [z \in D |-> step(z, k)]]
           Eq(g) == g = [k \in 0..n |-> IF k = 0 THEN x ELSE step(g[k - 1], k)]
<1>1. n \in Nat /\ DOMAIN list = 1..n /\ \A k \in 1..n : list[k] \in Names /\ f[list[k]] # Off
  OBVIOUS
<1>2. ASSUME NEW k \in 1..n, NEW z \in D PROVE step(z, k) \in D
  <2>1. /\ at[list[k]] \in Filled(x) /\ x.slots[at[list[k]]].name = list[k]
        /\ list[k] \in Names /\ f[list[k]] # Off
    BY <1>1 DEF Addressed
  <2>2. z \in Manager /\ Sound(z) /\ Alike(x, z)
    OBVIOUS
  <2>3. QED
    BY <2>1, <2>2, ReloadStepIsAlike
<1> HIDE DEF step
<1>3. F \in [1..n -> [D -> D]]
  BY <1>2
<1>4. x \in D
  BY DEF Alike
<1> HIDE DEF n, D
<1>5. PICK g \in [0..n -> D] : g[0] = x /\ \A k \in 1..n : g[k] = F[k][g[k - 1]]
  <2> HIDE DEF F
  <2>1. n \in Nat /\ x \in D /\ F \in [1..n -> [D -> D]]
    BY <1>1, <1>3, <1>4
  <2>2. Iterations(D, x, n, F) # {}
    BY <2>1, Recursion
  <2>3. QED
    BY <2>2 DEF Iterations
<1>6. \A k \in 1..n : k - 1 \in 0..n
  BY <1>1
<1>7. ASSUME NEW k \in 1..n PROVE F[k][g[k - 1]] = step(g[k - 1], k)
  <2>1. g[k - 1] \in D
    BY <1>6
  <2>2. QED
    BY <2>1
<1> HIDE DEF F
<1>8. Eq(g)
  <2>1. \A k \in 0..n : k = 0 \/ k \in 1..n
    BY <1>1
  <2>2. \A k \in 0..n : g[k] = IF k = 0 THEN x ELSE step(g[k - 1], k)
    BY <1>1, <1>5, <1>7, <2>1
  <2>3. QED
    BY <2>2
<1> DEFINE h == CHOOSE h : Eq(h)
<1>9. Eq(h)
  BY <1>8
<1>10. ReloadedInTurn(x, list, at, f, how) = h[n]
  BY DEF ReloadedInTurn, n, step
<1> HIDE DEF h
<1>11. h = [k \in 0..n |-> IF k = 0 THEN x ELSE step(h[k - 1], k)]
  BY <1>9
<1>12. /\ h[0] = x
       /\ \A k \in 1..n : h[k] = step(h[k - 1], k)
  <2>1. 0 \in 0..n /\ \A k \in 1..n : k \in 0..n /\ k # 0
    BY <1>1
  <2>2. h[0] = x
    BY <1>11, <2>1
  <2>3. ASSUME NEW k \in 1..n PROVE h[k] = step(h[k - 1], k)
    BY <1>11, <2>1
  <2>4. QED
    BY <2>2, <2>3
<1> DEFINE T == {k \in 0..n : h[k] \in D}
<1>13. 0 \in T
  BY <1>1, <1>4, <1>12
<1>14. ASSUME NEW k \in 1..n, k - 1 \in T PROVE k \in T
  <2>1. h[k] \in D
    BY <1>2, <1>12, <1>14
  <2>2. k \in 0..n
    BY <1>1
  <2>3. QED
    BY <2>1, <2>2
<1>15. \A k \in 0..n : k \in T
  <2> HIDE DEF T
  <2>1. QED
    BY <1>1, <1>13, <1>14, UpTo
<1>16. \A k \in 0..n : h[k] \in Manager
  BY <1>15 DEF D
<1>17. DOMAIN h = 0..n /\ h = [k \in 0..n |-> h[k]]
  BY <1>11
<1>18. h \in [0..n -> Manager]
  BY <1>16, <1>17
<1>19. QED
  BY <1>10, <1>12, <1>18 DEF n, step

(* All plugins of the list.                                                 *)
LEMMA ReloadedManager ==
    ASSUME NEW x \in Manager, Sound(x), NEW list \in Seq(Names), IsInjective(list), NEW f \in File,
           \A k \in DOMAIN list : f[list[k]] # Off, NEW how \in Hows, NEW at, Addressed(x, list, at)
    PROVE  /\ ReloadedInTurn(x, list, at, f, how) \in Manager
           /\ Sound(ReloadedInTurn(x, list, at, f, how))
           /\ ReloadedSlots(x, ReloadedInTurn(x, list, at, f, how), list, at, f, how, Len(list))
           /\ ReloadedTicks(x, ReloadedInTurn(x, list, at, f, how))
<1> DEFINE n == Len(list)
<1>1. n \in Nat /\ DOMAIN list = 1..n /\ \A k \in 1..n : list[k] \in Names /\ f[list[k]] # Off
  OBVIOUS
<1>2. PICK g \in [0..n -> Manager] :
         /\ g[0] = x
         /\ \A k \in 1..n : g[k] = ReloadStep(g[k - 1], list[k], at[list[k]], f, how)
         /\ ReloadedInTurn(x, list, at, f, how) = g[n]
  BY ReloadedSteps
<1> HIDE DEF n
<1> DEFINE Fits(z, k) == Sound(z) /\ ReloadedSlots(x, z, list, at, f, how, k) /\ ReloadedTicks(x, z)
           T == {k \in 0..n : Fits(g[k], k)}
<1>3. 0 \in T
  <2>1. 1..0 = {}
    OBVIOUS
  <2>2. ReloadedSlots(x, x, list, at, f, how, 0)
    BY <2>1 DEF ReloadedSlots
  <2>3. ReloadedTicks(x, x)
    BY RenewedIsReflexive DEF ReloadedTicks
  <2>4. 0 \in 0..n
    BY <1>1
  <2>5. QED
    BY <1>2, <2>2, <2>3, <2>4
<1>4. ASSUME NEW k \in 1..n, k - 1 \in T PROVE k \in T
  <2>1. k - 1 \in 0..n /\ k \in 0..n
    BY <1>1
  <2>2. g[k - 1] \in Manager /\ Fits(g[k - 1], k - 1)
    BY <1>4, <2>1
  <2>3. k \in DOMAIN list /\ f[list[k]] # Off
    BY <1>1
  <2> DEFINE y == ReloadStep(g[k - 1], list[k], at[list[k]], f, how)
  <2>4. Fits(y, k)
    BY <2>2, <2>3, ReloadedStep
  <2>5. QED
    BY <1>2, <2>1, <2>4
<1> HIDE DEF T
<1>5. \A k \in 0..n : k \in T
  BY <1>1, <1>3, <1>4, UpTo
<1>6. n \in T /\ n \in 0..n
  BY <1>1, <1>5
<1>7. QED
  BY <1>2, <1>6 DEF T, n

------------------------------------------------------------------------------
(* Compaction: the slots with an instance, in their order, and their new    *)
(* numbers.                                                                 *)
Place(x, k) == InOrder(Filled(x), Upward(Filled(x)))[k]
Count(x)    == Cardinality(Filled(x))

(* The slots with an instance are finitely many numbers.                    *)
LEMMA FilledIsFinite ==
    ASSUME NEW x \in Manager
    PROVE  /\ Filled(x) \subseteq DOMAIN x.slots /\ Filled(x) \subseteq Nat \ {0}
           /\ IsFiniteSet(Filled(x)) /\ IsFiniteSet(DOMAIN x.slots)
<1>1. DOMAIN x.slots = 1..Len(x.slots) /\ Len(x.slots) \in Nat
  BY DEF Manager
<1>2. IsFiniteSet(DOMAIN x.slots)
  BY <1>1, FS_Interval
<1>3. Filled(x) \subseteq DOMAIN x.slots
  BY DEF Filled
<1>4. QED
  BY <1>1, <1>2, <1>3, FS_Subset

(* Old and new numbers of the slots that stay correspond one to one.        *)
LEMMA Places ==
    ASSUME NEW x \in Manager
    PROVE  /\ Count(x) \in Nat
           /\ \A k \in 1..Count(x) : Place(x, k) \in Filled(x) /\ NewIdx(x, Place(x, k)) = k
           /\ \A i \in Filled(x) : NewIdx(x, i) \in 1..Count(x) /\ Place(x, NewIdx(x, i)) = i
<1> DEFINE K == Filled(x)
           R == Upward(K)
<1>1. K \in SUBSET Nat /\ IsFiniteSet(K)
  BY FilledIsFinite
<1>2. \A i \in K : NewIdx(x, i) = Rank(K, R, i)
  <2>1. TAKE i \in K
  <2>2. {j \in K : j <= i} = {j \in K : <<j, i>> \in R}
    BY DEF Upward
  <2>3. QED
    BY <2>2 DEF NewIdx, Rank
<1>3. TotalOrder(K, R)
  BY <1>1, UpwardIsOrder
<1> HIDE DEF K, R
<1>4. /\ Cardinality(K) \in Nat
      /\ InOrder(K, R) \in [1..Cardinality(K) -> K]
      /\ \A i \in K : /\ Rank(K, R, i) \in 1..Cardinality(K)
                      /\ InOrder(K, R)[Rank(K, R, i)] = i
      /\ \A k \in 1..Cardinality(K) : Rank(K, R, InOrder(K, R)[k]) = k
  BY <1>1, <1>3, MembersInOrder
<1>5. Count(x) = Cardinality(K) /\ \A k : Place(x, k) = InOrder(K, R)[k]
  BY DEF Count, Place, K, R
<1>6. \A k \in 1..Cardinality(K) : InOrder(K, R)[k] \in K
  BY <1>4
<1>7. QED
  BY <1>2, <1>4, <1>5, <1>6 DEF K

(* What the slots hold after compaction.                                    *)
LEMMA SqueezedSlots ==
    ASSUME NEW x \in Manager
    PROVE  /\ CompactedSlots(x) \in Seq(Slot)
           /\ DOMAIN CompactedSlots(x) = 1..Count(x)
           /\ \A k \in 1..Count(x) :
                /\ CompactedSlots(x)[k].name = x.slots[Place(x, k)].name
                /\ CompactedSlots(x)[k].set = x.slots[Place(x, k)].set
                /\ CompactedSlots(x)[k].fails = x.slots[Place(x, k)].fails
                /\ CompactedSlots(x)[k].inst # NoInstance
                /\ CompactedSlots(x)[k].inst = [name |-> x.slots[Place(x, k)].inst.name, at |-> k]
<1> DEFINE K == Filled(x)
           kept == Kept(x.slots, K)
           e(k) == [kept[k] EXCEPT !.inst.at = k]
           n == Count(x)
<1>1. x.slots \in Seq(Slot)
  BY DEF Manager
<1>2. K \in SUBSET DOMAIN x.slots /\ K \in SUBSET Nat
  BY FilledIsFinite
<1>3. TotalOrder(K, Upward(K))
  BY <1>2, UpwardIsOrder
<1>4. /\ kept \in Seq(Slot) /\ Len(kept) = n /\ n \in Nat
      /\ \A k \in 1..n : Place(x, k) \in K /\ kept[k] = x.slots[Place(x, k)]
  <2> HIDE DEF K
  <2>1. /\ Arranged(x.slots, K, Upward(K)) \in Seq(Slot)
        /\ Len(Arranged(x.slots, K, Upward(K))) = Cardinality(K) /\ Cardinality(K) \in Nat
        /\ \A k \in 1..Cardinality(K) :
             /\ InOrder(K, Upward(K))[k] \in K
             /\ Arranged(x.slots, K, Upward(K))[k] = x.slots[InOrder(K, Upward(K))[k]]
    BY <1>1, <1>2, <1>3, ArrangedSeq
  <2>2. QED
    BY <2>1 DEF Kept, Count, Place, K
<1>5. DOMAIN kept = 1..n
  BY <1>4
<1>6. CompactedSlots(x) = [k \in 1..n |-> e(k)]
  BY <1>5 DEF CompactedSlots
<1>7. ASSUME NEW k \in 1..n
      PROVE  /\ e(k) \in Slot /\ e(k).name = x.slots[Place(x, k)].name
             /\ e(k).set = x.slots[Place(x, k)].set /\ e(k).fails = x.slots[Place(x, k)].fails
             /\ e(k).inst # NoInstance
             /\ e(k).inst = [name |-> x.slots[Place(x, k)].inst.name, at |-> k]
  <2> DEFINE s == x.slots[Place(x, k)]
             b == [s.inst EXCEPT !.at = k]
  <2>1. s \in Slot /\ s.inst # NoInstance
    BY <1>2, <1>4, SlotFields DEF Filled
  <2>2. e(k) = [s EXCEPT !.inst = b]
    BY <1>4
  <2>3. s.inst \in Instance
    BY <2>1 DEF Slot
  <2>4. k \in Position
    BY DEF Position
  <2>5. s = x.slots[Place(x, k)]
    OBVIOUS
  <2> HIDE DEF s, e, kept
  <2>6. b \in Instance /\ b = [name |-> s.inst.name, at |-> k]
    BY <2>3, <2>4 DEF Instance
  <2>7. b # NoInstance
    BY <2>6, InstanceAssumption
  <2> HIDE DEF b
  <2>8. /\ e(k) \in Slot /\ e(k).name = s.name /\ e(k).set = s.set /\ e(k).fails = s.fails
        /\ e(k).inst = b
    BY <2>1, <2>2, <2>6 DEF Slot
  <2>9. QED
    BY <2>5, <2>6, <2>7, <2>8
<1> HIDE DEF kept, e, n
<1>8. [k \in 1..n |-> e(k)] \in Seq(Slot)
  <2>1. n \in Nat /\ \A k \in 1..n : e(k) \in Slot
    BY <1>4, <1>7
  <2>2. QED
    BY <2>1
<1>9. QED
  BY <1>6, <1>7, <1>8 DEF n

(* A list of numbers of slots that stay, after compaction.                  *)
LEMMA MovedList ==
    ASSUME NEW x \in Manager, NEW s \in Seq(Position), IsInjective(s), ToSet(s) \subseteq Filled(x)
    PROVE  /\ Moved(x, s) \in Seq(Position) /\ IsInjective(Moved(x, s))
           /\ ToSet(Moved(x, s)) \subseteq 1..Count(x)
           /\ \A k \in 1..Count(x) : k \in ToSet(Moved(x, s)) <=> Place(x, k) \in ToSet(s)
<1> DEFINE q == Moved(x, s)
<1>1. q = [k \in DOMAIN s |-> NewIdx(x, s[k])]
  BY DEF Moved
<1>2. \A k \in DOMAIN s : s[k] \in Filled(x) /\ s[k] \in ToSet(s)
  BY DEF ToSet
<1>3. /\ Count(x) \in Nat
      /\ \A k \in 1..Count(x) : Place(x, k) \in Filled(x) /\ NewIdx(x, Place(x, k)) = k
      /\ \A i \in Filled(x) : NewIdx(x, i) \in 1..Count(x) /\ Place(x, NewIdx(x, i)) = i
  BY Places
<1>4. \A k \in DOMAIN s : NewIdx(x, s[k]) \in Position
  BY <1>2, <1>3 DEF Position
<1>5. q \in Seq(Position) /\ DOMAIN q = DOMAIN s
  BY <1>1, <1>4
<1>6. \A k \in DOMAIN s : q[k] = NewIdx(x, s[k])
  BY <1>1
<1> HIDE DEF q
<1>7. IsInjective(q)
  <2>1. \A k, l \in DOMAIN s : q[k] = q[l] => s[k] = s[l]
    BY <1>2, <1>3, <1>6
  <2>2. QED
    BY <1>5, <2>1 DEF IsInjective
<1>8. ToSet(q) \subseteq 1..Count(x)
  BY <1>2, <1>3, <1>5, <1>6 DEF ToSet
<1>9. ASSUME NEW k \in 1..Count(x)
      PROVE  k \in ToSet(q) <=> Place(x, k) \in ToSet(s)
  <2>1. ASSUME k \in ToSet(q) PROVE Place(x, k) \in ToSet(s)
    <3>1. PICK j \in DOMAIN s : k = q[j]
      BY <1>5, <2>1 DEF ToSet
    <3>2. Place(x, k) = s[j]
      BY <1>2, <1>3, <1>6, <3>1
    <3>3. QED
      BY <1>2, <3>2
  <2>2. ASSUME Place(x, k) \in ToSet(s) PROVE k \in ToSet(q)
    <3>1. PICK j \in DOMAIN s : Place(x, k) = s[j]
      BY <2>2 DEF ToSet
    <3>2. q[j] = k
      BY <1>3, <1>6, <3>1
    <3>3. QED
      BY <1>5, <3>2 DEF ToSet
  <2>3. QED
    BY <2>1, <2>2
<1>10. QED
  BY <1>5, <1>7, <1>8, <1>9 DEF q

MovedTick(x, t) == IF t.idx \in Filled(x) THEN [t EXCEPT !.idx = NewIdx(x, t.idx)] ELSE t
MovedTicks(x)   == {MovedTick(x, t) : t \in x.ticks}

(* The ticks after compaction: ids and owners stay.                         *)
LEMMA TicksMove ==
    ASSUME NEW x \in Manager, Numbered(x)
    PROVE  /\ MovedTicks(x) \in SUBSET TickEntry /\ IsFiniteSet(MovedTicks(x))
           /\ \A t \in MovedTicks(x) :
                \E u \in x.ticks : /\ u.id = t.id /\ u.owner = t.owner /\ t = MovedTick(x, u)
                                   /\ u.idx \in Filled(x) => t.idx = NewIdx(x, u.idx)
           /\ \A t, u \in MovedTicks(x) : t.id = u.id => t = u
<1>1. x.ticks \in SUBSET TickEntry
  BY DEF Manager
<1>2. ASSUME NEW u \in x.ticks
      PROVE  /\ MovedTick(x, u) \in TickEntry
             /\ MovedTick(x, u).id = u.id /\ MovedTick(x, u).owner = u.owner
             /\ u.idx \in Filled(x) => MovedTick(x, u).idx = NewIdx(x, u.idx)
  <2>1. u \in TickEntry
    BY <1>1
  <2>2. CASE u.idx \notin Filled(x)
    BY <2>1, <2>2 DEF MovedTick
  <2>3. CASE u.idx \in Filled(x)
    <3>1. NewIdx(x, u.idx) \in Position
      BY <2>3, Places DEF Position
    <3>2. QED
      BY <2>1, <2>3, <3>1 DEF MovedTick, TickEntry
  <2>4. QED
    BY <2>2, <2>3
<1>3. MovedTicks(x) \in SUBSET TickEntry
  BY <1>2 DEF MovedTicks
<1>4. ASSUME NEW t \in MovedTicks(x)
      PROVE  \E u \in x.ticks : /\ u.id = t.id /\ u.owner = t.owner /\ t = MovedTick(x, u)
                                /\ u.idx \in Filled(x) => t.idx = NewIdx(x, u.idx)
  <2>1. PICK u \in x.ticks : t = MovedTick(x, u)
    BY DEF MovedTicks
  <2>2. QED
    BY <1>2, <2>1
<1>5. \A t, u \in MovedTicks(x) : t.id = u.id => t = u
  BY <1>4 DEF Numbered
<1>6. IsFiniteSet(MovedTicks(x))
  <2> DEFINE F == [t \in x.ticks |-> MovedTick(x, t)]
  <2>1. F \in Surjection(x.ticks, MovedTicks(x))
    BY DEF Surjection, MovedTicks
  <2>2. QED
    BY <2>1, FS_Surjection DEF Numbered
<1>7. QED
  BY <1>3, <1>4, <1>5, <1>6

(* The slots of y are those of x with an instance: slot k was p[k].         *)
Squeezed(x, y, p) ==
    /\ p \in [DOMAIN y.slots -> Filled(x)]
    /\ \A k, l \in DOMAIN y.slots : p[k] = p[l] => k = l
    /\ \A i \in Filled(x) : \E k \in DOMAIN y.slots : p[k] = i
    /\ \A k \in DOMAIN y.slots :
         /\ y.slots[k].name = x.slots[p[k]].name
         /\ y.slots[k].set = x.slots[p[k]].set
         /\ y.slots[k].fails = x.slots[p[k]].fails
         /\ x.slots[p[k]].inst.at = p[k] =>
              y.slots[k].inst = [name |-> x.slots[p[k]].inst.name, at |-> k]
    /\ \A t \in y.ticks :
         \E u \in x.ticks : /\ u.id = t.id /\ u.owner = t.owner
                            /\ u.idx \in Filled(x) => t.idx \in DOMAIN y.slots /\ p[t.idx] = u.idx

Whole(x) == Lists(x, DOMAIN x.slots) /\ Ordered(x) /\ Numbered(x)

(* If no slot is empty, each stays where it is.                             *)
LEMMA NothingToCompact ==
    ASSUME NEW x \in Manager, Filled(x) = DOMAIN x.slots
    PROVE  Squeezed(x, x, [k \in DOMAIN x.slots |-> k])
<1> DEFINE p == [k \in DOMAIN x.slots |-> k]
<1>1. \A k \in DOMAIN x.slots : p[k] = k
  OBVIOUS
<1>2. p \in [DOMAIN x.slots -> Filled(x)]
  OBVIOUS
<1> HIDE DEF p
<1>3. ASSUME NEW k \in DOMAIN x.slots, x.slots[k].inst.at = k
      PROVE  x.slots[k].inst = [name |-> x.slots[k].inst.name, at |-> k]
  <2>1. x.slots[k].inst # NoInstance
    BY DEF Filled
  <2>2. x.slots[k].inst \in Instance
    BY <2>1, SlotFields
  <2>3. QED
    BY <1>3, <2>2 DEF Instance
<1>4. QED
  BY <1>1, <1>2, <1>3 DEF Squeezed, p

(* The lists speak of all the slots that stay, by their new numbers.        *)
LEMMA SqueezedLists ==
    ASSUME NEW x \in Manager, Sound(x), Filled(x) # DOMAIN x.slots
    PROVE  \E z \in Manager :
              /\ Compacted(x) = Sorted(z)
              /\ Lists(z, DOMAIN z.slots) /\ z.slots = CompactedSlots(x)
              /\ z.ticks = MovedTicks(x) /\ z.next = x.next
<1> DEFINE K == Filled(x)
           n == Count(x)
           w(c) == Without(x.cmds[c], DOMAIN x.slots \ K)
           slots == CompactedSlots(x)
           msgs == {NewIdx(x, i) : i \in x.msgs \intersect K}
           z == [x EXCEPT !.slots = slots, !.cmds = [c \in CmdNames |-> Moved(x, w(c))],
                          !.msgs = msgs, !.ticks = MovedTicks(x)]
<1>1. Compacted(x) = Sorted(z)
  BY DEF Compacted, MovedTicks, MovedTick
<1>2. PICK S \in SUBSET DOMAIN x.slots : K \subseteq S /\ Lists(x, S)
  BY DEF Sound
<1>3. /\ slots \in Seq(Slot) /\ DOMAIN slots = 1..n
      /\ \A k \in 1..n : slots[k].set = x.slots[Place(x, k)].set
  BY SqueezedSlots
<1>4. /\ n \in Nat
      /\ \A k \in 1..n : Place(x, k) \in K /\ NewIdx(x, Place(x, k)) = k
      /\ \A i \in K : NewIdx(x, i) \in 1..n /\ Place(x, NewIdx(x, i)) = i
  BY Places
<1>5. K \subseteq DOMAIN x.slots
  BY FilledIsFinite
<1> HIDE DEF K, n, slots
<1>6. ASSUME NEW c \in CmdNames
      PROVE  /\ Moved(x, w(c)) \in Seq(Position) /\ IsInjective(Moved(x, w(c)))
             /\ ToSet(Moved(x, w(c))) = {k \in 1..n : c \in slots[k].set.cmds}
  <2> DEFINE s == x.cmds[c]
             out == DOMAIN x.slots \ K
  <2>1. s \in Seq(Position) /\ IsInjective(s) /\ ToSet(s) = {i \in S : c \in x.slots[i].set.cmds}
    BY <1>2 DEF Manager, Lists
  <2> HIDE DEF s
  <2>2. /\ w(c) \in Seq(Position) /\ ToSet(w(c)) = ToSet(s) \ out /\ IsInjective(w(c))
    <3> HIDE DEF out
    <3>1. /\ Without(s, out) \in Seq(Position) /\ ToSet(Without(s, out)) = ToSet(s) \ out
          /\ IsInjective(Without(s, out))
      BY <2>1, WithoutSeq
    <3>2. QED
      BY <3>1 DEF s, out
  <2>3. \A i \in K : i \in ToSet(w(c)) <=> c \in x.slots[i].set.cmds
    BY <1>2, <2>1, <2>2
  <2>4. ToSet(w(c)) \subseteq K
    BY <1>2, <2>1, <2>2
  <2> HIDE DEF w
  <2>5. /\ Moved(x, w(c)) \in Seq(Position) /\ IsInjective(Moved(x, w(c)))
        /\ ToSet(Moved(x, w(c))) \subseteq 1..n
        /\ \A k \in 1..n : k \in ToSet(Moved(x, w(c))) <=> Place(x, k) \in ToSet(w(c))
    BY <2>2, <2>4, MovedList DEF K, n
  <2>6. QED
    BY <1>3, <1>4, <2>3, <2>5
<1> HIDE DEF w
<1>7. msgs \in SUBSET Position
  BY <1>4 DEF Position
<1>8. msgs = {k \in 1..n : slots[k].set.msg}
  <2>1. \A i \in K : i \in x.msgs <=> x.slots[i].set.msg
    BY <1>2 DEF Lists
  <2>2. ASSUME NEW k \in msgs PROVE k \in 1..n /\ slots[k].set.msg
    <3>1. PICK i \in x.msgs \intersect K : k = NewIdx(x, i)
      OBVIOUS
    <3>2. QED
      BY <1>3, <1>4, <2>1, <3>1
  <2>3. ASSUME NEW k \in 1..n, slots[k].set.msg PROVE k \in msgs
    <3>1. Place(x, k) \in x.msgs \intersect K /\ NewIdx(x, Place(x, k)) = k
      BY <1>3, <1>4, <2>1, <2>3
    <3>2. QED
      BY <3>1
  <2>4. QED
    BY <2>2, <2>3
<1>9. MovedTicks(x) \in SUBSET TickEntry
  BY TicksMove DEF Sound
<1> DEFINE cmds == [c \in CmdNames |-> Moved(x, w(c))]
<1>10. cmds \in [CmdNames -> Seq(Position)] /\ \A c \in CmdNames : cmds[c] = Moved(x, w(c))
  BY <1>6
<1>11. z = [x EXCEPT !.slots = slots, !.cmds = cmds, !.msgs = msgs, !.ticks = MovedTicks(x)]
  OBVIOUS
<1> HIDE DEF cmds, msgs
<1>12. z \in Manager
  BY <1>3, <1>7, <1>9, <1>10, <1>11 DEF Manager
<1>13. z.slots = slots /\ z.cmds = cmds /\ z.msgs = msgs /\ z.ticks = MovedTicks(x) /\ z.next = x.next
  BY <1>11 DEF Manager
<1> HIDE DEF z
<1>14. Lists(z, DOMAIN z.slots)
  BY <1>3, <1>6, <1>8, <1>10, <1>13 DEF Lists
<1>15. QED
  BY <1>1, <1>12, <1>13, <1>14 DEF slots

(* Compaction in one statement: slots and ticks move together.              *)
LEMMA SqueezedByPlace ==
    ASSUME NEW x \in Manager, NEW y, y.slots = CompactedSlots(x), y.ticks = MovedTicks(x),
           Numbered(x)
    PROVE  Squeezed(x, y, [k \in 1..Count(x) |-> Place(x, k)])
<1> DEFINE n == Count(x)
           p == [k \in 1..n |-> Place(x, k)]
<1>1. /\ DOMAIN y.slots = 1..n
      /\ \A k \in 1..n : /\ y.slots[k].name = x.slots[Place(x, k)].name
                         /\ y.slots[k].set = x.slots[Place(x, k)].set
                         /\ y.slots[k].fails = x.slots[Place(x, k)].fails
                         /\ y.slots[k].inst = [name |-> x.slots[Place(x, k)].inst.name, at |-> k]
  BY SqueezedSlots
<1>2. /\ \A k \in 1..n : Place(x, k) \in Filled(x) /\ NewIdx(x, Place(x, k)) = k
      /\ \A i \in Filled(x) : NewIdx(x, i) \in 1..n /\ Place(x, NewIdx(x, i)) = i
  BY Places
<1> HIDE DEF n
<1>3. \A k \in 1..n : p[k] = Place(x, k)
  OBVIOUS
<1>4. p \in [1..n -> Filled(x)]
  BY <1>2
<1>5. \A k, l \in 1..n : p[k] = p[l] => k = l
  BY <1>2, <1>3
<1>6. \A i \in Filled(x) : \E k \in 1..n : p[k] = i
  BY <1>2, <1>3
<1> HIDE DEF p
<1>7. ASSUME NEW t \in y.ticks
      PROVE  \E u \in x.ticks : /\ u.id = t.id /\ u.owner = t.owner
                                /\ u.idx \in Filled(x) => t.idx \in 1..n /\ p[t.idx] = u.idx
  <2>1. PICK u \in x.ticks : /\ u.id = t.id /\ u.owner = t.owner
                             /\ u.idx \in Filled(x) => t.idx = NewIdx(x, u.idx)
    BY TicksMove
  <2>2. u.idx \in Filled(x) => t.idx \in 1..n /\ p[t.idx] = u.idx
    BY <1>2, <1>3, <2>1
  <2>3. QED
    BY <2>1, <2>2
<1>8. Squeezed(x, y, p)
  BY <1>1, <1>3, <1>4, <1>5, <1>6, <1>7 DEF Squeezed
<1>9. QED
  BY <1>8 DEF p, n

(* After compaction each slot has its instance, and the lists are complete. *)
LEMMA CompactedManager ==
    ASSUME NEW x \in Manager, Sound(x), Ordered(x)
    PROVE  /\ Compacted(x) \in Manager /\ Whole(Compacted(x)) /\ Renewed(x, Compacted(x))
           /\ Filled(Compacted(x)) = DOMAIN Compacted(x).slots
           /\ \E p : Squeezed(x, Compacted(x), p)
<1> DEFINE y == Compacted(x)
<1>1. CASE Filled(x) = DOMAIN x.slots
  <2>1. y = x
    BY <1>1 DEF Compacted
  <2>2. Lists(x, DOMAIN x.slots)
    <3>1. PICK S \in SUBSET DOMAIN x.slots : Filled(x) \subseteq S /\ Lists(x, S)
      BY DEF Sound
    <3>2. S = DOMAIN x.slots
      BY <1>1, <3>1
    <3>3. QED
      BY <3>1, <3>2
  <2>3. Squeezed(x, x, [k \in DOMAIN x.slots |-> k])
    BY <1>1, NothingToCompact
  <2>4. Renewed(x, x) /\ Numbered(x)
    BY RenewedIsReflexive DEF Sound
  <2>5. QED
    BY <1>1, <2>1, <2>2, <2>3, <2>4 DEF Whole
<1>2. CASE Filled(x) # DOMAIN x.slots
  <2>1. PICK z \in Manager : /\ y = Sorted(z)
                             /\ Lists(z, DOMAIN z.slots) /\ z.slots = CompactedSlots(x)
                             /\ z.ticks = MovedTicks(x) /\ z.next = x.next
    BY <1>2, SqueezedLists
  <2>2. /\ y \in Manager /\ y.slots = z.slots /\ y.ticks = z.ticks /\ y.next = z.next
        /\ Lists(y, DOMAIN z.slots) /\ Ordered(y)
    BY <2>1, SortedManager
  <2> HIDE DEF y
  <2>3. \A t \in y.ticks : \E u \in x.ticks : u.id = t.id /\ u.owner = t.owner
    BY <2>1, <2>2, TicksMove DEF Sound
  <2>4. Numbered(y)
    <3>1. IsFiniteSet(y.ticks) /\ \A t, u \in y.ticks : t.id = u.id => t = u
      BY <2>1, <2>2, TicksMove DEF Sound
    <3>2. QED
      BY <2>1, <2>2, <2>3, <3>1 DEF Numbered, Sound
  <2>5. Renewed(x, y)
    <3>1. x.next \in Nat
      BY DEF Manager
    <3>2. QED
      BY <2>1, <2>2, <2>3, <3>1 DEF Renewed
  <2>6. Filled(y) = DOMAIN y.slots
    <3>1. y.slots = CompactedSlots(x)
      BY <2>1, <2>2
    <3>2. /\ DOMAIN CompactedSlots(x) = 1..Count(x)
          /\ \A k \in 1..Count(x) : CompactedSlots(x)[k].inst # NoInstance
      BY SqueezedSlots
    <3>3. QED
      BY <3>1, <3>2 DEF Filled
  <2>7. Squeezed(x, y, [k \in 1..Count(x) |-> Place(x, k)])
    BY <2>1, <2>2, SqueezedByPlace DEF Sound
  <2>8. QED
    BY <2>2, <2>4, <2>5, <2>6, <2>7 DEF Whole, y
<1>3. QED
  BY <1>1, <1>2

------------------------------------------------------------------------------
(* A reload of all plugins.                                                 *)
LEMMA OldIdxIsOld ==
    ASSUME NEW x \in Manager, NEW n, OldSlots(x, n) # {}
    PROVE  /\ OldIdx(x, n) \in Filled(x) /\ x.slots[OldIdx(x, n)].name = n
<1>1. OldSlots(x, n) \subseteq Filled(x) /\ \A i \in OldSlots(x, n) : x.slots[i].name = n
  BY DEF OldSlots
<1>2. OldSlots(x, n) \in SUBSET Nat /\ IsFiniteSet(OldSlots(x, n))
  BY <1>1, FilledIsFinite, FS_Subset
<1>3. \E i \in OldSlots(x, n) : \A j \in OldSlots(x, n) : j <= i
  BY <1>2, LargestOf
<1>4. OldIdx(x, n) \in OldSlots(x, n)
  BY <1>3 DEF OldIdx
<1>5. QED
  BY <1>1, <1>4

(* The enabled plugins, or some of them, once each.                         *)
LEMMA EnabledSeq ==
    ASSUME NEW f \in File, NEW G
    PROVE  /\ Without(Enabled(f), G) \in Seq(Names) /\ IsInjective(Without(Enabled(f), G))
           /\ ToSet(Without(Enabled(f), G)) = {n \in Names : f[n] # Off} \ G
           /\ Enabled(f) \in Seq(Names) /\ IsInjective(Enabled(f))
           /\ ToSet(Enabled(f)) = {n \in Names : f[n] # Off}
<1> DEFINE off == {n \in Names : f[n] = Off}
           e == Enabled(f)
<1>1. Order \in Seq(Names) /\ ToSet(Order) = Names /\ IsInjective(Order)
  BY OrderAssumption
<1>2. e \in Seq(Names) /\ ToSet(e) = Names \ off /\ IsInjective(e)
  <2> HIDE DEF off
  <2>1. /\ Without(Order, off) \in Seq(Names) /\ ToSet(Without(Order, off)) = ToSet(Order) \ off
        /\ IsInjective(Order) => IsInjective(Without(Order, off))
    BY <1>1, WithoutSeq
  <2>2. QED
    BY <1>1, <2>1 DEF Enabled, off
<1>3. Names \ off = {n \in Names : f[n] # Off}
  OBVIOUS
<1> HIDE DEF e, off
<1>4. /\ Without(e, G) \in Seq(Names) /\ ToSet(Without(e, G)) = ToSet(e) \ G
      /\ IsInjective(e) => IsInjective(Without(e, G))
  BY <1>2, WithoutSeq
<1>5. QED
  BY <1>2, <1>3, <1>4 DEF e

(* The three stages of a reload.                                            *)
Shrunk(x, f)     == Removed(x, ToRemove(x, f))
Grown(x, f, how) == AddedAll(Shrunk(x, f), ToAdd(x, f), f, how)
AtOf(x)          == [n \in {n \in Names : OldSlots(x, n) # {}} |-> OldIdx(x, n)]

(* Lists that speak of all slots speak of those with an instance.           *)
LEMMA WholeIsSound ==
    ASSUME NEW x \in Manager, Whole(x)
    PROVE  Sound(x)
<1>1. Filled(x) \subseteq DOMAIN x.slots
  BY DEF Filled
<1>2. QED
  BY <1>1 DEF Sound, Whole

(* Slots are removed exactly for plugins that are no longer enabled.        *)
LEMMA ToRemoveIsOff ==
    ASSUME NEW x \in Manager, NEW f \in File
    PROVE  /\ ToRemove(x, f) \subseteq Filled(x)
           /\ \A i \in ToRemove(x, f) : f[x.slots[i].name] = Off
           /\ \A n \in Names : OldSlots(x, n) # {} /\ f[n] = Off => OldIdx(x, n) \in ToRemove(x, f)
<1>1. ASSUME NEW i \in ToRemove(x, f) PROVE i \in Filled(x) /\ f[x.slots[i].name] = Off
  <2>1. PICK n \in Names : OldSlots(x, n) # {} /\ f[n] = Off /\ i = OldIdx(x, n)
    BY DEF ToRemove
  <2>2. QED
    BY <2>1, OldIdxIsOld
<1>2. QED
  BY <1>1 DEF ToRemove

(* The manager after the removals.                                          *)
LEMMA ShrunkManager ==
    ASSUME NEW x \in Manager, Whole(x), NEW f \in File
    PROVE  /\ Shrunk(x, f) \in Manager /\ Sound(Shrunk(x, f)) /\ Renewed(x, Shrunk(x, f))
           /\ DOMAIN Shrunk(x, f).slots = DOMAIN x.slots
           /\ \A i \in DOMAIN x.slots :
                i \notin ToRemove(x, f) => Shrunk(x, f).slots[i] = x.slots[i]
           /\ Filled(Shrunk(x, f)) = Filled(x) \ ToRemove(x, f)
           /\ Shrunk(x, f).ticks = {t \in x.ticks : t.idx \notin ToRemove(x, f)}
<1>1. Sound(x)
  BY WholeIsSound
<1> DEFINE G == ToRemove(x, f)
<1> HIDE DEF G
<1>2. /\ Removed(x, G) \in Manager /\ Sound(Removed(x, G)) /\ Renewed(x, Removed(x, G))
      /\ DOMAIN Removed(x, G).slots = DOMAIN x.slots
      /\ \A i \in DOMAIN x.slots :
           /\ i \notin G => Removed(x, G).slots[i] = x.slots[i]
           /\ Removed(x, G).slots[i].name = x.slots[i].name
      /\ Filled(Removed(x, G)) = Filled(x) \ G
      /\ Removed(x, G).ticks = {t \in x.ticks : t.idx \notin G}
  BY <1>1, RemovedManager
<1>3. QED
  BY <1>2 DEF Shrunk, G

(* Plugins are added that are enabled and have no instance.                 *)
LEMMA ToAddSeq ==
    ASSUME NEW x \in Manager, NEW f \in File
    PROVE  /\ ToAdd(x, f) \in Seq(Names) /\ IsInjective(ToAdd(x, f))
           /\ ToSet(ToAdd(x, f)) = {n \in Names : f[n] # Off /\ OldSlots(x, n) = {}}
           /\ \A k \in DOMAIN ToAdd(x, f) : /\ f[ToAdd(x, f)[k]] # Off
                                            /\ OldSlots(x, ToAdd(x, f)[k]) = {}
<1> DEFINE G == {n \in Names : OldSlots(x, n) # {}}
           s == ToAdd(x, f)
<1>1. s = Without(Enabled(f), G)
  BY DEF ToAdd
<1>2. \A n \in Names : n \in G <=> OldSlots(x, n) # {}
  OBVIOUS
<1> HIDE DEF G, s
<1>3. s \in Seq(Names) /\ IsInjective(s) /\ ToSet(s) = {n \in Names : f[n] # Off} \ G
  BY <1>1, EnabledSeq
<1>4. ToSet(s) = {n \in Names : f[n] # Off /\ OldSlots(x, n) = {}}
  BY <1>2, <1>3
<1>5. \A k \in DOMAIN s : s[k] \in ToSet(s)
  BY DEF ToSet
<1>6. QED
  BY <1>3, <1>4, <1>5 DEF s

(* Plugins are reloaded that have an instance with another setting.         *)
LEMMA ToReloadSeq ==
    ASSUME NEW x \in Manager, NEW f \in File
    PROVE  /\ ToReload(x, f) \in Seq(Names) /\ IsInjective(ToReload(x, f))
           /\ ToSet(ToReload(x, f)) = {n \in Names : /\ f[n] # Off /\ OldSlots(x, n) # {}
                                                    /\ x.slots[OldIdx(x, n)].set # f[n]}
           /\ \A k \in DOMAIN ToReload(x, f) : /\ f[ToReload(x, f)[k]] # Off
                                               /\ ToReload(x, f)[k] \in Names
                                               /\ OldSlots(x, ToReload(x, f)[k]) # {}
<1> DEFINE G == {n \in Names : OldSlots(x, n) = {} \/ x.slots[OldIdx(x, n)].set = f[n]}
           s == ToReload(x, f)
<1>1. s = Without(Enabled(f), G)
  BY DEF ToReload
<1>2. \A n \in Names : n \in G <=> OldSlots(x, n) = {} \/ x.slots[OldIdx(x, n)].set = f[n]
  OBVIOUS
<1> HIDE DEF G, s
<1>3. s \in Seq(Names) /\ IsInjective(s) /\ ToSet(s) = {n \in Names : f[n] # Off} \ G
  BY <1>1, EnabledSeq
<1>4. ToSet(s) = {n \in Names : /\ f[n] # Off /\ OldSlots(x, n) # {}
                                /\ x.slots[OldIdx(x, n)].set # f[n]}
  BY <1>2, <1>3
<1>5. \A k \in DOMAIN s : s[k] \in ToSet(s)
  BY DEF ToSet
<1>6. QED
  BY <1>3, <1>4, <1>5 DEF s

(* The manager after the additions.                                         *)
LEMMA GrownManager ==
    ASSUME NEW x \in Manager, Whole(x), NEW f \in File, NEW how \in Hows
    PROVE  /\ Grown(x, f, how) \in Manager /\ Sound(Grown(x, f, how))
           /\ GrownSlots(Shrunk(x, f), Grown(x, f, how), ToAdd(x, f), f, how, Len(ToAdd(x, f)))
           /\ GrownTicks(Shrunk(x, f), Grown(x, f, how))
<1> DEFINE r == Shrunk(x, f)
           list == ToAdd(x, f)
<1>1. r \in Manager /\ Sound(r)
  BY ShrunkManager
<1>2. list \in Seq(Names) /\ IsInjective(list) /\ \A k \in DOMAIN list : f[list[k]] # Off
  BY ToAddSeq
<1> HIDE DEF r, list
<1>3. /\ AddedAll(r, list, f, how) \in Manager /\ Sound(AddedAll(r, list, f, how))
      /\ GrownSlots(r, AddedAll(r, list, f, how), list, f, how, Len(list))
      /\ GrownTicks(r, AddedAll(r, list, f, how))
  BY <1>1, <1>2, AddedAllManager
<1>4. QED
  BY <1>3 DEF Grown, r, list

(* The numbers in the diff still name the same plugins when reloads use     *)
(* them.                                                                    *)
LEMMA ReloadsAreAddressed ==
    ASSUME NEW x \in Manager, Whole(x), NEW f \in File, NEW how \in Hows
    PROVE  Addressed(Grown(x, f, how), ToReload(x, f), AtOf(x))
<1> DEFINE list == ToReload(x, f)
           y == Grown(x, f, how)
           r == Shrunk(x, f)
<1>1. SUFFICES ASSUME NEW k \in DOMAIN list
               PROVE  AtOf(x)[list[k]] \in Filled(y) /\ y.slots[AtOf(x)[list[k]]].name = list[k]
  BY DEF Addressed
<1> DEFINE n == list[k]
           i == OldIdx(x, n)
<1>2. n \in Names /\ f[n] # Off /\ OldSlots(x, n) # {}
  BY ToReloadSeq
<1>3. AtOf(x)[n] = i
  BY <1>2 DEF AtOf
<1> HIDE DEF n
<1>4. i \in Filled(x) /\ x.slots[i].name = n
  BY <1>2, OldIdxIsOld
<1>5. i \notin ToRemove(x, f)
  BY <1>2, <1>4, ToRemoveIsOff
<1> HIDE DEF i
<1>6. i \in Filled(r) /\ r.slots[i] = x.slots[i]
  BY <1>4, <1>5, ShrunkManager DEF Filled
<1>7. i \in DOMAIN y.slots /\ y.slots[i] = r.slots[i]
  BY <1>6, GrownManager DEF GrownSlots, Filled
<1>8. QED
  BY <1>3, <1>4, <1>6, <1>7 DEF Filled, n

(* The manager after the reloads.                                           *)
LEMMA ChangedManager ==
    ASSUME NEW x \in Manager, Whole(x), NEW f \in File, NEW how \in Hows
    PROVE  /\ Changed(x, f, how) \in Manager /\ Sound(Changed(x, f, how))
           /\ ReloadedSlots(Grown(x, f, how), Changed(x, f, how), ToReload(x, f), AtOf(x), f, how,
                            Len(ToReload(x, f)))
           /\ ReloadedTicks(Grown(x, f, how), Changed(x, f, how))
           /\ Renewed(x, Changed(x, f, how))
<1> DEFINE y == Grown(x, f, how)
           list == ToReload(x, f)
           at == AtOf(x)
           z == ReloadedInTurn(y, list, at, f, how)
<1>1. y \in Manager /\ Sound(y) /\ Renewed(Shrunk(x, f), y)
  BY GrownManager DEF GrownTicks
<1>2. list \in Seq(Names) /\ IsInjective(list) /\ \A k \in DOMAIN list : f[list[k]] # Off
  BY ToReloadSeq
<1>3. Addressed(y, list, at)
  BY ReloadsAreAddressed
<1>4. Changed(x, f, how) = z
  BY DEF Changed, Grown, Shrunk, AtOf
<1> HIDE DEF y, list, at
<1>5. /\ z \in Manager /\ Sound(z)
      /\ ReloadedSlots(y, z, list, at, f, how, Len(list)) /\ ReloadedTicks(y, z)
  BY <1>1, <1>2, <1>3, ReloadedManager
<1> HIDE DEF z
<1>6. Renewed(x, z)
  <2>1. Shrunk(x, f) \in Manager /\ Renewed(x, Shrunk(x, f))
    BY ShrunkManager
  <2>2. Renewed(x, y)
    BY <1>1, <2>1, RenewedIsTransitive
  <2>3. QED
    BY <1>1, <1>5, <2>2, RenewedIsTransitive DEF ReloadedTicks
<1>7. QED
  BY <1>4, <1>5, <1>6 DEF y, list, at

------------------------------------------------------------------------------
(* In order: each plugin has one instance, which knows its slot, and each   *)
(* tick, except those numbered in O, has the slot of its owner.             *)
Clean(x, O) ==
    /\ \A i, j \in Filled(x) : x.slots[i].name = x.slots[j].name => i = j
    /\ \A i \in Filled(x) : x.slots[i].inst = [name |-> x.slots[i].name, at |-> i]
    /\ \A t \in x.ticks : \/ t.id \in O
                          \/ t.idx \in Filled(x) /\ x.slots[t.idx].name = t.owner

(* Removals leave no tick behind that names a slot of another.              *)
LEMMA ShrunkClean ==
    ASSUME NEW x \in Manager, Whole(x), NEW O, Clean(x, O), NEW f \in File
    PROVE  Clean(Shrunk(x, f), O)
<1> DEFINE r == Shrunk(x, f)
           G == ToRemove(x, f)
<1>1. /\ Filled(r) = Filled(x) \ G
      /\ \A i \in DOMAIN x.slots : i \notin G => r.slots[i] = x.slots[i]
      /\ r.ticks = {t \in x.ticks : t.idx \notin G}
  BY ShrunkManager
<1> HIDE DEF r, G
<1>2. \A i \in Filled(r) : i \in Filled(x) /\ r.slots[i] = x.slots[i]
  BY <1>1 DEF Filled
<1>3. \A t \in r.ticks : t \in x.ticks /\ t.idx \notin G
  BY <1>1
<1>4. ASSUME NEW t \in r.ticks, t.id \notin O
      PROVE  t.idx \in Filled(r) /\ r.slots[t.idx].name = t.owner
  <2>1. t.idx \in Filled(x) /\ x.slots[t.idx].name = t.owner
    BY <1>3, <1>4 DEF Clean
  <2>2. QED
    BY <1>1, <1>2, <1>3, <2>1
<1>5. Clean(r, O)
  BY <1>2, <1>4 DEF Clean
<1>6. QED
  BY <1>5 DEF r

(* The new slots of a reload.                                               *)
LEMMA FreshSlots ==
    ASSUME NEW x \in Manager, Whole(x), NEW f \in File, NEW how \in Hows
    PROVE  /\ \A i \in Fresh(Shrunk(x, f), Grown(x, f, how)) :
                /\ Grown(x, f, how).slots[i].name \in Names
                /\ f[Grown(x, f, how).slots[i].name] # Off
                /\ OldSlots(x, Grown(x, f, how).slots[i].name) = {}
                /\ Grown(x, f, how).slots[i].set = f[Grown(x, f, how).slots[i].name]
                /\ Grown(x, f, how).slots[i].inst = [name |-> Grown(x, f, how).slots[i].name, at |-> i]
           /\ Filled(Grown(x, f, how)) =
                Filled(Shrunk(x, f)) \union Fresh(Shrunk(x, f), Grown(x, f, how))
<1> DEFINE r == Shrunk(x, f)
           y == Grown(x, f, how)
           list == ToAdd(x, f)
<1>1. /\ r \in Manager /\ y \in Manager /\ GrownSlots(r, y, list, f, how, Len(list))
      /\ list \in Seq(Names)
      /\ \A k \in DOMAIN list : f[list[k]] # Off /\ OldSlots(x, list[k]) = {}
  BY ShrunkManager, GrownManager, ToAddSeq
<1> HIDE DEF r, y, list
<1>2. ASSUME NEW i \in Fresh(r, y)
      PROVE  /\ y.slots[i].name \in Names /\ f[y.slots[i].name] # Off
             /\ OldSlots(x, y.slots[i].name) = {} /\ y.slots[i].set = f[y.slots[i].name]
             /\ y.slots[i].inst = [name |-> y.slots[i].name, at |-> i]
             /\ y.slots[i].inst # NoInstance
  <2>1. PICK j \in 1..Len(list) : y.slots[i] = NewSlot(list[j], i, f[list[j]])
    BY <1>1 DEF GrownSlots
  <2>2. j \in DOMAIN list /\ list[j] \in Names
    BY <1>1
  <2>3. f[list[j]] # Off /\ OldSlots(x, list[j]) = {}
    BY <1>1, <2>2
  <2>4. /\ y.slots[i].name = list[j] /\ y.slots[i].set = f[list[j]]
        /\ y.slots[i].inst = [name |-> list[j], at |-> i]
    BY <2>1 DEF NewSlot
  <2>5. i \in DOMAIN y.slots
    BY DEF Fresh
  <2>6. i \in Position
    BY <1>1, <2>5, SlotFields
  <2>7. f[list[j]] \in Settings
    BY <2>2, <2>3 DEF File
  <2>8. NewSlot(list[j], i, f[list[j]]).inst # NoInstance
    BY <2>2, <2>6, <2>7, NewSlotIsSlot
  <2>9. QED
    BY <2>1, <2>2, <2>3, <2>4, <2>8
<1>3. Filled(y) = Filled(r) \union Fresh(r, y)
  <2>1. \A i \in DOMAIN r.slots : i \in DOMAIN y.slots /\ y.slots[i] = r.slots[i]
    BY <1>1 DEF GrownSlots
  <2>2. \A i \in Fresh(r, y) : y.slots[i].inst # NoInstance
    BY <1>2
  <2>3. QED
    BY <2>1, <2>2 DEF Filled, Fresh
<1>4. QED
  BY <1>2, <1>3 DEF r, y

(* Plugins that are added had no instance, so each has one.                 *)
LEMMA GrownClean ==
    ASSUME NEW x \in Manager, Whole(x), NEW O, Clean(x, O), NEW f \in File, NEW how \in Hows
    PROVE  Clean(Grown(x, f, how), O)
<1> DEFINE r == Shrunk(x, f)
           y == Grown(x, f, how)
<1>1. Clean(r, O)
  BY ShrunkClean
<1>2. /\ \A i \in DOMAIN r.slots : y.slots[i] = r.slots[i]
      /\ \A i, j \in Fresh(r, y) : y.slots[i].name = y.slots[j].name => i = j
      /\ GrownTicks(r, y)
  BY GrownManager DEF GrownSlots
<1>3. /\ \A i \in Fresh(r, y) : /\ OldSlots(x, y.slots[i].name) = {}
                                /\ y.slots[i].inst = [name |-> y.slots[i].name, at |-> i]
      /\ Filled(y) = Filled(r) \union Fresh(r, y)
  BY FreshSlots
<1>4. \A i \in Filled(r) : OldSlots(x, r.slots[i].name) # {}
  <2>1. TAKE i \in Filled(r)
  <2>2. i \in Filled(x) /\ r.slots[i] = x.slots[i]
    BY ShrunkManager DEF Filled
  <2>3. QED
    BY <2>2 DEF OldSlots
<1> HIDE DEF r, y
<1>5. \A i \in Filled(r) : i \in DOMAIN r.slots /\ y.slots[i] = r.slots[i]
  BY <1>2 DEF Filled
<1>6. \A i, j \in Filled(y) : y.slots[i].name = y.slots[j].name => i = j
  <2>1. ASSUME NEW i \in Filled(r), NEW j \in Fresh(r, y) PROVE y.slots[i].name # y.slots[j].name
    <3>1. OldSlots(x, y.slots[j].name) = {}
      BY <1>3
    <3>2. OldSlots(x, y.slots[i].name) # {}
      <4>1. y.slots[i] = r.slots[i]
        BY <1>5
      <4>2. OldSlots(x, r.slots[i].name) # {}
        BY <1>4
      <4>3. QED
        BY <4>1, <4>2
    <3>3. QED
      BY <3>1, <3>2
  <2>2. \A i, j \in Filled(r) : y.slots[i].name = y.slots[j].name => i = j
    BY <1>1, <1>5 DEF Clean
  <2>3. QED
    BY <1>2, <1>3, <2>1, <2>2
<1>7. \A i \in Filled(y) : y.slots[i].inst = [name |-> y.slots[i].name, at |-> i]
  BY <1>1, <1>3, <1>5 DEF Clean
<1>8. \A t \in y.ticks : t.id \in O \/ (t.idx \in Filled(y) /\ y.slots[t.idx].name = t.owner)
  <2>1. TAKE t \in y.ticks
  <2>2. CASE t \in r.ticks
    <3>1. t.id \in O \/ (t.idx \in Filled(r) /\ r.slots[t.idx].name = t.owner)
      BY <1>1, <2>2 DEF Clean
    <3>2. t.idx \in Filled(r) => t.idx \in Filled(y) /\ y.slots[t.idx] = r.slots[t.idx]
      BY <1>3, <1>5
    <3>3. QED
      BY <3>1, <3>2
  <2>3. CASE t.idx \in Fresh(r, y) /\ y.slots[t.idx].name = t.owner
    BY <1>3, <2>3
  <2>4. QED
    BY <1>2, <2>2, <2>3 DEF GrownTicks
<1>9. Clean(y, O)
  BY <1>6, <1>7, <1>8 DEF Clean
<1>10. QED
  BY <1>9 DEF y

(* Reloads keep instances and ticks in their slots.                         *)
LEMMA ChangedClean ==
    ASSUME NEW x \in Manager, Whole(x), NEW O, Clean(x, O), NEW f \in File, NEW how \in Hows
    PROVE  Clean(Changed(x, f, how), O)
<1> DEFINE y == Grown(x, f, how)
           z == Changed(x, f, how)
<1>1. Clean(y, O)
  BY GrownClean
<1>2. ReloadedSlots(y, z, ToReload(x, f), AtOf(x), f, how, Len(ToReload(x, f))) /\ ReloadedTicks(y, z)
  BY ChangedManager
<1> HIDE DEF y, z
<1>3. /\ Filled(z) = Filled(y)
      /\ \A i \in Filled(y) : /\ z.slots[i].name = y.slots[i].name
                              /\ \/ z.slots[i].inst = y.slots[i].inst
                                 \/ z.slots[i].inst = [name |-> y.slots[i].name, at |-> i]
  BY <1>2 DEF ReloadedSlots, Filled
<1>4. \A i \in Filled(z) : z.slots[i].inst = [name |-> z.slots[i].name, at |-> i]
  BY <1>1, <1>3 DEF Clean
<1>5. \A t \in z.ticks : t.id \in O \/ (t.idx \in Filled(z) /\ z.slots[t.idx].name = t.owner)
  <2>1. TAKE t \in z.ticks
  <2>2. t \in y.ticks \/ (t.idx \in Filled(y) /\ y.slots[t.idx].name = t.owner)
    BY <1>2 DEF ReloadedTicks
  <2>3. t \in y.ticks => t.id \in O \/ (t.idx \in Filled(y) /\ y.slots[t.idx].name = t.owner)
    BY <1>1 DEF Clean
  <2>4. t.idx \in Filled(y) => t.idx \in Filled(z) /\ z.slots[t.idx].name = y.slots[t.idx].name
    BY <1>3
  <2>5. QED
    BY <2>2, <2>3, <2>4
<1>6. \A i, j \in Filled(z) : z.slots[i].name = z.slots[j].name => i = j
  BY <1>1, <1>3 DEF Clean
<1>7. Clean(z, O)
  BY <1>4, <1>5, <1>6 DEF Clean
<1>8. QED
  BY <1>7 DEF z

(* Compaction tells instances and ticks their new numbers.                  *)
LEMMA SqueezedClean ==
    ASSUME NEW x \in Manager, NEW O, Clean(x, O), NEW y \in Manager, NEW p, Squeezed(x, y, p),
           Filled(y) = DOMAIN y.slots
    PROVE  Clean(y, O)
<1>1. \A k \in DOMAIN y.slots :
        /\ p[k] \in Filled(x) /\ y.slots[k].name = x.slots[p[k]].name
        /\ y.slots[k].inst = [name |-> y.slots[k].name, at |-> k]
  <2>1. TAKE k \in DOMAIN y.slots
  <2>2. p[k] \in Filled(x) /\ y.slots[k].name = x.slots[p[k]].name
    BY DEF Squeezed
  <2>3. x.slots[p[k]].inst = [name |-> x.slots[p[k]].name, at |-> p[k]]
    BY <2>2 DEF Clean
  <2>4. x.slots[p[k]].inst.at = p[k] =>
          y.slots[k].inst = [name |-> x.slots[p[k]].inst.name, at |-> k]
    BY DEF Squeezed
  <2>5. QED
    BY <2>2, <2>3, <2>4
<1>2. \A k, l \in DOMAIN y.slots : y.slots[k].name = y.slots[l].name => k = l
  <2>1. \A i, j \in Filled(x) : x.slots[i].name = x.slots[j].name => i = j
    BY DEF Clean
  <2>2. \A k, l \in DOMAIN y.slots : p[k] = p[l] => k = l
    BY DEF Squeezed
  <2>3. QED
    <3>1. TAKE k, l \in DOMAIN y.slots
    <3>2. /\ p[k] \in Filled(x) /\ y.slots[k].name = x.slots[p[k]].name
          /\ p[l] \in Filled(x) /\ y.slots[l].name = x.slots[p[l]].name
      BY <1>1
    <3>3. x.slots[p[k]].name = x.slots[p[l]].name => p[k] = p[l]
      BY <2>1, <3>2
    <3>4. QED
      BY <2>2, <3>2, <3>3
<1>3. ASSUME NEW t \in y.ticks, t.id \notin O
      PROVE  t.idx \in DOMAIN y.slots /\ y.slots[t.idx].name = t.owner
  <2>1. PICK u \in x.ticks : /\ u.id = t.id /\ u.owner = t.owner
                             /\ u.idx \in Filled(x) => t.idx \in DOMAIN y.slots /\ p[t.idx] = u.idx
    BY DEF Squeezed
  <2>2. u.idx \in Filled(x) /\ x.slots[u.idx].name = u.owner
    BY <1>3, <2>1 DEF Clean
  <2>3. QED
    BY <1>1, <2>1, <2>2
<1>4. QED
  BY <1>1, <1>2, <1>3 DEF Clean

(* The manager after a reload: complete lists, no empty slot.               *)
LEMMA ReloadedAllManager ==
    ASSUME NEW x \in Manager, Whole(x), NEW f \in File, NEW how \in Hows
    PROVE  /\ ReloadedAll(x, f, how) \in Manager /\ Whole(ReloadedAll(x, f, how))
           /\ Renewed(x, ReloadedAll(x, f, how))
           /\ Filled(ReloadedAll(x, f, how)) = DOMAIN ReloadedAll(x, f, how).slots
           /\ \E p : Squeezed(Changed(x, f, how), ReloadedAll(x, f, how), p)
<1> DEFINE z == Changed(x, f, how)
           s == Sorted(z)
           y == ReloadedAll(x, f, how)
<1>1. z \in Manager /\ Sound(z) /\ Renewed(x, z)
  BY ChangedManager
<1>2. y = Compacted(s)
  BY DEF ReloadedAll
<1> HIDE DEF z, y
<1>3. PICK S \in SUBSET DOMAIN z.slots : Filled(z) \subseteq S /\ Lists(z, S)
  BY <1>1 DEF Sound
<1>4. /\ s \in Manager /\ s.slots = z.slots /\ s.msgs = z.msgs
      /\ s.ticks = z.ticks /\ s.next = z.next /\ Lists(s, S) /\ Ordered(s)
  BY <1>1, <1>3, SortedManager
<1> HIDE DEF s
<1>5. Filled(s) = Filled(z)
  BY <1>4 DEF Filled
<1>6. Sound(s)
  <2>1. Numbered(s)
    BY <1>1, <1>4 DEF Sound, Numbered
  <2>2. QED
    BY <1>3, <1>4, <1>5, <2>1 DEF Sound
<1>7. /\ y \in Manager /\ Whole(y) /\ Renewed(s, y) /\ Filled(y) = DOMAIN y.slots
      /\ \E p : Squeezed(s, y, p)
  BY <1>2, <1>4, <1>6, CompactedManager
<1>8. Renewed(x, y)
  <2>1. Renewed(x, s)
    BY <1>1, <1>4 DEF Renewed
  <2>2. QED
    BY <1>4, <1>7, <2>1, RenewedIsTransitive
<1>9. \E p : Squeezed(z, y, p)
  BY <1>4, <1>5, <1>7 DEF Squeezed
<1>10. QED
  BY <1>7, <1>8, <1>9 DEF y, z

(* A reload keeps instances and ticks in their slots, with every mix of     *)
(* failures.                                                                *)
LEMMA ReloadedAllClean ==
    ASSUME NEW x \in Manager, Whole(x), NEW O, Clean(x, O), NEW f \in File, NEW how \in Hows
    PROVE  Clean(ReloadedAll(x, f, how), O)
<1>1. Changed(x, f, how) \in Manager /\ Clean(Changed(x, f, how), O)
  BY ChangedManager, ChangedClean
<1>2. /\ ReloadedAll(x, f, how) \in Manager
      /\ Filled(ReloadedAll(x, f, how)) = DOMAIN ReloadedAll(x, f, how).slots
      /\ \E p : Squeezed(Changed(x, f, how), ReloadedAll(x, f, how), p)
  BY ReloadedAllManager
<1>3. QED
  BY <1>1, <1>2, SqueezedClean

(* What the slots with an instance run after a reload in which every plugin *)
(* loads.                                                                   *)
LEMMA ChangedRuns ==
    ASSUME NEW x \in Manager, Whole(x), NEW O, Clean(x, O), NEW f \in File, NEW how \in Hows,
           NEW n \in Names, how[n] = "ok",
           \A i \in Filled(x) : x.slots[i].name = n => ~(x.slots[i].fails >= ReloadThreshold)
    PROVE  LET z == Changed(x, f, how)
           IN  /\ \A i \in Filled(z) : z.slots[i].name = n => f[n] # Off /\ z.slots[i].set = f[n]
               /\ f[n] # Off => \E i \in Filled(z) : z.slots[i].name = n
<1> DEFINE r == Shrunk(x, f)
           y == Grown(x, f, how)
           z == Changed(x, f, how)
           G == ToRemove(x, f)
           list == ToReload(x, f)
           i0 == OldIdx(x, n)
<1>1. ASSUME NEW i \in Filled(x), x.slots[i].name = n
      PROVE  OldSlots(x, n) # {} /\ i = i0
  <2>1. OldSlots(x, n) # {}
    BY <1>1 DEF OldSlots
  <2>2. i0 \in Filled(x) /\ x.slots[i0].name = n
    BY <2>1, OldIdxIsOld
  <2>3. QED
    BY <1>1, <2>1, <2>2 DEF Clean
<1>2. /\ Filled(r) = Filled(x) \ G /\ \A i \in DOMAIN x.slots : i \notin G => r.slots[i] = x.slots[i]
      /\ DOMAIN r.slots = DOMAIN x.slots
  BY ShrunkManager
<1>3. /\ \A i \in Fresh(r, y) :
           /\ y.slots[i].name \in Names /\ f[y.slots[i].name] # Off
           /\ OldSlots(x, y.slots[i].name) = {} /\ y.slots[i].set = f[y.slots[i].name]
           /\ y.slots[i].inst = [name |-> y.slots[i].name, at |-> i]
      /\ Filled(y) = Filled(r) \union Fresh(r, y)
  BY FreshSlots
<1>4. \A i \in DOMAIN r.slots : y.slots[i] = r.slots[i]
  BY GrownManager DEF GrownSlots
<1>5. ReloadedSlots(y, z, list, AtOf(x), f, how, Len(list))
  BY ChangedManager
<1>6. \A i \in Filled(r) : i \in Filled(x) /\ i \notin G /\ y.slots[i] = x.slots[i]
  BY <1>2, <1>4 DEF Filled
<1>7. \A j \in 1..Len(list) : /\ AtOf(x)[list[j]] \in Filled(x)
                              /\ x.slots[AtOf(x)[list[j]]].name = list[j]
                              /\ list[j] \in ToSet(list)
  <2>1. TAKE j \in 1..Len(list)
  <2>2. list \in Seq(Names) /\ \A k \in DOMAIN list : list[k] \in Names /\ OldSlots(x, list[k]) # {}
    BY ToReloadSeq
  <2>3. j \in DOMAIN list
    BY <2>2
  <2>4. OldSlots(x, list[j]) # {} /\ list[j] \in Names
    BY <2>2, <2>3
  <2>5. AtOf(x)[list[j]] = OldIdx(x, list[j])
    BY <2>4 DEF AtOf
  <2>6. QED
    BY <2>3, <2>4, <2>5, OldIdxIsOld DEF ToSet
<1>8. i0 \in G \/ f[n] # Off \/ OldSlots(x, n) = {}
  BY ToRemoveIsOff
<1>9. list \in Seq(Names) /\ ToSet(list) = {k \in Names : /\ f[k] # Off /\ OldSlots(x, k) # {}
                                   /\ x.slots[OldIdx(x, k)].set # f[k]}
  BY ToReloadSeq
<1> HIDE DEF r, y, z, G, list
<1>10. ASSUME NEW i \in Filled(z), z.slots[i].name = n
       PROVE  f[n] # Off /\ z.slots[i].set = f[n]
  <2>1. i \in Filled(y) /\ y.slots[i].name = n
    BY <1>5, <1>10 DEF ReloadedSlots, Filled
  <2>2. (\A j \in 1..Len(list) : AtOf(x)[list[j]] # i) => z.slots[i] = y.slots[i]
    BY <1>5, <2>1 DEF ReloadedSlots, Filled
  <2>3. CASE i \in Fresh(r, y)
    <3>1. \A j \in 1..Len(list) : AtOf(x)[list[j]] # i
      <4>1. i \notin DOMAIN x.slots
        BY <1>2, <2>3 DEF Fresh
      <4>2. QED
        BY <1>7, <4>1 DEF Filled
    <3>2. QED
      BY <1>3, <2>1, <2>2, <2>3, <3>1
  <2>4. CASE i \in Filled(r)
    <3>1. i \in Filled(x) /\ i \notin G /\ y.slots[i] = x.slots[i]
      BY <1>6, <2>4
    <3>2. OldSlots(x, n) # {} /\ i = i0
      BY <1>1, <2>1, <3>1
    <3>3. f[n] # Off
      BY <1>8, <3>1, <3>2
    <3>4. CASE x.slots[i].set = f[n]
      <4>1. n \notin ToSet(list)
        BY <1>9, <3>2, <3>4
      <4>2. \A j \in 1..Len(list) : AtOf(x)[list[j]] # i
        BY <1>7, <2>1, <3>1, <4>1
      <4>3. QED
        BY <2>2, <3>1, <3>3, <3>4, <4>2
    <3>5. CASE x.slots[i].set # f[n]
      <4>1. n \in ToSet(list)
        BY <1>9, <3>2, <3>3, <3>5
      <4>2. PICK j \in 1..Len(list) : list[j] = n
        BY <1>9, <4>1 DEF ToSet
      <4>3. AtOf(x)[n] = i
        BY <3>2 DEF AtOf
      <4>4. z.slots[i].set = f[n] \/ y.slots[i].fails >= ReloadThreshold
        BY <1>5, <4>2, <4>3 DEF ReloadedSlots
      <4>5. ~(x.slots[i].fails >= ReloadThreshold)
        BY <2>1, <3>1
      <4>6. QED
        BY <3>1, <3>3, <4>4, <4>5
    <3>6. QED
      BY <3>4, <3>5
  <2>5. QED
    BY <1>3, <2>1, <2>3, <2>4
<1>11. ASSUME f[n] # Off PROVE \E i \in Filled(z) : z.slots[i].name = n
  <2>1. \E i \in Filled(y) : y.slots[i].name = n
    <3>1. CASE OldSlots(x, n) = {}
      <4>1. /\ ToAdd(x, f) \in Seq(Names)
            /\ ToSet(ToAdd(x, f)) = {k \in Names : f[k] # Off /\ OldSlots(x, k) = {}}
        BY ToAddSeq
      <4>2. n \in ToSet(ToAdd(x, f))
        BY <1>11, <3>1, <4>1
      <4>3. PICK j \in 1..Len(ToAdd(x, f)) : ToAdd(x, f)[j] = n
        BY <4>1, <4>2 DEF ToSet
      <4>4. \E i \in Fresh(r, y) : y.slots[i].name = ToAdd(x, f)[j]
        BY <4>3, GrownManager DEF GrownSlots, r, y
      <4>5. QED
        BY <1>3, <4>3, <4>4
    <3>2. CASE OldSlots(x, n) # {}
      <4>1. i0 \in Filled(x) /\ x.slots[i0].name = n
        BY <3>2, OldIdxIsOld
      <4>2. i0 \notin G
        BY <1>11, <4>1, ToRemoveIsOff DEF G
      <4>3. i0 \in Filled(r)
        BY <1>2, <4>1, <4>2
      <4>4. QED
        BY <1>3, <1>6, <4>1, <4>3
    <3>3. QED
      BY <3>1, <3>2
  <2>2. \A i \in Filled(y) : i \in Filled(z) /\ z.slots[i].name = y.slots[i].name
    BY <1>5 DEF ReloadedSlots, Filled
  <2>3. QED
    BY <2>1, <2>2
<1>12. QED
  BY <1>10, <1>11 DEF z

(* Compaction does not change what is run.                                  *)
LEMMA ReloadedAllRuns ==
    ASSUME NEW x \in Manager, Whole(x), NEW O, Clean(x, O), NEW f \in File, NEW how \in Hows,
           NEW n \in Names, how[n] = "ok",
           \A i \in Filled(x) : x.slots[i].name = n => ~(x.slots[i].fails >= ReloadThreshold)
    PROVE  Runs(ReloadedAll(x, f, how), n) = {f[n]} \ {Off}
<1> DEFINE z == Changed(x, f, how)
           y == ReloadedAll(x, f, how)
<1>1. /\ \A i \in Filled(z) : z.slots[i].name = n => f[n] # Off /\ z.slots[i].set = f[n]
      /\ f[n] # Off => \E i \in Filled(z) : z.slots[i].name = n
  BY ChangedRuns
<1>2. PICK p : Squeezed(z, y, p)
  BY ReloadedAllManager
<1> HIDE DEF z, y
<1>3. \A k \in DOMAIN y.slots : /\ p[k] \in Filled(z) /\ y.slots[k].name = z.slots[p[k]].name
                                /\ y.slots[k].set = z.slots[p[k]].set
  BY <1>2 DEF Squeezed
<1>4. \A i \in Filled(z) : \E k \in DOMAIN y.slots : p[k] = i
  BY <1>2 DEF Squeezed
<1>5. \A k \in DOMAIN y.slots : y.slots[k].name = n => f[n] # Off /\ y.slots[k].set = f[n]
  BY <1>1, <1>3
<1>6. f[n] # Off => \E k \in DOMAIN y.slots : y.slots[k].name = n
  BY <1>1, <1>3, <1>4
<1>7. Runs(y, n) = {f[n]} \ {Off}
  BY <1>5, <1>6 DEF Runs
<1>8. QED
  BY <1>7 DEF y

------------------------------------------------------------------------------
(* A new manager.                                                           *)
LEMMA EmptyManager ==
    /\ Empty \in Manager /\ Whole(Empty) /\ Sound(Empty)
    /\ DOMAIN Empty.slots = {} /\ Filled(Empty) = {} /\ Empty.ticks = {} /\ Empty.next = 0
<1>1. /\ Empty.slots = <<>> /\ Empty.cmds = [c \in CmdNames |-> <<>>] /\ Empty.msgs = {}
      /\ Empty.ticks = {} /\ Empty.next = 0
  BY DEF Empty
<1>2. Empty \in Manager
  <2>1. <<>> \in Seq(Slot) /\ <<>> \in Seq(Position)
    OBVIOUS
  <2>2. QED
    BY <2>1 DEF Empty, Manager
<1>3. DOMAIN Empty.slots = {} /\ Filled(Empty) = {}
  BY <1>1 DEF Filled
<1>4. \A c \in CmdNames : ToSet(Empty.cmds[c]) = {} /\ IsInjective(Empty.cmds[c])
                          /\ DOMAIN Empty.cmds[c] = {}
  BY <1>1 DEF ToSet, IsInjective
<1>5. Lists(Empty, {})
  BY <1>1, <1>3, <1>4 DEF Lists
<1>6. Ordered(Empty) /\ Numbered(Empty)
  BY <1>1, <1>4, FS_EmptySet DEF Ordered, Numbered
<1>7. QED
  BY <1>1, <1>2, <1>3, <1>5, <1>6, WholeIsSound DEF Whole

FirstList(f) == StableDescending(Enabled(f), [i \in DOMAIN Enabled(f) |-> f[Enabled(f)[i]].prio])

(* The plugins a new manager loads, once each.                              *)
LEMMA FirstListSeq ==
    ASSUME NEW f \in File
    PROVE  /\ FirstList(f) \in Seq(Names) /\ IsInjective(FirstList(f))
           /\ \A k \in DOMAIN FirstList(f) : f[FirstList(f)[k]] # Off
<1> DEFINE e == Enabled(f)
           key == [i \in DOMAIN e |-> f[e[i]].prio]
<1>1. e \in Seq(Names) /\ IsInjective(e) /\ ToSet(e) = {n \in Names : f[n] # Off}
  BY EnabledSeq
<1> HIDE DEF e
<1>2. key \in [DOMAIN e -> Nat]
  <2>1. ASSUME NEW i \in DOMAIN e PROVE f[e[i]].prio \in Nat
    <3>1. e[i] \in Names /\ f[e[i]] # Off
      BY <1>1 DEF ToSet
    <3>2. f[e[i]] \in Settings
      BY <3>1 DEF File
    <3>3. QED
      BY <3>2, SetPriorities
  <2>2. QED
    BY <2>1
<1> HIDE DEF key
<1> DEFINE list == StableDescending(e, key)
<1>3. /\ list \in Seq(Names) /\ ToSet(list) = ToSet(e)
      /\ IsInjective(e) => IsInjective(list)
      /\ DOMAIN list = DOMAIN e
      /\ \A i, j \in DOMAIN e : i < j =>
          \E k, l \in DOMAIN e : list[i] = e[k] /\ list[j] = e[l] /\ key[k] >= key[l]
  BY <1>1, <1>2, DescendingSeq
<1> HIDE DEF list
<1>4. \A k \in DOMAIN list : list[k] \in ToSet(list)
  BY DEF ToSet
<1>5. FirstList(f) = list
  BY DEF FirstList, list, key, e
<1>6. QED
  BY <1>1, <1>3, <1>4, <1>5

(* A new manager: complete lists, no empty slot, everything in its place.   *)
LEMMA FirstManager ==
    ASSUME NEW f \in File
    PROVE  /\ NewManager(f) \in Manager /\ Whole(NewManager(f))
           /\ Filled(NewManager(f)) = DOMAIN NewManager(f).slots
           /\ Clean(NewManager(f), {})
<1> DEFINE list == FirstList(f)
           z == AddedAll(Empty, list, f, AllWell)
           y == Sorted(z)
<1>1. NewManager(f) = y
  BY DEF NewManager, FirstList
<1>2. /\ list \in Seq(Names) /\ IsInjective(list) /\ \A k \in DOMAIN list : f[list[k]] # Off
  BY FirstListSeq
<1>3. AllWell \in Hows
  BY DEF AllWell, Hows
<1> HIDE DEF list
<1>4. /\ z \in Manager /\ Sound(z) /\ GrownSlots(Empty, z, list, f, AllWell, Len(list))
      /\ GrownTicks(Empty, z)
  BY <1>2, <1>3, EmptyManager, AddedAllManager
<1> HIDE DEF z
<1>5. Fresh(Empty, z) = DOMAIN z.slots
  BY EmptyManager DEF Fresh
<1>6. ASSUME NEW i \in DOMAIN z.slots
      PROVE  /\ z.slots[i].inst = [name |-> z.slots[i].name, at |-> i]
             /\ z.slots[i].inst # NoInstance
  <2>1. PICK j \in 1..Len(list) : z.slots[i] = NewSlot(list[j], i, f[list[j]])
    BY <1>4, <1>5 DEF GrownSlots
  <2>2. j \in DOMAIN list /\ list[j] \in Names
    BY <1>2
  <2>3. f[list[j]] \in Settings
    BY <1>2, <2>2 DEF File
  <2>4. i \in Position
    BY <1>4, SlotFields
  <2>5. NewSlot(list[j], i, f[list[j]]).inst # NoInstance
    BY <2>2, <2>3, <2>4, NewSlotIsSlot
  <2>6. z.slots[i].name = list[j] /\ z.slots[i].inst = [name |-> list[j], at |-> i]
    BY <2>1 DEF NewSlot
  <2>7. QED
    BY <2>1, <2>5, <2>6
<1>7. Filled(z) = DOMAIN z.slots
  BY <1>6 DEF Filled
<1>8. Clean(z, {})
  <2>1. \A i, j \in DOMAIN z.slots : z.slots[i].name = z.slots[j].name => i = j
    BY <1>4, <1>5 DEF GrownSlots
  <2>2. \A t \in z.ticks : t.idx \in Filled(z) /\ z.slots[t.idx].name = t.owner
    <3>1. TAKE t \in z.ticks
    <3>2. t \in Empty.ticks \/ (t.idx \in Fresh(Empty, z) /\ z.slots[t.idx].name = t.owner)
      BY <1>4 DEF GrownTicks
    <3>3. QED
      BY <1>5, <1>7, <3>2, EmptyManager
  <2>3. QED
    BY <1>6, <1>7, <2>1, <2>2 DEF Clean
<1>9. PICK S \in SUBSET DOMAIN z.slots : Filled(z) \subseteq S /\ Lists(z, S)
  BY <1>4 DEF Sound
<1>10. S = DOMAIN z.slots
  BY <1>7, <1>9
<1>11. /\ y \in Manager /\ y.slots = z.slots /\ y.msgs = z.msgs
       /\ y.ticks = z.ticks /\ y.next = z.next /\ Lists(y, S) /\ Ordered(y)
  BY <1>4, <1>9, SortedManager
<1> HIDE DEF y
<1>12. Filled(y) = Filled(z)
  BY <1>11 DEF Filled
<1>13. Numbered(y)
  BY <1>4, <1>11 DEF Sound, Numbered
<1>14. Clean(y, {})
  BY <1>8, <1>11, <1>12 DEF Clean
<1>15. QED
  BY <1>1, <1>7, <1>10, <1>11, <1>12, <1>13, <1>14 DEF Whole

------------------------------------------------------------------------------
(* Steps that concern one slot: the other slots stay as they are, and new   *)
(* ticks are its own.                                                       *)
Touched(x, y, i) ==
    /\ DOMAIN y.slots = DOMAIN x.slots
    /\ \A j \in DOMAIN x.slots : y.slots[j].name = x.slots[j].name
    /\ \A j \in DOMAIN x.slots \ {i} : y.slots[j] = x.slots[j]
    /\ \A t \in y.ticks :
         t \in x.ticks \/ (i \in DOMAIN x.slots /\ t.idx = i /\ t.owner = x.slots[i].name)
    /\ Renewed(x, y)

(* Steps that concern one slot may be chained.                              *)
LEMMA TouchedIsTransitive ==
    ASSUME NEW x \in Manager, NEW y \in Manager, NEW z \in Manager, NEW i,
           Touched(x, y, i), Touched(y, z, i)
    PROVE  Touched(x, z, i)
<1>1. Renewed(x, z)
  BY RenewedIsTransitive DEF Touched
<1>2. DOMAIN y.slots = DOMAIN x.slots /\ DOMAIN z.slots = DOMAIN x.slots
  BY DEF Touched
<1>3. \A j \in DOMAIN x.slots : /\ y.slots[j].name = x.slots[j].name
                                /\ z.slots[j].name = x.slots[j].name
  BY <1>2 DEF Touched
<1>4. \A j \in DOMAIN x.slots \ {i} : z.slots[j] = x.slots[j]
  BY <1>2 DEF Touched
<1>5. ASSUME NEW t \in z.ticks
      PROVE  t \in x.ticks \/ (i \in DOMAIN x.slots /\ t.idx = i /\ t.owner = x.slots[i].name)
  <2>1. t \in y.ticks \/ (i \in DOMAIN y.slots /\ t.idx = i /\ t.owner = y.slots[i].name)
    BY DEF Touched
  <2>2. t \in y.ticks =>
          t \in x.ticks \/ (i \in DOMAIN x.slots /\ t.idx = i /\ t.owner = x.slots[i].name)
    BY DEF Touched
  <2>3. QED
    BY <1>2, <1>3, <2>1, <2>2
<1>6. QED
  BY <1>1, <1>2, <1>3, <1>4, <1>5 DEF Touched

(* A slot changes, but not its name and setting.                            *)
LEMMA SlotTouched ==
    ASSUME NEW x \in Manager, Whole(x), NEW i \in DOMAIN x.slots,
           NEW e \in Slot, e.set = x.slots[i].set, e.name = x.slots[i].name,
           NEW y, y = [x EXCEPT !.slots = [x.slots EXCEPT ![i] = e]]
    PROVE  /\ y \in Manager /\ Whole(y) /\ Touched(x, y, i) /\ y.slots[i] = e
           /\ y.ticks = x.ticks /\ y.next = x.next
<1>1. Lists(x, DOMAIN x.slots) /\ Ordered(x) /\ Numbered(x)
  BY DEF Whole
<1>2. /\ y \in Manager /\ DOMAIN y.slots = DOMAIN x.slots
      /\ \A j \in DOMAIN x.slots : y.slots[j] = IF j = i THEN e ELSE x.slots[j]
      /\ y.cmds = x.cmds /\ y.msgs = x.msgs /\ y.ticks = x.ticks /\ y.next = x.next
      /\ Lists(y, DOMAIN x.slots) /\ Renewed(x, y)
      /\ Numbered(x) => Numbered(y)
      /\ Ordered(x) => Ordered(y)
  BY <1>1, SlotChanged
<1>3. Touched(x, y, i)
  BY <1>2 DEF Touched
<1>4. QED
  BY <1>1, <1>2, <1>3 DEF Whole

(* An instance is put into its slot or taken out.                           *)
LEMMA PutBackManager ==
    ASSUME NEW x \in Manager, Whole(x), NEW i \in DOMAIN x.slots,
           NEW inst \in Instance \union {NoInstance}
    PROVE  /\ PutBack(x, i, inst) \in Manager /\ Whole(PutBack(x, i, inst))
           /\ Touched(x, PutBack(x, i, inst), i)
           /\ PutBack(x, i, inst).slots[i].inst = inst
           /\ PutBack(x, i, inst).slots[i].lost = x.slots[i].lost
           /\ PutBack(x, i, inst).ticks = x.ticks /\ PutBack(x, i, inst).next = x.next
<1> DEFINE s == x.slots[i]
           e == [s EXCEPT !.inst = inst]
           y == PutBack(x, i, inst)
<1>1. s \in Slot
  BY SlotFields
<1>2. s = x.slots[i]
  OBVIOUS
<1>3. y = [x EXCEPT !.slots = [x.slots EXCEPT ![i] = e]]
  BY DEF PutBack
<1> HIDE DEF s
<1>4. e \in Slot /\ e.set = s.set /\ e.name = s.name /\ e.inst = inst /\ e.lost = s.lost
  BY <1>1 DEF Slot
<1> HIDE DEF e, y
<1>5. /\ y \in Manager /\ Whole(y) /\ Touched(x, y, i) /\ y.slots[i] = e
      /\ y.ticks = x.ticks /\ y.next = x.next
  BY <1>2, <1>3, <1>4, SlotTouched
<1>6. QED
  BY <1>2, <1>4, <1>5 DEF y

(* A failed reload concerns one slot.                                       *)
LEMMA FailedTouched ==
    ASSUME NEW x \in Manager, Whole(x), NEW i \in DOMAIN x.slots
    PROVE  /\ Failed(x, i) \in Manager /\ Whole(Failed(x, i)) /\ Touched(x, Failed(x, i), i)
           /\ Failed(x, i).slots[i].inst = x.slots[i].inst
           /\ Failed(x, i).slots[i].lost = x.slots[i].lost
<1> DEFINE s == x.slots[i]
           e == [s EXCEPT !.fails = s.fails + 1]
           y == Failed(x, i)
<1>1. s \in Slot
  BY SlotFields
<1>2. s = x.slots[i]
  OBVIOUS
<1>3. y = [x EXCEPT !.slots = [x.slots EXCEPT ![i] = e]]
  BY DEF Failed
<1> HIDE DEF s
<1>4. e \in Slot /\ e.set = s.set /\ e.name = s.name /\ e.inst = s.inst /\ e.lost = s.lost
  BY <1>1 DEF Slot
<1> HIDE DEF e, y
<1>5. /\ y \in Manager /\ Whole(y) /\ Touched(x, y, i) /\ y.slots[i] = e
      /\ y.ticks = x.ticks /\ y.next = x.next
  BY <1>2, <1>3, <1>4, SlotTouched
<1>6. QED
  BY <1>2, <1>4, <1>5 DEF y

(* So does a new instance, with the lists sorted again.                     *)
LEMMA InstalledTouched ==
    ASSUME NEW x \in Manager, Whole(x), NEW i \in DOMAIN x.slots
    PROVE  LET y == Sorted(Installed(x, i, x.slots[i].set))
           IN  /\ y \in Manager /\ Whole(y) /\ Touched(x, y, i)
               /\ y.slots[i].inst = [name |-> x.slots[i].name, at |-> i]
<1> DEFINE set == x.slots[i].set
           z == Installed(x, i, set)
           y == Sorted(z)
           e == NewSlot(x.slots[i].name, i, set)
<1>1. set \in Settings /\ x.slots[i].name \in Names /\ i \in Position
  BY SlotFields
<1>2. Lists(x, DOMAIN x.slots) /\ Numbered(x) /\ x.slots \in Seq(Slot)
  BY DEF Whole, Manager
<1>3. e = NewSlot(x.slots[i].name, i, set)
  OBVIOUS
<1>4. e \in Slot /\ e.name = x.slots[i].name /\ e.inst = [name |-> x.slots[i].name, at |-> i]
  BY <1>1, NewSlotIsSlot DEF NewSlot
<1> HIDE DEF z, set, e
<1>5. /\ z \in Manager /\ z.slots = [x.slots EXCEPT ![i] = NewSlot(x.slots[i].name, i, set)]
      /\ Lists(z, DOMAIN x.slots \union {i}) /\ Numbered(z) /\ Renewed(x, z)
      /\ \A t \in z.ticks : \/ t \in x.ticks /\ t.idx # i
                            \/ t.idx = i /\ t.owner = x.slots[i].name
  <2> DEFINE S == DOMAIN x.slots
  <2>1. S = DOMAIN x.slots
    OBVIOUS
  <2> HIDE DEF S
  <2>2. Lists(x, S) /\ Numbered(x)
    BY <1>2, <2>1
  <2>3. /\ Installed(x, i, set) \in Manager
        /\ Installed(x, i, set).slots = [x.slots EXCEPT ![i] = NewSlot(x.slots[i].name, i, set)]
        /\ Lists(Installed(x, i, set), S \union {i})
        /\ Numbered(Installed(x, i, set)) /\ Renewed(x, Installed(x, i, set))
        /\ \A t \in Installed(x, i, set).ticks :
            \/ t \in x.ticks /\ t.idx # i
            \/ t.idx = i /\ t.owner = x.slots[i].name
    BY <1>1, <2>2, InstalledManager
  <2>4. QED
    BY <2>1, <2>3 DEF z
<1>6. /\ DOMAIN z.slots = DOMAIN x.slots /\ z.slots[i] = e
      /\ \A j \in DOMAIN x.slots \ {i} : z.slots[j] = x.slots[j]
  <2>1. z.slots = [x.slots EXCEPT ![i] = e]
    BY <1>3, <1>5
  <2>2. QED
    BY <1>2, <1>4, <2>1
<1>7. Lists(z, DOMAIN z.slots)
  <2>1. DOMAIN x.slots \union {i} = DOMAIN x.slots
    OBVIOUS
  <2>2. QED
    BY <1>5, <1>6, <2>1
<1>8. /\ y \in Manager /\ y.slots = z.slots /\ y.msgs = z.msgs
      /\ y.ticks = z.ticks /\ y.next = z.next
      /\ Lists(y, DOMAIN z.slots) /\ Ordered(y)
  BY <1>5, <1>7, SortedManager
<1> HIDE DEF y
<1>9. Whole(y)
  BY <1>5, <1>8 DEF Whole, Numbered
<1>10. Touched(x, y, i)
  <2>1. Renewed(x, y)
    BY <1>5, <1>8 DEF Renewed
  <2>2. \A j \in DOMAIN x.slots : y.slots[j].name = x.slots[j].name
    BY <1>4, <1>6, <1>8
  <2>3. QED
    BY <1>5, <1>6, <1>8, <2>1, <2>2 DEF Touched
<1>11. QED
  BY <1>4, <1>6, <1>8, <1>9, <1>10 DEF y, z, set

(* reload_instance: a new instance in its slot, or none.                    *)
LEMMA InstanceReloadedManager ==
    ASSUME NEW x \in Manager, Whole(x), NEW i \in DOMAIN x.slots, NEW o \in Outcome
    PROVE  /\ InstanceReloaded(x, i, o) \in Manager /\ Whole(InstanceReloaded(x, i, o))
           /\ Touched(x, InstanceReloaded(x, i, o), i)
           /\ \/ InstanceReloaded(x, i, o).slots[i].inst = [name |-> x.slots[i].name, at |-> i]
              \/ /\ InstanceReloaded(x, i, o).slots[i].inst = x.slots[i].inst
                 /\ InstanceReloaded(x, i, o).slots[i].lost = x.slots[i].lost
<1> DEFINE y == InstanceReloaded(x, i, o)
           z == [x EXCEPT !.ticks = @ \ TicksOf(x, i)]
<1>1. CASE y = x
  <2>1. Touched(x, x, i)
    BY RenewedIsReflexive DEF Touched
  <2>2. QED
    BY <1>1, <2>1
<1>2. CASE y = Sorted(Installed(x, i, x.slots[i].set))
  <2> DEFINE w == Sorted(Installed(x, i, x.slots[i].set))
  <2>1. /\ w \in Manager /\ Whole(w) /\ Touched(x, w, i)
        /\ w.slots[i].inst = [name |-> x.slots[i].name, at |-> i]
    BY InstalledTouched
  <2> HIDE DEF w
  <2>2. y = w
    BY <1>2 DEF w
  <2>3. QED
    BY <2>1, <2>2
<1>3. CASE y = Failed(x, i)
  <2>1. /\ Failed(x, i) \in Manager /\ Whole(Failed(x, i)) /\ Touched(x, Failed(x, i), i)
        /\ Failed(x, i).slots[i].inst = x.slots[i].inst
        /\ Failed(x, i).slots[i].lost = x.slots[i].lost
    BY FailedTouched
  <2>2. QED
    BY <1>3, <2>1
<1>4. CASE y = Failed(z, i)
  <2>1. /\ z \in Manager /\ z.slots = x.slots /\ z.cmds = x.cmds /\ z.msgs = x.msgs
        /\ z.next = x.next /\ z.ticks \in SUBSET x.ticks
    BY DEF Manager
  <2> HIDE DEF z
  <2>2. Numbered(z) /\ Renewed(x, z)
    BY <2>1, FewerTicks DEF Whole
  <2>3. Whole(z)
    BY <2>1, <2>2 DEF Whole, Lists, Ordered, Prio
  <2>4. Touched(x, z, i)
    BY <2>1, <2>2 DEF Touched
  <2>5. /\ Failed(z, i) \in Manager /\ Whole(Failed(z, i)) /\ Touched(z, Failed(z, i), i)
        /\ Failed(z, i).slots[i].inst = z.slots[i].inst
        /\ Failed(z, i).slots[i].lost = z.slots[i].lost
    BY <2>1, <2>3, FailedTouched
  <2>6. Touched(x, Failed(z, i), i)
    BY <2>1, <2>4, <2>5, TouchedIsTransitive
  <2>7. QED
    BY <1>4, <2>1, <2>5, <2>6
<1>5. QED
  BY <1>1, <1>2, <1>3, <1>4 DEF InstanceReloaded

(* record_exec_error: an instance in its slot, or an error that was         *)
(* counted.                                                                 *)
LEMMA ErrorCountedManager ==
    ASSUME NEW x \in Manager, Whole(x), NEW i \in Position, NEW o \in Outcome
    PROVE  /\ ErrorCounted(x, i, o) \in Manager /\ Whole(ErrorCounted(x, i, o))
           /\ Touched(x, ErrorCounted(x, i, o), i)
           /\ i \in DOMAIN x.slots =>
                \/ ErrorCounted(x, i, o).slots[i].inst = [name |-> x.slots[i].name, at |-> i]
                \/ /\ ErrorCounted(x, i, o).slots[i].inst = x.slots[i].inst
                   /\ ErrorCounted(x, i, o).slots[i].lost > 0
<1> DEFINE y == ErrorCounted(x, i, o)
<1>1. CASE i \notin DOMAIN x.slots
  <2>1. y = x
    BY <1>1 DEF ErrorCounted
  <2>2. Touched(x, x, i)
    BY RenewedIsReflexive DEF Touched
  <2>3. QED
    BY <1>1, <2>1, <2>2
<1>2. CASE i \in DOMAIN x.slots
  <2> DEFINE s == x.slots[i]
             lost == IF s.lost > 0 /\ s.lost >= LostThreshold THEN s.lost ELSE s.lost + 1
             e == [s EXCEPT !.lost = lost]
             z == [x EXCEPT !.slots[i].lost = lost]
  <2>1. s \in Slot /\ s.lost \in Nat
    BY <1>2, SlotFields
  <2>2. s = x.slots[i]
    OBVIOUS
  <2>3. z = [x EXCEPT !.slots = [x.slots EXCEPT ![i] = e]]
    OBVIOUS
  <2>4. y = z \/ y = InstanceReloaded(z, i, o)
    BY <1>2 DEF ErrorCounted
  <2> HIDE DEF s, z, y
  <2>5. lost \in Nat /\ lost > 0
    BY <2>1
  <2> HIDE DEF lost
  <2>6. e \in Slot /\ e.set = s.set /\ e.name = s.name /\ e.inst = s.inst /\ e.lost = lost
    BY <2>1, <2>5 DEF Slot
  <2> HIDE DEF e
  <2>7. /\ z \in Manager /\ Whole(z) /\ Touched(x, z, i) /\ z.slots[i] = e
        /\ z.ticks = x.ticks /\ z.next = x.next
    BY <1>2, <2>2, <2>3, <2>6, SlotTouched
  <2>8. i \in DOMAIN z.slots
    BY <1>2, <2>7 DEF Touched
  <2>9. /\ InstanceReloaded(z, i, o) \in Manager /\ Whole(InstanceReloaded(z, i, o))
        /\ Touched(z, InstanceReloaded(z, i, o), i)
        /\ \/ InstanceReloaded(z, i, o).slots[i].inst = [name |-> z.slots[i].name, at |-> i]
           \/ /\ InstanceReloaded(z, i, o).slots[i].inst = z.slots[i].inst
              /\ InstanceReloaded(z, i, o).slots[i].lost = z.slots[i].lost
    BY <2>7, <2>8, InstanceReloadedManager
  <2>10. Touched(x, InstanceReloaded(z, i, o), i)
    BY <2>7, <2>9, TouchedIsTransitive
  <2>11. z.slots[i].inst = x.slots[i].inst /\ z.slots[i].name = x.slots[i].name /\ z.slots[i].lost > 0
    BY <2>2, <2>5, <2>6, <2>7
  <2>12. QED
    BY <2>4, <2>7, <2>9, <2>10, <2>11 DEF y
<1>3. QED
  BY <1>1, <1>2

------------------------------------------------------------------------------
(* What always holds: the numbers in the lists of the manager are right,    *)
(* and the ticks that are due keep their owner as long as they are          *)
(* registered.                                                              *)
Fits(r) ==
    /\ r \in Task
    /\ r.pc = "idle" <=> r.todo = <<>>
    /\ r.pc = "exec" => r.inst \in Instance
Due(x, r) ==
    \A k \in DOMAIN r.todo :
        /\ r.todo[k].id < x.next
        /\ \A t \in x.ticks : t.id = r.todo[k].id => t.owner = r.todo[k].owner

Always ==
    /\ file \in File /\ place \in {"slot", "reloading", "gone"} /\ slipped \in BOOLEAN
    /\ m \in Manager /\ Whole(m) /\ adrift \subseteq Instance
    /\ task \in [Tasks -> Task] /\ \A t \in Tasks : Fits(task[t])
    /\ place = "gone" => task[Ticker].pc = "idle"
    /\ Due(m, task[Ticker])

(* What holds until a reload or a shutdown meets an instance at work.       *)
Busy(t) == task[t].pc = "exec"
Here(t) == Head(task[t].todo).idx

Tidy ==
    /\ place # "slot" => Counted = {} /\ adrift = {}
    /\ \A x \in adrift : x.at \in DOMAIN m.slots /\ m.slots[x.at].name = x.name
    /\ \A i, j \in DOMAIN m.slots : m.slots[i].name = m.slots[j].name => i = j
    /\ \A i \in Filled(m) : m.slots[i].inst = [name |-> m.slots[i].name, at |-> i]
    /\ \A t \in m.ticks : \/ t.id \in orphans
                          \/ t.idx \in DOMAIN m.slots /\ m.slots[t.idx].name = t.owner
    /\ \A t \in Tasks : Busy(t) =>
         /\ Here(t) \in DOMAIN m.slots \ Filled(m)
         /\ task[t].inst = [name |-> m.slots[Here(t)].name, at |-> Here(t)]
    /\ \A t, u \in Tasks : Busy(t) /\ Busy(u) /\ Here(t) = Here(u) => t = u
    /\ \A i \in DOMAIN m.slots \ Filled(m) :
         \/ \E t \in Tasks : Busy(t) /\ Here(t) = i
         \/ m.slots[i].lost > 0 \/ i \in abandoned
    /\ Busy(Ticker) => \/ Head(task[Ticker].todo).id \in orphans
                       \/ Head(task[Ticker].todo).owner = task[Ticker].inst.name

SlotsInv == Always /\ (~slipped => Tidy)

(* A tick that is due keeps its owner when ticks are renewed.               *)
LEMMA DueRenewed ==
    ASSUME NEW x \in Manager, NEW y \in Manager, Renewed(x, y), NEW r \in Task, Due(x, r)
    PROVE  Due(y, r)
<1>1. ASSUME NEW k \in DOMAIN r.todo
      PROVE  /\ r.todo[k].id < y.next
             /\ \A t \in y.ticks : t.id = r.todo[k].id => t.owner = r.todo[k].owner
  <2>1. r.todo[k] \in Entry /\ r.todo[k].id \in Nat
    <3>1. r.todo \in Seq(Entry)
      BY DEF Task
    <3>2. r.todo[k] \in Entry
      BY <3>1
    <3>3. QED
      BY <3>2 DEF Entry
  <2>2. r.todo[k].id < x.next /\ \A t \in x.ticks : t.id = r.todo[k].id => t.owner = r.todo[k].owner
    BY DEF Due
  <2>3. x.next \in Nat /\ y.next \in Nat /\ x.next <= y.next
    BY DEF Manager, Renewed
  <2>4. ASSUME NEW t \in y.ticks, t.id = r.todo[k].id PROVE t.owner = r.todo[k].owner
    <3>1. t.id >= x.next \/ \E u \in x.ticks : u.id = t.id /\ u.owner = t.owner
      BY DEF Renewed
    <3>2. ~(t.id >= x.next)
      BY <2>1, <2>2, <2>3, <2>4
    <3>3. QED
      BY <2>2, <2>4, <3>1, <3>2
  <2>5. QED
    BY <2>1, <2>2, <2>3, <2>4
<1>2. QED
  BY <1>1 DEF Due

(* A task at rest.                                                          *)
LEMMA RestingFits == Fits(Resting) /\ Resting.pc = "idle" /\ \A x : Due(x, Resting)
<1>1. Resting.todo = <<>> /\ Resting.pc = "idle" /\ Resting \in Task
  BY DEF Resting, Task
<1>2. QED
  BY <1>1 DEF Fits, Due

(* A step of one task.                                                      *)
LEMMA TaskStep ==
    ASSUME Always, NEW t \in Tasks, NEW r, Fits(r), task' = [task EXCEPT ![t] = r],
           m' \in Manager, Whole(m'), Renewed(m, m'), t = Ticker => Due(m, r),
           t = Ticker /\ place = "gone" => r.pc = "idle",
           adrift' \subseteq Instance, UNCHANGED <<file, place, slipped>>
    PROVE  Always'
<1>1. task' \in [Tasks -> Task]
  BY DEF Always, Fits
<1>2. task'[t] = r /\ \A u \in Tasks \ {t} : task'[u] = task[u]
  BY DEF Always
<1>3. \A u \in Tasks : Fits(task'[u])
  BY <1>2 DEF Always
<1>4. Ticker \in Tasks
  BY DEF Tasks
<1>5. Due(m', task'[Ticker])
  <2>1. Due(m, task'[Ticker])
    BY <1>2, <1>4 DEF Always
  <2>2. m \in Manager /\ task'[Ticker] \in Task
    BY <1>1, <1>4 DEF Always
  <2>3. QED
    BY <2>1, <2>2, DueRenewed
<1>6. place' = "gone" => task'[Ticker].pc = "idle"
  BY <1>2, <1>4 DEF Always
<1>7. QED
  BY <1>1, <1>3, <1>5, <1>6 DEF Always

(* A task that passes over a slot.                                          *)
LEMMA RestFits ==
    ASSUME Always, NEW t \in Tasks, task[t].todo # <<>>
    PROVE  /\ Fits(Rest(t)) /\ Rest(t).pc # "exec"
           /\ t = Ticker => Due(m, Rest(t))
<1> DEFINE todo == task[t].todo
           rest == Tail(todo)
           r == [Resting EXCEPT !.pc = "ask", !.todo = rest]
<1>1. task[t] \in Task /\ todo \in Seq(Entry)
  BY DEF Always, Task
<1>2. todo # <<>>
  OBVIOUS
<1>3. t = Ticker => Due(m, task[t])
  BY DEF Always
<1>4. Rest(t) = IF rest = <<>> THEN Resting ELSE r
  BY DEF Rest
<1>5. todo = task[t].todo
  OBVIOUS
<1> HIDE DEF todo
<1>6. rest \in Seq(Entry) /\ \A k \in DOMAIN rest : k + 1 \in DOMAIN todo /\ rest[k] = todo[k + 1]
  BY <1>1, <1>2
<1> HIDE DEF rest
<1>7. r.pc = "ask" /\ r.todo = rest /\ r \in Task
  BY <1>6 DEF Resting, Task
<1> HIDE DEF r
<1>8. CASE rest = <<>>
  BY <1>4, <1>8, RestingFits
<1>9. CASE rest # <<>>
  <2>1. Fits(r)
    BY <1>7, <1>9 DEF Fits
  <2>2. t = Ticker => Due(m, r)
    BY <1>3, <1>5, <1>6, <1>7 DEF Due
  <2>3. QED
    BY <1>4, <1>7, <1>9, <2>1, <2>2
<1>10. QED
  BY <1>8, <1>9

(* What the invariant says of the manager and of the tasks.                 *)
LEMMA AlwaysFacts ==
    ASSUME Always
    PROVE  /\ m \in Manager /\ Whole(m) /\ Renewed(m, m) /\ Ticker \in Tasks
           /\ \A t \in Tasks : /\ task[t] \in Task /\ Fits(task[t])
                               /\ task[t].pc # "idle" =>
                                    /\ task[t].todo # <<>> /\ Head(task[t].todo) \in Entry
                                    /\ Here(t) \in Position
                               /\ Busy(t) => task[t].inst \in Instance
<1>1. m \in Manager /\ Whole(m)
  BY DEF Always
<1>2. ASSUME NEW t \in Tasks
      PROVE  /\ task[t] \in Task /\ Fits(task[t])
             /\ task[t].pc # "idle" => /\ task[t].todo # <<>> /\ Head(task[t].todo) \in Entry
                                       /\ Here(t) \in Position
             /\ Busy(t) => task[t].inst \in Instance
  <2>1. task[t] \in Task /\ Fits(task[t])
    BY DEF Always
  <2>2. task[t].todo \in Seq(Entry)
    BY <2>1 DEF Task
  <2>3. task[t].pc # "idle" => task[t].todo # <<>>
    BY <2>1 DEF Fits
  <2>4. task[t].todo # <<>> => Head(task[t].todo) \in Entry
    BY <2>2
  <2>5. Head(task[t].todo) \in Entry => Here(t) \in Position
    BY DEF Here, Entry
  <2>6. QED
    BY <2>1, <2>3, <2>4, <2>5 DEF Fits, Busy
<1>3. QED
  BY <1>1, <1>2, RenewedIsReflexive DEF Tasks

(* The lists of slots a command or a message may be offered to.             *)
LEMMA SelectedSlots ==
    ASSUME Always, NEW list \in Select
    PROVE  Asked(list) \in Seq(Entry) /\ DOMAIN Asked(list) = DOMAIN list
<1>1. /\ \A c \in CmdNames : ToSet(m.cmds[c]) \subseteq DOMAIN m.slots
      /\ m.msgs \subseteq DOMAIN m.slots
  BY AlwaysFacts DEF Whole, Lists
<1>2. \A c \in CmdNames : m.cmds[c] \in Seq(Position)
  BY AlwaysFacts DEF Manager
<1>3. DOMAIN m.slots = 1..Len(m.slots) /\ Len(m.slots) \in Nat
  BY AlwaysFacts DEF Manager
<1>4. list \in Seq(DOMAIN m.slots)
  <2>1. ASSUME NEW c \in CmdNames, list = m.cmds[c]
        PROVE  list \in Seq(DOMAIN m.slots)
    <3>1. \A k \in DOMAIN list : list[k] \in DOMAIN m.slots
      BY <1>1, <2>1 DEF ToSet
    <3>2. list \in Seq(Position)
      BY <1>2, <2>1
    <3>3. QED
      BY <3>1, <3>2
  <2>2. ASSUME list \in SetToSeqs(m.msgs)
        PROVE  list \in Seq(DOMAIN m.slots)
    <3>1. IsFiniteSet(m.msgs)
      <4>1. IsFiniteSet(DOMAIN m.slots)
        BY AlwaysFacts, FilledIsFinite
      <4>2. QED
        BY <1>1, <4>1, FS_Subset
    <3>2. Cardinality(m.msgs) \in Nat
      BY <3>1, FS_CardinalityType
    <3>3. list \in [1..Cardinality(m.msgs) -> m.msgs]
      BY <2>2 DEF SetToSeqs
    <3>4. list \in Seq(m.msgs)
      BY <3>2, <3>3
    <3>5. QED
      BY <1>1, <3>4
  <2>3. QED
    BY <2>1, <2>2 DEF Select
<1>5. \A i \in DOMAIN m.slots : SlotEntry(i) \in Entry
  BY AlwaysFacts, SlotFields DEF SlotEntry, Entry
<1>6. QED
  BY <1>4, <1>5 DEF Asked

(* A message or a command comes: no instance is taken yet.                  *)
LEMMA DispatchAlways ==
    ASSUME Always, NEW t \in Handlers, Dispatch(t)
    PROVE  /\ Always' /\ m' = m /\ \E r : task' = [task EXCEPT ![t] = r] /\ r.pc # "exec"
<1>1. PICK list \in Select :
        task' = [task EXCEPT ![t] = IF list = <<>> THEN Resting
                                    ELSE [Resting EXCEPT !.pc = "ask", !.todo = Asked(list)]]
  BY DEF Dispatch
<1> DEFINE asked == [Resting EXCEPT !.pc = "ask", !.todo = Asked(list)]
           r == IF list = <<>> THEN Resting ELSE asked
<1>2. Asked(list) \in Seq(Entry) /\ DOMAIN Asked(list) = DOMAIN list
  BY SelectedSlots
<1>3. list # <<>> => Fits(asked) /\ asked.pc = "ask"
  <2>1. HAVE list # <<>>
  <2>2. Asked(list) # <<>>
    BY <1>2, <2>1 DEF Asked
  <2>3. asked \in Task /\ asked.pc = "ask" /\ asked.todo = Asked(list)
    BY <1>2 DEF Resting, Task
  <2>4. QED
    BY <2>2, <2>3 DEF Fits
<1>4. Fits(r) /\ r.pc # "exec"
  BY <1>3, RestingFits
<1>5. t \in Tasks /\ t # Ticker
  BY TickerAssumption DEF Tasks
<1>6. task' = [task EXCEPT ![t] = r] /\ UNCHANGED <<file, place, slipped, m>>
      /\ adrift' \subseteq Instance
  BY <1>1 DEF Dispatch, History, Always
<1> HIDE DEF r, asked
<1>7. Always'
  BY <1>4, <1>5, <1>6, AlwaysFacts, TaskStep
<1>8. QED
  BY <1>4, <1>6, <1>7

(* Ticks are due: each is registered, with its owner.                       *)
LEMMA TickScanAlways ==
    ASSUME Always, TickScan
    PROVE  /\ Always' /\ m' = m /\ \E r : task' = [task EXCEPT ![Ticker] = r] /\ r.pc # "exec"
<1>1. PICK due \in (SUBSET m.ticks) \ {{}} : \E todo \in SetToSeqs(due) :
        task' = [task EXCEPT ![Ticker] = [Resting EXCEPT !.pc = "ask", !.todo = todo]]
  BY DEF TickScan
<1>2. PICK todo \in SetToSeqs(due) :
        task' = [task EXCEPT ![Ticker] = [Resting EXCEPT !.pc = "ask", !.todo = todo]]
  BY <1>1
<1> DEFINE r == [Resting EXCEPT !.pc = "ask", !.todo = todo]
<1>3. IsFiniteSet(m.ticks) /\ \A t \in m.ticks : t.id < m.next
  BY AlwaysFacts DEF Whole, Numbered
<1>4. /\ m.ticks \subseteq Entry
      /\ \A t, u \in m.ticks : t.id = u.id => t = u
  BY AlwaysFacts DEF Manager, TickEntry, Entry, Whole, Numbered
<1>5. IsFiniteSet(due)
  BY <1>3, FS_Subset
<1>6. Cardinality(due) \in Nat /\ Cardinality(due) # 0
  BY <1>5, FS_CardinalityType, FS_EmptySet
<1>7. todo \in [1..Cardinality(due) -> due]
  BY DEF SetToSeqs
<1>8. todo \in Seq(Entry) /\ todo # <<>> /\ \A k \in DOMAIN todo : todo[k] \in m.ticks
  <2>1. todo \in Seq(due)
    BY <1>6, <1>7
  <2>2. Len(todo) = Cardinality(due)
    BY <1>6, <1>7, <2>1
  <2>3. QED
    BY <1>4, <1>6, <2>1, <2>2
<1>9. r \in Task /\ r.pc = "ask" /\ r.todo = todo
  BY <1>8 DEF Resting, Task
<1>10. task' = [task EXCEPT ![Ticker] = r] /\ UNCHANGED <<file, place, slipped, m>> /\ place = "slot"
      /\ adrift' \subseteq Instance
  BY <1>2 DEF TickScan, History, Always
<1> HIDE DEF r
<1>11. Fits(r)
  BY <1>8, <1>9 DEF Fits
<1>12. Due(m, r)
  BY <1>3, <1>4, <1>8, <1>9 DEF Due
<1>13. Always'
  BY <1>10, <1>11, <1>12, AlwaysFacts, TaskStep
<1>14. QED
  BY <1>9, <1>10, <1>13

(* The drain flag ends the list.                                            *)
LEMMA TickBreaksAlways ==
    ASSUME Always, TickBreaks
    PROVE  /\ Always' /\ m' = m /\ \E r : task' = [task EXCEPT ![Ticker] = r] /\ r.pc # "exec"
<1>1. task' = [task EXCEPT ![Ticker] = Resting] /\ UNCHANGED <<file, place, slipped, m>>
      /\ adrift' \subseteq Instance
  BY DEF TickBreaks, History, Always
<1>2. Fits(Resting) /\ Resting.pc = "idle" /\ Due(m, Resting)
  BY RestingFits
<1>3. Always'
  BY <1>1, <1>2, AlwaysFacts, TaskStep
<1>4. QED
  BY <1>1, <1>2, <1>3

(* Taking an instance out: only its slot changes.                           *)
LEMMA TakeAlways ==
    ASSUME Always, NEW t \in Tasks, Take(t)
    PROVE  /\ Always'
           /\ \/ /\ m' = m /\ task[t].pc = "ask"
                 /\ \E r : task' = [task EXCEPT ![t] = r] /\ r.pc # "exec"
              \/ /\ task[t].pc = "ask" /\ Takeable(t) /\ Here(t) \in Filled(m)
                 /\ task' = [task EXCEPT ![t] = [task[t] EXCEPT !.pc = "exec",
                                                   !.inst = m.slots[Here(t)].inst]]
                 /\ m' = PutBack(m, Here(t), NoInstance)
<1> DEFINE i == Here(t)
<1>1. /\ task[t].pc = "ask" /\ UNCHANGED <<file, place, slipped>> /\ adrift' \subseteq Instance
      /\ \/ Takeable(t) /\ task' = [task EXCEPT ![t].pc = "exec", ![t].inst = m.slots[i].inst]
            /\ m' = [m EXCEPT !.slots[i].inst = NoInstance]
         \/ ~Takeable(t) /\ task' = [task EXCEPT ![t] = Rest(t)] /\ m' = m
  BY DEF Take, Here, History, Always
<1>2. task[t] \in Task /\ task[t].todo # <<>> /\ i \in Position
  BY <1>1, AlwaysFacts
<1>3. CASE ~Takeable(t)
  <2>1. /\ Fits(Rest(t)) /\ Rest(t).pc # "exec"
        /\ t = Ticker => Due(m, Rest(t))
    BY <1>2, RestFits
  <2>2. task' = [task EXCEPT ![t] = Rest(t)] /\ m' = m
    BY <1>1, <1>3
  <2>3. t = Ticker => place # "gone"
    BY <1>1 DEF Always
  <2>4. Always'
    BY <1>1, <2>1, <2>2, <2>3, AlwaysFacts, TaskStep
  <2>5. \E r : task' = [task EXCEPT ![t] = r] /\ r.pc # "exec"
    BY <2>1, <2>2
  <2>6. QED
    BY <1>1, <2>2, <2>4, <2>5
<1>4. CASE Takeable(t)
  <2> DEFINE inst == m.slots[i].inst
             r == [task[t] EXCEPT !.pc = "exec", !.inst = inst]
             y == PutBack(m, i, NoInstance)
  <2>1. i \in Filled(m) /\ place = "slot"
    BY <1>4 DEF Takeable, Here
  <2>2. i \in DOMAIN m.slots /\ inst # NoInstance
    BY <2>1 DEF Filled
  <2>3. inst \in Instance
    BY <2>2, AlwaysFacts, SlotFields
  <2>4. task \in [Tasks -> Task]
    BY DEF Always
  <2>5. /\ task' = [task EXCEPT ![t].pc = "exec", ![t].inst = inst]
        /\ m' = [m EXCEPT !.slots[i].inst = NoInstance]
    BY <1>1, <1>4
  <2>6. m' = y
    BY <2>2, <2>5 DEF PutBack
  <2> HIDE DEF inst, i
  <2>7. task' = [task EXCEPT ![t] = r]
    BY <2>4, <2>5
  <2>8. r \in Task /\ r.pc = "exec" /\ r.inst = inst /\ r.todo = task[t].todo
    BY <1>2, <2>3 DEF Task
  <2> HIDE DEF r, y
  <2>9. Fits(r)
    BY <1>2, <2>3, <2>8 DEF Fits
  <2>10. t = Ticker => Due(m, r)
    BY <2>8 DEF Always, Due
  <2>11. y \in Manager /\ Whole(y) /\ Renewed(m, y)
    BY <2>2, AlwaysFacts, PutBackManager DEF Touched, y
  <2>12. Always'
    BY <1>1, <2>1, <2>6, <2>7, <2>9, <2>10, <2>11, TaskStep
  <2>13. QED
    BY <1>1, <1>4, <2>1, <2>6, <2>7, <2>12 DEF inst, i, r, y
<1>5. QED
  BY <1>3, <1>4

(* A tick is registered by an instance that runs.                           *)
LEMMA RegisteredAlways ==
    ASSUME Always, NEW x \in Instance, m' = Registered(m, x),
           UNCHANGED <<file, place, task, adrift, slipped>>
    PROVE  /\ Always' /\ m'.slots = m.slots
           /\ \A u \in m'.ticks : u \in m.ticks \/ (u.idx = x.at /\ u.owner = x.name)
<1> DEFINE y == Registered(m, x)
<1>1. m \in Manager /\ Whole(m) /\ Numbered(m) /\ Fits(task[Ticker]) /\ Ticker \in Tasks
  BY AlwaysFacts DEF Whole
<1>2. /\ y \in Manager /\ y.slots = m.slots /\ y.cmds = m.cmds /\ y.msgs = m.msgs
      /\ Numbered(y) /\ Renewed(m, y)
      /\ \A u \in y.ticks : u \in m.ticks \/ (u.idx = x.at /\ u.owner = x.name)
  BY <1>1, RegisteredManager
<1>3. m' = y
  OBVIOUS
<1> HIDE DEF y
<1>4. Whole(y)
  BY <1>1, <1>2 DEF Whole, Lists, Ordered, Prio
<1>5. task' = [task EXCEPT ![Ticker] = task[Ticker]] /\ adrift' \subseteq Instance
  BY DEF Always
<1>6. Due(m, task[Ticker]) /\ (place = "gone" => task[Ticker].pc = "idle")
  BY DEF Always
<1>7. Always'
  BY <1>1, <1>2, <1>3, <1>4, <1>5, <1>6, TaskStep
<1>8. QED
  BY <1>2, <1>3, <1>7

(* The end of an execution: what becomes of the slot of the instance.       *)
Ends(t) == Handled(t) \/ Passed(t) \/ Errs(t) \/ Vanishes(t)

(* The instance goes back to its slot, or its loss is counted.              *)
LEMMA EndsAlways ==
    ASSUME Always, NEW t \in Tasks, Ends(t)
    PROVE  /\ Always' /\ UNCHANGED <<place, slipped, orphans, abandoned>> /\ Busy(t)
           /\ adrift' \subseteq adrift \union {task[t].inst}
           /\ \E r : task' = [task EXCEPT ![t] = r] /\ r.pc # "exec"
           /\ (place = "slot" /\ Here(t) \in DOMAIN m.slots) =>
                /\ Touched(m, m', Here(t))
                /\ \/ m'.slots[Here(t)].inst = [name |-> m.slots[Here(t)].name, at |-> Here(t)]
                   \/ m'.slots[Here(t)].inst = task[t].inst
                   \/ /\ m'.slots[Here(t)].inst = m.slots[Here(t)].inst
                      /\ m'.slots[Here(t)].lost > 0
<1> DEFINE i == Here(t)
           inst == task[t].inst
           b == PutBack(m, i, inst)
<1>1. /\ Busy(t) /\ UNCHANGED <<file, place, slipped, orphans, abandoned>>
      /\ adrift' \subseteq adrift \union {inst}
      /\ \/ task' = [task EXCEPT ![t] = Resting] \/ task' = [task EXCEPT ![t] = Rest(t)]
      /\ \/ place # "slot" /\ m' = m
         \/ place = "slot" /\ m' = b
         \/ place = "slot" /\ \E o \in Outcome : m' = ErrorCounted(b, i, o)
         \/ place = "slot" /\ \E o \in Outcome : m' = ErrorCounted(m, i, o)
  BY DEF Ends, Handled, Passed, Errs, Vanishes, Done, Busy, Here, Returned, Quietly, RunsOn
<1>2. /\ task[t] \in Task /\ task[t].todo # <<>> /\ i \in Position /\ inst \in Instance
      /\ m \in Manager /\ Whole(m) /\ Renewed(m, m)
  BY <1>1, AlwaysFacts DEF Busy
<1>3. PICK r : task' = [task EXCEPT ![t] = r] /\ r.pc # "exec" /\ Fits(r) /\ (t = Ticker => Due(m, r))
  BY <1>1, <1>2, RestFits, RestingFits
<1>4. t = Ticker => place # "gone"
  BY <1>1 DEF Always, Busy
<1> HIDE DEF i, inst
<1>5. b \in Manager /\ Whole(b) /\ Renewed(m, b)
  <2>1. CASE i \notin DOMAIN m.slots
    BY <1>2, <2>1 DEF PutBack
  <2>2. CASE i \in DOMAIN m.slots
    BY <1>2, <2>2, PutBackManager DEF Touched
  <2>3. QED
    BY <2>1, <2>2
<1>6. i \in DOMAIN m.slots => /\ Touched(m, b, i) /\ b.slots[i].inst = inst
                              /\ i \in DOMAIN b.slots /\ b.slots[i].name = m.slots[i].name
  BY <1>2, PutBackManager DEF Touched
<1> HIDE DEF b
<1>7. ASSUME NEW x \in Manager, Whole(x), NEW o \in Outcome
      PROVE  /\ ErrorCounted(x, i, o) \in Manager /\ Whole(ErrorCounted(x, i, o))
             /\ Touched(x, ErrorCounted(x, i, o), i)
             /\ i \in DOMAIN x.slots =>
                  \/ ErrorCounted(x, i, o).slots[i].inst = [name |-> x.slots[i].name, at |-> i]
                  \/ /\ ErrorCounted(x, i, o).slots[i].inst = x.slots[i].inst
                     /\ ErrorCounted(x, i, o).slots[i].lost > 0
  BY <1>2, <1>7, ErrorCountedManager
<1>8. /\ m' \in Manager /\ Whole(m') /\ Renewed(m, m')
      /\ (place = "slot" /\ i \in DOMAIN m.slots) =>
           /\ Touched(m, m', i)
           /\ \/ m'.slots[i].inst = [name |-> m.slots[i].name, at |-> i]
              \/ m'.slots[i].inst = inst
              \/ m'.slots[i].inst = m.slots[i].inst /\ m'.slots[i].lost > 0
  <2>1. CASE place # "slot" /\ m' = m
    BY <1>2, <2>1
  <2>2. CASE m' = b
    BY <1>5, <1>6, <2>2
  <2>3. ASSUME NEW o \in Outcome, m' = ErrorCounted(b, i, o)
        PROVE  /\ m' \in Manager /\ Whole(m') /\ Renewed(m, m')
               /\ i \in DOMAIN m.slots =>
                    /\ Touched(m, m', i)
                    /\ \/ m'.slots[i].inst = [name |-> m.slots[i].name, at |-> i]
                       \/ m'.slots[i].inst = inst
    <3>1. /\ m' \in Manager /\ Whole(m') /\ Touched(b, m', i)
          /\ i \in DOMAIN b.slots => \/ m'.slots[i].inst = [name |-> b.slots[i].name, at |-> i]
                                     \/ m'.slots[i].inst = b.slots[i].inst
      BY <1>5, <1>7, <2>3
    <3>2. Renewed(m, m')
      BY <1>2, <1>5, <3>1, RenewedIsTransitive DEF Touched
    <3>3. i \in DOMAIN m.slots => Touched(m, m', i)
      BY <1>2, <1>5, <1>6, <3>1, TouchedIsTransitive
    <3>4. QED
      BY <1>6, <3>1, <3>2, <3>3
  <2>4. ASSUME NEW o \in Outcome, m' = ErrorCounted(m, i, o)
        PROVE  /\ m' \in Manager /\ Whole(m') /\ Renewed(m, m') /\ Touched(m, m', i)
               /\ i \in DOMAIN m.slots =>
                    \/ m'.slots[i].inst = [name |-> m.slots[i].name, at |-> i]
                    \/ m'.slots[i].inst = m.slots[i].inst /\ m'.slots[i].lost > 0
    <3>1. /\ m' \in Manager /\ Whole(m') /\ Touched(m, m', i)
          /\ i \in DOMAIN m.slots => \/ m'.slots[i].inst = [name |-> m.slots[i].name, at |-> i]
                                     \/ m'.slots[i].inst = m.slots[i].inst /\ m'.slots[i].lost > 0
      BY <1>2, <1>7, <2>4
    <3>2. QED
      BY <3>1 DEF Touched
  <2>5. QED
    BY <1>1, <2>1, <2>2, <2>3, <2>4
<1>9. adrift' \subseteq Instance
  BY <1>1, <1>2 DEF Always
<1>10. Always'
  BY <1>1, <1>3, <1>4, <1>8, <1>9, TaskStep
<1>11. QED
  BY <1>1, <1>3, <1>8, <1>10 DEF i, inst

(* The command timeout: the handler is gone, with the instance it had.      *)
LEMMA CommandTimesOutAlways ==
    ASSUME Always, NEW t \in Tasks, CommandTimesOut(t)
    PROVE  /\ Always' /\ m' = m /\ UNCHANGED <<place, slipped, orphans>>
           /\ task' = [task EXCEPT ![t] = Resting] /\ t \in Handlers /\ task[t].pc # "idle"
           /\ \/ /\ Busy(t) /\ adrift' \subseteq adrift \union {task[t].inst}
                 /\ abandoned' = abandoned \union {Here(t)}
              \/ ~Busy(t) /\ UNCHANGED <<adrift, abandoned>>
<1>1. /\ m' = m /\ UNCHANGED <<file, place, slipped, orphans>> /\ task[t].pc # "idle"
      /\ task' = [task EXCEPT ![t] = Resting] /\ t \in Handlers
      /\ \/ /\ Busy(t) /\ adrift' \subseteq adrift \union {task[t].inst}
            /\ abandoned' = abandoned \union {Here(t)}
         \/ ~Busy(t) /\ UNCHANGED <<adrift, abandoned>>
  BY DEF CommandTimesOut, Busy, Here, RunsOn, Quietly, Tasks
<1>2. adrift' \subseteq Instance
  BY <1>1, AlwaysFacts DEF Always
<1>3. t # Ticker
  BY <1>1, TickerAssumption
<1>4. Always'
  BY <1>1, <1>2, <1>3, AlwaysFacts, RestingFits, TaskStep
<1>5. QED
  BY <1>1, <1>4

(* It holds at the start.                                                   *)
LEMMA AlwaysAtStart == Init => Always
<1>1. HAVE Init
<1>2. First \in File /\ Ticker \in Tasks
  BY TickerAssumption DEF Tasks
<1>3. m \in Manager /\ Whole(m)
  BY <1>1, <1>2, FirstManager DEF Init
<1>4. \A t \in Tasks : task[t] = Resting
  BY <1>1 DEF Init
<1>5. task \in [Tasks -> Task] /\ \A t \in Tasks : Fits(task[t])
  BY <1>1, <1>4, RestingFits DEF Init, Fits
<1>6. Due(m, task[Ticker]) /\ task[Ticker].pc = "idle"
  BY <1>2, <1>4, RestingFits
<1>7. adrift \subseteq Instance
  BY <1>1 DEF Init
<1>8. QED
  BY <1>1, <1>2, <1>3, <1>5, <1>6, <1>7 DEF Init, Always

(* Due ticks keep their owner through a reload.                             *)
LEMMA ReloadAlways ==
    ASSUME Always, NEW how \in How, ReloadAll(how)
    PROVE  Always'
<1> DEFINE y == ReloadedAll(m, file, how)
<1>1. /\ m' = y /\ place' = "slot" /\ UNCHANGED <<file, task, adrift, slipped>>
  BY DEF ReloadAll
<1>2. /\ m \in Manager /\ Whole(m) /\ file \in File /\ how \in Hows /\ task[Ticker] \in Task
      /\ Due(m, task[Ticker])
  BY AlwaysFacts DEF Always, How, Hows
<1>3. y \in Manager /\ Whole(y) /\ Renewed(m, y)
  BY <1>2, ReloadedAllManager
<1> HIDE DEF y
<1>4. Due(y, task[Ticker])
  BY <1>2, <1>3, DueRenewed
<1>5. QED
  BY <1>1, <1>3, <1>4 DEF Always

(* The end of a connection.                                                 *)
LEMMA ShutdownAlways ==
    ASSUME Always, Shutdown
    PROVE  Always'
<1>1. /\ place' = "gone" /\ m' = Empty /\ task' = [task EXCEPT ![Ticker] = Resting]
      /\ slipped' = (slipped \/ Counted \ {Ticker} # {}) /\ file' = file /\ adrift' = {}
  BY DEF Shutdown
<1>2. task \in [Tasks -> Task] /\ Ticker \in Tasks /\ \A t \in Tasks : Fits(task[t])
  BY AlwaysFacts DEF Always
<1>3. Fits(Resting) /\ Resting.pc = "idle" /\ Due(Empty, Resting)
  BY RestingFits
<1>4. Resting \in Task
  BY <1>3 DEF Fits
<1>5. /\ task' \in [Tasks -> Task] /\ task'[Ticker] = Resting
      /\ \A t \in Tasks : task'[t] = Resting \/ task'[t] = task[t]
  BY <1>1, <1>2, <1>4
<1>6. \A t \in Tasks : Fits(task'[t])
  BY <1>2, <1>3, <1>5
<1>7. slipped' \in BOOLEAN
  BY <1>1 DEF Always
<1>8. m' \in Manager /\ Whole(m')
  BY <1>1, EmptyManager
<1>9. Due(m', task'[Ticker]) /\ task'[Ticker].pc = "idle"
  BY <1>1, <1>3, <1>5
<1>10. QED
  BY <1>1, <1>5, <1>6, <1>7, <1>8, <1>9 DEF Always

(* The manager of the next connection.                                      *)
LEMMA NewAlways ==
    ASSUME Always, New
    PROVE  Always'
<1>1. /\ m' = NewManager(file) /\ place = "gone" /\ place' = "slot"
      /\ UNCHANGED <<file, task, adrift, slipped>>
  BY DEF New
<1>2. m' \in Manager /\ Whole(m')
  BY <1>1, FirstManager DEF Always
<1>3. task[Ticker].todo = <<>>
  BY <1>1, AlwaysFacts DEF Always, Fits
<1>4. Due(m', task'[Ticker])
  BY <1>1, <1>3 DEF Due
<1>5. QED
  BY <1>1, <1>2, <1>4 DEF Always

(* Every step keeps it.                                                     *)
LEMMA AlwaysStep ==
    ASSUME Always, [Next]_vars
    PROVE  Always'
<1>1. ASSUME NEW t \in Handlers, Dispatch(t) PROVE Always'
  BY <1>1, DispatchAlways
<1>2. ASSUME TickScan PROVE Always'
  BY <1>2, TickScanAlways
<1>3. ASSUME TickBreaks PROVE Always'
  BY <1>3, TickBreaksAlways
<1>4. ASSUME NEW t \in Tasks, Take(t) PROVE Always'
  BY <1>4, TakeAlways
<1>5. ASSUME NEW t \in Tasks, Register(t) PROVE Always'
  <2>1. task[t].inst \in Instance
    BY <1>5, AlwaysFacts DEF Register, Busy
  <2>2. m' = Registered(m, task[t].inst) /\ UNCHANGED <<file, place, task, adrift, slipped>>
    BY <1>5 DEF Register, History
  <2>3. QED
    BY <2>1, <2>2, RegisteredAlways
<1>6. ASSUME NEW t \in Tasks, Ends(t) PROVE Always'
  BY <1>6, EndsAlways
<1>7. ASSUME NEW f \in Files, Edit(f) PROVE Always'
  <2>1. file' \in File /\ UNCHANGED <<place, m, task, adrift, slipped>>
    BY <1>7, TickerAssumption DEF Edit
  <2>2. QED
    BY <2>1 DEF Always
<1>8. ASSUME TakeManager PROVE Always'
  <2>1. /\ place' = "reloading" /\ slipped' = (slipped \/ Counted # {} \/ adrift # {})
        /\ UNCHANGED <<file, m, task, adrift>>
    BY <1>8 DEF TakeManager
  <2>2. QED
    BY <2>1 DEF Always
<1>9. ASSUME NEW how \in How, ReloadAll(how) PROVE Always'
  BY <1>9, ReloadAlways
<1>10. ASSUME Shutdown PROVE Always'
  BY <1>10, ShutdownAlways
<1>11. ASSUME New PROVE Always'
  BY <1>11, NewAlways
<1>12. ASSUME UNCHANGED vars PROVE Always'
  BY <1>12 DEF vars, Always
<1>13. ASSUME NEW t \in Tasks, CommandTimesOut(t) PROVE Always'
  BY <1>13, CommandTimesOutAlways
<1>14. ASSUME NEW x \in adrift, AdriftRegisters(x) PROVE Always'
  BY <1>14, RegisteredAlways DEF AdriftRegisters, History, Always
<1>15. ASSUME NEW x \in adrift, AdriftEnds(x) PROVE Always'
  <2>1. adrift' \subseteq adrift /\ UNCHANGED <<file, place, m, task, slipped>>
    BY <1>15 DEF AdriftEnds, History
  <2>2. QED
    BY <2>1 DEF Always
<1>16. QED
  BY <1>1, <1>2, <1>3, <1>4, <1>5, <1>6, <1>7, <1>8, <1>9, <1>10, <1>11, <1>12, <1>13, <1>14,
     <1>15 DEF Next, Ends

(* Steps of tasks that hold no instance, before and after.                  *)
LEMMA QuietTidy ==
    ASSUME Always, Tidy, NEW t \in Tasks, ~Busy(t), NEW r, r.pc # "exec",
           task' = [task EXCEPT ![t] = r], t \in Handlers => place = "slot",
           m' = m, UNCHANGED <<place, adrift, orphans, abandoned>>
    PROVE  Tidy'
<1>1. /\ task'[t] = r /\ \A u \in Tasks \ {t} : task'[u] = task[u]
  BY DEF Always
<1>2. \A u \in Tasks : /\ Busy(u)' <=> Busy(u)
                       /\ Busy(u) => task'[u] = task[u] /\ Here(u)' = Here(u)
  BY <1>1 DEF Busy, Here
<1>3. place # "slot" => Counted' = {}
  <2>1. HAVE place # "slot"
  <2>2. t = Ticker /\ Counted = {}
    BY <2>1 DEF Tidy, Tasks
  <2>3. \A u \in Handlers : u \in Tasks /\ u # Ticker
    BY TickerAssumption DEF Tasks
  <2>4. \A u \in Handlers : task'[u] = task[u]
    BY <1>1, <2>2, <2>3
  <2>5. \A u \in Handlers : task[u].pc = "idle"
    BY <2>2 DEF Counted
  <2>6. task'[Ticker].pc # "exec"
    BY <1>1, <2>2
  <2>7. QED
    BY <2>4, <2>5, <2>6 DEF Counted
<1>4. Ticker \in Tasks
  BY DEF Tasks
<1>5. \A u \in Tasks : Busy(u)' =>
        /\ Here(u)' \in DOMAIN m'.slots \ Filled(m')
        /\ task'[u].inst = [name |-> m'.slots[Here(u)'].name, at |-> Here(u)']
  BY <1>2 DEF Tidy
<1>6. \A u, w \in Tasks : Busy(u)' /\ Busy(w)' /\ Here(u)' = Here(w)' => u = w
  BY <1>2 DEF Tidy
<1>7. \A i \in DOMAIN m'.slots \ Filled(m') :
        \/ \E u \in Tasks : Busy(u)' /\ Here(u)' = i
        \/ m'.slots[i].lost > 0 \/ i \in abandoned'
  BY <1>2 DEF Tidy
<1>8. Busy(Ticker)' => \/ Head(task'[Ticker].todo).id \in orphans'
                       \/ Head(task'[Ticker].todo).owner = task'[Ticker].inst.name
  BY <1>2, <1>4 DEF Tidy
<1>9. /\ \A i, j \in DOMAIN m'.slots : m'.slots[i].name = m'.slots[j].name => i = j
      /\ \A i \in Filled(m') : m'.slots[i].inst = [name |-> m'.slots[i].name, at |-> i]
      /\ \A u \in m'.ticks : \/ u.id \in orphans'
                             \/ u.idx \in DOMAIN m'.slots /\ m'.slots[u.idx].name = u.owner
      /\ place' # "slot" => adrift' = {}
      /\ \A x \in adrift' : x.at \in DOMAIN m'.slots /\ m'.slots[x.at].name = x.name
  BY DEF Tidy
<1>10. QED
  BY <1>3, <1>5, <1>6, <1>7, <1>8, <1>9 DEF Tidy

(* The slot is empty from now on, and its instance is at work.              *)
LEMMA TakeTidy ==
    ASSUME Always, Tidy, NEW t \in Tasks, task[t].pc = "ask", Takeable(t), Here(t) \in Filled(m),
           task' = [task EXCEPT ![t] = [task[t] EXCEPT !.pc = "exec", !.inst = m.slots[Here(t)].inst]],
           m' = PutBack(m, Here(t), NoInstance), UNCHANGED <<place, adrift, orphans, abandoned>>
    PROVE  Tidy'
<1> DEFINE i == Here(t)
           y == PutBack(m, i, NoInstance)
<1>1. i \in DOMAIN m.slots /\ m.slots[i].inst = [name |-> m.slots[i].name, at |-> i]
  BY DEF Tidy, Filled
<1>2. /\ y \in Manager /\ Whole(y) /\ Touched(m, y, i) /\ y.slots[i].inst = NoInstance
      /\ y.slots[i].lost = m.slots[i].lost /\ y.ticks = m.ticks /\ y.next = m.next
  BY <1>1, AlwaysFacts, PutBackManager
<1>3. m' = y /\ place = "slot"
  BY DEF Takeable
<1> HIDE DEF y
<1>4. /\ DOMAIN y.slots = DOMAIN m.slots
      /\ \A j \in DOMAIN m.slots : y.slots[j].name = m.slots[j].name
      /\ \A j \in DOMAIN m.slots \ {i} : y.slots[j] = m.slots[j]
      /\ Filled(y) = Filled(m) \ {i}
  BY <1>1, <1>2 DEF Touched, Filled
<1>5. task \in [Tasks -> Task] /\ task[t] \in Task
  BY AlwaysFacts DEF Always
<1>6. /\ \A u \in Tasks \ {t} : task'[u] = task[u]
      /\ task'[t].pc = "exec" /\ task'[t].inst = m.slots[i].inst /\ task'[t].todo = task[t].todo
  BY <1>5 DEF Task
<1>7. /\ \A u \in Tasks \ {t} : Busy(u)' = Busy(u) /\ Here(u)' = Here(u)
      /\ Busy(t)' /\ Here(t)' = i
  BY <1>6 DEF Busy, Here
<1>8. \A u \in Tasks : Busy(u) => Here(u) # i
  BY DEF Tidy
<1>9. \A u \in Tasks : Busy(u)' =>
        /\ Here(u)' \in DOMAIN y.slots \ Filled(y)
        /\ task'[u].inst = [name |-> y.slots[Here(u)'].name, at |-> Here(u)']
  <2>1. ASSUME NEW u \in Tasks \ {t}, Busy(u)'
        PROVE  /\ Here(u)' \in DOMAIN y.slots \ Filled(y)
               /\ task'[u].inst = [name |-> y.slots[Here(u)'].name, at |-> Here(u)']
    <3>1. /\ Here(u) \in DOMAIN m.slots \ Filled(m)
          /\ task[u].inst = [name |-> m.slots[Here(u)].name, at |-> Here(u)]
      BY <1>7, <2>1 DEF Tidy
    <3>2. QED
      BY <1>4, <1>6, <1>7, <2>1, <3>1
  <2>2. /\ Here(t)' \in DOMAIN y.slots \ Filled(y)
        /\ task'[t].inst = [name |-> y.slots[Here(t)'].name, at |-> Here(t)']
    BY <1>1, <1>4, <1>6, <1>7
  <2>3. QED
    BY <2>1, <2>2
<1>10. \A u, w \in Tasks : Busy(u)' /\ Busy(w)' /\ Here(u)' = Here(w)' => u = w
  <2>1. \A u, w \in Tasks \ {t} : Busy(u) /\ Busy(w) /\ Here(u) = Here(w) => u = w
    BY DEF Tidy
  <2>2. QED
    BY <1>7, <1>8, <2>1
<1>11. \A j \in DOMAIN y.slots \ Filled(y) :
         \/ \E u \in Tasks : Busy(u)' /\ Here(u)' = j
         \/ y.slots[j].lost > 0 \/ j \in abandoned'
  <2>1. TAKE j \in DOMAIN y.slots \ Filled(y)
  <2>2. CASE j = i
    BY <1>7, <2>2
  <2>3. CASE j # i
    <3>1. j \in DOMAIN m.slots \ Filled(m) /\ y.slots[j] = m.slots[j]
      BY <1>4, <2>3
    <3>2. \/ \E u \in Tasks : Busy(u) /\ Here(u) = j
          \/ m.slots[j].lost > 0 \/ j \in abandoned
      BY <3>1 DEF Tidy
    <3>3. ~Busy(t)
      BY DEF Busy
    <3>4. QED
      BY <1>7, <3>1, <3>2, <3>3
  <2>4. QED
    BY <2>2, <2>3
<1>12. Busy(Ticker)' => \/ Head(task'[Ticker].todo).id \in orphans
                        \/ Head(task'[Ticker].todo).owner = task'[Ticker].inst.name
  <2>1. CASE t # Ticker
    BY <1>6, <1>7, <2>1 DEF Tidy, Tasks
  <2>2. CASE t = Ticker
    <3> DEFINE e == Head(task[t].todo)
    <3>1. PICK u \in m.ticks : u.idx = i /\ u.id = e.id
      BY <2>2 DEF Takeable, Here
    <3>2. u.owner = e.owner
      <4>1. task[t].todo # <<>> /\ task[t].todo \in Seq(Entry)
        BY AlwaysFacts DEF Task
      <4>2. e = task[t].todo[1] /\ 1 \in DOMAIN task[t].todo
        BY <4>1
      <4>3. QED
        BY <2>2, <3>1, <4>2 DEF Always, Due
    <3>3. u.id \in orphans \/ m.slots[i].name = u.owner
      BY <3>1 DEF Tidy
    <3>4. m.slots[i].inst.name = m.slots[i].name
      BY <1>1
    <3>5. QED
      BY <1>6, <2>2, <3>1, <3>2, <3>3, <3>4
  <2>3. QED
    BY <2>1, <2>2
<1>13. /\ \A j, k \in DOMAIN y.slots : y.slots[j].name = y.slots[k].name => j = k
       /\ \A j \in Filled(y) : y.slots[j].inst = [name |-> y.slots[j].name, at |-> j]
       /\ \A u \in y.ticks : \/ u.id \in orphans
                             \/ u.idx \in DOMAIN y.slots /\ y.slots[u.idx].name = u.owner
  <2>1. \A j, k \in DOMAIN y.slots : y.slots[j].name = y.slots[k].name => j = k
    BY <1>4 DEF Tidy
  <2>2. \A j \in Filled(y) : y.slots[j].inst = [name |-> y.slots[j].name, at |-> j]
    <3>1. \A j \in Filled(y) : j \in Filled(m) /\ y.slots[j] = m.slots[j]
      BY <1>4 DEF Filled
    <3>2. QED
      BY <3>1 DEF Tidy
  <2>3. \A u \in y.ticks : \/ u.id \in orphans
                           \/ u.idx \in DOMAIN y.slots /\ y.slots[u.idx].name = u.owner
    BY <1>2, <1>4 DEF Tidy
  <2>4. QED
    BY <2>1, <2>2, <2>3
<1>14. \A x \in adrift : x.at \in DOMAIN y.slots /\ y.slots[x.at].name = x.name
  BY <1>4 DEF Tidy
<1>15. QED
  BY <1>3, <1>9, <1>10, <1>11, <1>12, <1>13, <1>14 DEF Tidy

(* While an instance is at work, nobody has taken the manager.              *)
LEMMA BusyMeansSlot ==
    ASSUME Always, Tidy, NEW t \in Tasks, Busy(t)
    PROVE  place = "slot"
<1>1. t \in Counted
  BY DEF Busy, Counted, Tasks
<1>2. QED
  BY <1>1 DEF Tidy

(* An instance that runs registers its ticks for the slot of its plugin.    *)
LEMMA RegisterTidy ==
    ASSUME Always, Tidy, NEW x, x.at \in DOMAIN m.slots, m.slots[x.at].name = x.name,
           m'.slots = m.slots,
           \A u \in m'.ticks : u \in m.ticks \/ (u.idx = x.at /\ u.owner = x.name),
           UNCHANGED <<place, task, adrift, orphans, abandoned>>
    PROVE  Tidy'
<1>1. \A u \in m'.ticks : \/ u.id \in orphans
                          \/ u.idx \in DOMAIN m.slots /\ m.slots[u.idx].name = u.owner
  <2>1. TAKE u \in m'.ticks
  <2>2. CASE u \in m.ticks
    BY <2>2 DEF Tidy
  <2>3. CASE u.idx = x.at /\ u.owner = x.name
    BY <2>3
  <2>4. QED
    BY <2>2, <2>3
<1>2. Filled(m') = Filled(m)
  BY DEF Filled
<1>3. QED
  BY <1>1, <1>2 DEF Tidy, Busy, Here, Counted

(* The instance is back in its slot, or an error was counted.               *)
LEMMA EndsTidy ==
    ASSUME Always, Tidy, NEW t \in Tasks, Busy(t), UNCHANGED <<place, orphans>>,
           abandoned \subseteq abandoned', adrift' \subseteq adrift \union {task[t].inst},
           \E r : task' = [task EXCEPT ![t] = r] /\ r.pc # "exec",
           (place = "slot" /\ Here(t) \in DOMAIN m.slots) =>
                /\ Touched(m, m', Here(t))
                /\ \/ m'.slots[Here(t)].inst = [name |-> m.slots[Here(t)].name, at |-> Here(t)]
                   \/ m'.slots[Here(t)].inst = task[t].inst
                   \/ /\ m'.slots[Here(t)].inst = m.slots[Here(t)].inst
                      /\ m'.slots[Here(t)].lost > 0 \/ Here(t) \in abandoned'
    PROVE  Tidy'
<1> DEFINE i == Here(t)
           y == m'
<1>1. /\ i \in DOMAIN m.slots \ Filled(m)
      /\ task[t].inst = [name |-> m.slots[i].name, at |-> i]
  BY DEF Tidy
<1>2. place = "slot"
  BY BusyMeansSlot
<1>3. m.slots[i].inst = NoInstance
  BY <1>1 DEF Filled
<1>4. /\ Touched(m, y, i)
      /\ \/ y.slots[i].inst = [name |-> m.slots[i].name, at |-> i]
         \/ y.slots[i].inst = NoInstance /\ (y.slots[i].lost > 0 \/ i \in abandoned')
  BY <1>1, <1>2, <1>3
<1> HIDE DEF i, y
<1>5. /\ DOMAIN y.slots = DOMAIN m.slots
      /\ \A j \in DOMAIN m.slots : y.slots[j].name = m.slots[j].name
      /\ \A j \in DOMAIN m.slots \ {i} : y.slots[j] = m.slots[j]
      /\ \A u \in y.ticks :
           u \in m.ticks \/ (i \in DOMAIN m.slots /\ u.idx = i /\ u.owner = m.slots[i].name)
  BY <1>4 DEF Touched
<1>6. PICK r : task' = [task EXCEPT ![t] = r] /\ r.pc # "exec"
  OBVIOUS
<1>7. task'[t] = r /\ \A u \in Tasks \ {t} : task'[u] = task[u]
  BY <1>6 DEF Always
<1>8. /\ \A u \in Tasks \ {t} : Busy(u)' = Busy(u) /\ Here(u)' = Here(u)
      /\ ~Busy(t)'
  BY <1>6, <1>7 DEF Busy, Here
<1>9. \A u \in Tasks \ {t} : Busy(u) => Here(u) # i
  BY DEF Tidy, i
<1>10. \A j \in DOMAIN m.slots \ {i} : j \in Filled(y) <=> j \in Filled(m)
  BY <1>5 DEF Filled
<1>11. \A u \in Tasks : Busy(u)' =>
         /\ Here(u)' \in DOMAIN y.slots \ Filled(y)
         /\ task'[u].inst = [name |-> y.slots[Here(u)'].name, at |-> Here(u)']
  <2>1. ASSUME NEW u \in Tasks, Busy(u)'
        PROVE  /\ Here(u)' \in DOMAIN y.slots \ Filled(y)
               /\ task'[u].inst = [name |-> y.slots[Here(u)'].name, at |-> Here(u)']
    <3>1. u \in Tasks \ {t} /\ Busy(u) /\ Here(u)' = Here(u) /\ task'[u] = task[u]
      BY <1>7, <1>8, <2>1
    <3>2. /\ Here(u) \in DOMAIN m.slots \ Filled(m)
          /\ task[u].inst = [name |-> m.slots[Here(u)].name, at |-> Here(u)]
      BY <3>1 DEF Tidy
    <3>3. Here(u) # i
      BY <1>9, <3>1
    <3>4. QED
      BY <1>5, <1>10, <3>1, <3>2, <3>3
  <2>2. QED
    BY <2>1
<1>12. \A u, w \in Tasks : Busy(u)' /\ Busy(w)' /\ Here(u)' = Here(w)' => u = w
  BY <1>8 DEF Tidy
<1>13. \A j \in DOMAIN y.slots \ Filled(y) :
         \/ \E u \in Tasks : Busy(u)' /\ Here(u)' = j
         \/ y.slots[j].lost > 0 \/ j \in abandoned'
  <2>1. TAKE j \in DOMAIN y.slots \ Filled(y)
  <2>2. CASE j = i
    <3>1. y.slots[i].inst = NoInstance
      BY <2>2 DEF Filled
    <3>2. m.slots[i].name \in Names /\ i \in Position
      BY <1>1, AlwaysFacts, SlotFields
    <3>3. [name |-> m.slots[i].name, at |-> i] \in Instance
      BY <3>2 DEF Instance
    <3>4. [name |-> m.slots[i].name, at |-> i] # NoInstance
      BY <3>3, InstanceAssumption
    <3>5. QED
      BY <1>4, <2>2, <3>1, <3>4
  <2>3. CASE j # i
    <3>1. j \in DOMAIN m.slots \ Filled(m) /\ y.slots[j] = m.slots[j]
      BY <1>5, <1>10, <2>3
    <3>2. \/ \E u \in Tasks : Busy(u) /\ Here(u) = j
          \/ m.slots[j].lost > 0 \/ j \in abandoned
      BY <3>1 DEF Tidy
    <3>3. \A u \in Tasks : Here(u) = j => u # t
      BY <2>3 DEF i
    <3>4. QED
      BY <1>8, <3>1, <3>2, <3>3
  <2>4. QED
    BY <2>2, <2>3
<1>14. Busy(Ticker)' => \/ Head(task'[Ticker].todo).id \in orphans
                        \/ Head(task'[Ticker].todo).owner = task'[Ticker].inst.name
  BY <1>7, <1>8 DEF Tidy, Tasks
<1>15. \A j, k \in DOMAIN y.slots : y.slots[j].name = y.slots[k].name => j = k
  BY <1>5 DEF Tidy
<1>16. \A j \in Filled(y) : y.slots[j].inst = [name |-> y.slots[j].name, at |-> j]
  <2>1. TAKE j \in Filled(y)
  <2>2. CASE j = i
    BY <1>1, <1>4, <1>5, <2>2 DEF Filled
  <2>3. CASE j # i
    <3>1. j \in Filled(m) /\ y.slots[j] = m.slots[j]
      BY <1>5, <1>10, <2>3 DEF Filled
    <3>2. QED
      BY <3>1 DEF Tidy
  <2>4. QED
    BY <2>2, <2>3
<1>17. \A u \in y.ticks : \/ u.id \in orphans
                          \/ u.idx \in DOMAIN y.slots /\ y.slots[u.idx].name = u.owner
  <2>1. TAKE u \in y.ticks
  <2>2. CASE u \in m.ticks
    BY <1>5, <2>2 DEF Tidy
  <2>3. CASE i \in DOMAIN m.slots /\ u.idx = i /\ u.owner = m.slots[i].name
    BY <1>5, <2>3
  <2>4. QED
    BY <1>5, <2>2, <2>3
<1>18. \A x \in adrift' : x.at \in DOMAIN y.slots /\ y.slots[x.at].name = x.name
  <2>1. TAKE x \in adrift'
  <2>2. CASE x \in adrift
    BY <1>5, <2>2 DEF Tidy
  <2>3. CASE x = task[t].inst
    BY <1>1, <1>5, <2>3
  <2>4. QED
    BY <2>2, <2>3
<1>19. QED
  BY <1>2, <1>11, <1>12, <1>13, <1>14, <1>15, <1>16, <1>17, <1>18 DEF Tidy, y

(* Between reloads and while one runs with nothing at work.                 *)
LEMMA TidyIsClean ==
    ASSUME Always, Tidy
    PROVE  Clean(m, orphans \union Orphaned(m))
<1>1. \A i \in Filled(m) : i \in DOMAIN m.slots
  BY DEF Filled
<1>2. ASSUME NEW t \in m.ticks, t.id \notin orphans \union Orphaned(m)
      PROVE  t.idx \in Filled(m) /\ m.slots[t.idx].name = t.owner
  <2>1. t.idx \in DOMAIN m.slots /\ m.slots[t.idx].name = t.owner
    BY <1>2 DEF Tidy
  <2>2. t.idx \in Filled(m)
    BY <1>2 DEF Orphaned
  <2>3. QED
    BY <2>1, <2>2
<1>3. \A i, j \in Filled(m) : m.slots[i].name = m.slots[j].name => i = j
  BY <1>1 DEF Tidy
<1>4. \A i \in Filled(m) : m.slots[i].inst = [name |-> m.slots[i].name, at |-> i]
  BY DEF Tidy
<1>5. QED
  BY <1>2, <1>3, <1>4 DEF Clean

(* A manager all of whose slots have their instance.                        *)
LEMMA FilledIsTidy ==
    ASSUME Always, \A t \in Tasks : ~Busy(t)', place' = "slot",
           Filled(m') = DOMAIN m'.slots, Clean(m', orphans'), adrift' = {}
    PROVE  Tidy'
<1>1. /\ \A i, j \in DOMAIN m'.slots : m'.slots[i].name = m'.slots[j].name => i = j
      /\ \A i \in Filled(m') : m'.slots[i].inst = [name |-> m'.slots[i].name, at |-> i]
      /\ \A t \in m'.ticks : \/ t.id \in orphans'
                             \/ t.idx \in DOMAIN m'.slots /\ m'.slots[t.idx].name = t.owner
  BY DEF Clean
<1>2. ~Busy(Ticker)'
  BY DEF Tasks
<1>3. QED
  BY <1>1, <1>2 DEF Tidy

(* Nothing is at work while the manager is away.                            *)
LEMMA NothingBusy ==
    ASSUME Always, Tidy, place # "slot"
    PROVE  \A t \in Tasks : ~Busy(t)
<1>1. QED
  BY BusyMeansSlot

(* Nothing is at work, so slots may move.                                   *)
LEMMA ReloadTidy ==
    ASSUME Always, Tidy, NEW how \in How, ReloadAll(how)
    PROVE  Tidy'
<1> DEFINE y == ReloadedAll(m, file, how)
           O == orphans \union Orphaned(m)
<1>1. /\ place = "reloading" /\ m' = y /\ place' = "slot" /\ orphans' = O /\ task' = task
      /\ adrift' = {}
  BY DEF ReloadAll, Tidy
<1>2. m \in Manager /\ Whole(m) /\ file \in File /\ how \in Hows
  BY AlwaysFacts DEF Always, How, Hows
<1>3. Clean(m, O)
  BY TidyIsClean
<1> HIDE DEF O
<1>4. Clean(y, O)
  BY <1>2, <1>3, ReloadedAllClean
<1>5. Filled(y) = DOMAIN y.slots
  BY <1>2, ReloadedAllManager
<1> HIDE DEF y
<1>6. \A t \in Tasks : ~Busy(t)'
  BY <1>1, NothingBusy DEF Busy
<1>7. QED
  BY <1>1, <1>4, <1>5, <1>6, FilledIsTidy

(* A new manager after a shutdown that met nothing at work.                 *)
LEMMA NewTidy ==
    ASSUME Always, Tidy, New
    PROVE  Tidy'
<1> DEFINE y == NewManager(file)
<1>1. /\ place = "gone" /\ m' = y /\ place' = "slot" /\ orphans' = orphans /\ task' = task
      /\ adrift' = {}
  BY DEF New, Tidy
<1>2. file \in File
  BY DEF Always
<1>3. Filled(y) = DOMAIN y.slots /\ Clean(y, {})
  BY <1>2, FirstManager
<1> HIDE DEF y
<1>4. Clean(y, orphans)
  BY <1>3 DEF Clean
<1>5. \A t \in Tasks : ~Busy(t)'
  BY <1>1, NothingBusy DEF Busy
<1>6. QED
  BY <1>1, <1>3, <1>4, <1>5, FilledIsTidy

(* A shutdown leaves nothing.                                               *)
LEMMA ShutdownTidy ==
    ASSUME Always, Tidy, Shutdown, ~slipped'
    PROVE  Tidy'
<1>1. /\ m' = Empty /\ task' = [task EXCEPT ![Ticker] = Resting] /\ Counted \ {Ticker} = {}
      /\ adrift' = {}
  BY DEF Shutdown
<1>2. task \in [Tasks -> Task] /\ Ticker \in Tasks /\ Resting.pc = "idle"
  BY RestingFits DEF Always, Tasks
<1>3. task'[Ticker].pc = "idle" /\ \A t \in Tasks \ {Ticker} : task'[t] = task[t]
  BY <1>1, <1>2
<1>4. \A t \in Handlers : task[t].pc = "idle"
  BY <1>1, TickerAssumption DEF Counted
<1>5. \A t \in Handlers : t \in Tasks \ {Ticker}
  BY TickerAssumption DEF Tasks
<1>6. \A t \in Tasks : task'[t].pc = "idle"
  BY <1>3, <1>4, <1>5 DEF Tasks
<1>7. Counted' = {} /\ \A t \in Tasks : ~Busy(t)'
  BY <1>6, <1>2, <1>5 DEF Counted, Busy
<1>8. DOMAIN m'.slots = {} /\ Filled(m') = {} /\ m'.ticks = {}
  BY <1>1, EmptyManager
<1>9. ~Busy(Ticker)'
  BY <1>2, <1>7
<1>10. adrift' = {}
  BY <1>1
<1>11. QED
  BY <1>7, <1>8, <1>9, <1>10 DEF Tidy

(* The manager is taken while nothing is at work.                           *)
LEMMA TakeManagerTidy ==
    ASSUME Always, Tidy, TakeManager, ~slipped'
    PROVE  Tidy'
<1>1. Counted = {} /\ adrift = {} /\ UNCHANGED <<m, task, adrift, orphans, abandoned>>
  BY DEF TakeManager
<1>2. QED
  BY <1>1 DEF Tidy, Counted, Busy, Here

(* Until a reload or shutdown meets an instance at work, every step keeps   *)
(* it tidy.                                                                 *)
LEMMA TidyStep ==
    ASSUME Always, Tidy, [Next]_vars, ~slipped'
    PROVE  Tidy'
<1>1. ASSUME NEW t \in Handlers, Dispatch(t) PROVE Tidy'
  <2>1. PICK r : task' = [task EXCEPT ![t] = r] /\ r.pc # "exec"
    BY <1>1, DispatchAlways
  <2>2. /\ m' = m /\ UNCHANGED <<place, adrift, orphans, abandoned>> /\ t \in Tasks /\ ~Busy(t) /\ place = "slot"
    BY <1>1 DEF Dispatch, History, Tasks, Busy
  <2>3. QED
    BY <2>1, <2>2, QuietTidy
<1>2. ASSUME TickScan PROVE Tidy'
  <2>1. PICK r : task' = [task EXCEPT ![Ticker] = r] /\ r.pc # "exec"
    BY <1>2, TickScanAlways
  <2>2. /\ m' = m /\ UNCHANGED <<place, adrift, orphans, abandoned>> /\ Ticker \in Tasks /\ ~Busy(Ticker)
        /\ Ticker \notin Handlers
    BY <1>2, TickerAssumption DEF TickScan, History, Tasks, Busy
  <2>3. QED
    BY <2>1, <2>2, QuietTidy
<1>3. ASSUME TickBreaks PROVE Tidy'
  <2>1. PICK r : task' = [task EXCEPT ![Ticker] = r] /\ r.pc # "exec"
    BY <1>3, TickBreaksAlways
  <2>2. /\ m' = m /\ UNCHANGED <<place, adrift, orphans, abandoned>> /\ Ticker \in Tasks /\ ~Busy(Ticker)
        /\ Ticker \notin Handlers
    BY <1>3, TickerAssumption DEF TickBreaks, History, Tasks, Busy
  <2>3. QED
    BY <2>1, <2>2, QuietTidy
<1>4. ASSUME NEW t \in Tasks, Take(t) PROVE Tidy'
  <2>1. UNCHANGED <<place, adrift, orphans, abandoned>>
    BY <1>4 DEF Take, History
  <2>2. ASSUME m' = m, task[t].pc = "ask", NEW r, task' = [task EXCEPT ![t] = r], r.pc # "exec"
        PROVE  Tidy'
    <3>1. ~Busy(t)
      BY <2>2 DEF Busy
    <3>2. t \in Handlers => place = "slot"
      BY <2>2 DEF Tidy, Counted
    <3>3. QED
      BY <2>1, <2>2, <3>1, <3>2, QuietTidy
  <2>3. ASSUME task[t].pc = "ask", Takeable(t), Here(t) \in Filled(m),
               task' = [task EXCEPT ![t] = [task[t] EXCEPT !.pc = "exec",
                                              !.inst = m.slots[Here(t)].inst]],
               m' = PutBack(m, Here(t), NoInstance)
        PROVE  Tidy'
    BY <2>1, <2>3, TakeTidy
  <2>4. QED
    BY <1>4, <2>2, <2>3, TakeAlways
<1>5. ASSUME NEW t \in Tasks, Register(t) PROVE Tidy'
  <2>1. /\ Busy(t) /\ m' = Registered(m, task[t].inst)
        /\ UNCHANGED <<file, place, task, adrift, slipped, orphans, abandoned>>
    BY <1>5 DEF Register, History, Busy
  <2>2. task[t].inst \in Instance
    BY <2>1, AlwaysFacts
  <2>3. task[t].inst = [name |-> m.slots[Here(t)].name, at |-> Here(t)] /\ Here(t) \in DOMAIN m.slots
    BY <2>1 DEF Tidy
  <2>4. /\ m'.slots = m.slots
        /\ \A u \in m'.ticks :
             u \in m.ticks \/ (u.idx = task[t].inst.at /\ u.owner = task[t].inst.name)
    BY <2>1, <2>2, RegisteredAlways
  <2>5. task[t].inst.at \in DOMAIN m.slots /\ m.slots[task[t].inst.at].name = task[t].inst.name
    BY <2>3
  <2>6. QED
    BY <2>1, <2>4, <2>5, RegisterTidy
<1>6. ASSUME NEW t \in Tasks, Ends(t) PROVE Tidy'
  BY <1>6, EndsAlways, EndsTidy
<1>7. ASSUME NEW f \in Files, Edit(f) PROVE Tidy'
  <2>1. UNCHANGED <<place, m, task, adrift, orphans, abandoned>>
    BY <1>7 DEF Edit
  <2>2. QED
    BY <2>1 DEF Tidy, Counted, Busy, Here
<1>8. ASSUME TakeManager PROVE Tidy'
  BY <1>8, TakeManagerTidy
<1>9. ASSUME NEW how \in How, ReloadAll(how) PROVE Tidy'
  BY <1>9, ReloadTidy
<1>10. ASSUME Shutdown PROVE Tidy'
  BY <1>10, ShutdownTidy
<1>11. ASSUME New PROVE Tidy'
  BY <1>11, NewTidy
<1>12. ASSUME UNCHANGED vars PROVE Tidy'
  <2>1. UNCHANGED <<place, m, task, adrift, orphans, abandoned>>
    BY <1>12 DEF vars
  <2>2. QED
    BY <2>1 DEF Tidy, Counted, Busy, Here
<1>13. ASSUME NEW t \in Tasks, CommandTimesOut(t) PROVE Tidy'
  <2>1. /\ m' = m /\ UNCHANGED <<place, orphans>> /\ task[t].pc # "idle" /\ t \in Handlers
        /\ task' = [task EXCEPT ![t] = Resting] /\ Resting.pc # "exec"
    BY <1>13, CommandTimesOutAlways, RestingFits
  <2>2. place = "slot"
    BY <2>1 DEF Tidy, Counted
  <2>3. CASE ~Busy(t)
    <3>1. UNCHANGED <<adrift, abandoned>>
      BY <1>13, <2>3, CommandTimesOutAlways
    <3>2. QED
      BY <2>1, <2>2, <2>3, <3>1, QuietTidy
  <2>4. CASE Busy(t)
    <3>1. /\ adrift' \subseteq adrift \union {task[t].inst} /\ abandoned \subseteq abandoned'
          /\ Here(t) \in abandoned'
      BY <1>13, <2>4, CommandTimesOutAlways
    <3>2. Touched(m, m', Here(t))
      BY <2>1, AlwaysFacts DEF Touched
    <3>3. QED
      BY <2>1, <2>4, <3>1, <3>2, EndsTidy
  <2>5. QED
    BY <2>3, <2>4
<1>14. ASSUME NEW x \in adrift, AdriftRegisters(x) PROVE Tidy'
  <2>1. m' = Registered(m, x) /\ UNCHANGED <<file, place, task, adrift, slipped, orphans, abandoned>>
    BY <1>14 DEF AdriftRegisters, History
  <2>2. x \in Instance /\ x.at \in DOMAIN m.slots /\ m.slots[x.at].name = x.name
    BY DEF Always, Tidy
  <2>3. QED
    BY <2>1, <2>2, RegisteredAlways, RegisterTidy
<1>15. ASSUME NEW x \in adrift, AdriftEnds(x) PROVE Tidy'
  <2>1. adrift' \subseteq adrift /\ UNCHANGED <<place, m, task, orphans, abandoned>>
    BY <1>15 DEF AdriftEnds, History
  <2>2. QED
    BY <2>1 DEF Tidy, Counted, Busy, Here
<1>16. QED
  BY <1>1, <1>2, <1>3, <1>4, <1>5, <1>6, <1>7, <1>8, <1>9, <1>10, <1>11, <1>12, <1>13, <1>14,
     <1>15 DEF Next, Ends

(* It is tidy at the start.                                                 *)
LEMMA TidyAtStart == Init => Tidy
<1>1. HAVE Init
<1>2. First \in File
  BY TickerAssumption
<1>3. Filled(m) = DOMAIN m.slots /\ Clean(m, {}) /\ orphans = {} /\ place = "slot"
  BY <1>1, <1>2, FirstManager DEF Init
<1>4. \A t \in Tasks : ~Busy(t)
  BY <1>1 DEF Init, Busy, Resting
<1>5. ~Busy(Ticker)
  BY <1>4 DEF Tasks
<1>6. /\ \A i, j \in DOMAIN m.slots : m.slots[i].name = m.slots[j].name => i = j
      /\ \A i \in Filled(m) : m.slots[i].inst = [name |-> m.slots[i].name, at |-> i]
      /\ \A t \in m.ticks : t.idx \in DOMAIN m.slots /\ m.slots[t.idx].name = t.owner
  BY <1>3 DEF Clean
<1>7. adrift = {}
  BY <1>1 DEF Init
<1>8. QED
  BY <1>3, <1>4, <1>5, <1>6, <1>7 DEF Tidy

(* A slip is never forgotten.                                               *)
LEMMA SlippedStays == ASSUME Always, [Next]_vars, slipped PROVE slipped'
<1>1. QED
  BY DEF Always, Next, vars, Dispatch, TickScan, TickBreaks, Take, Register, Handled, Passed,
         Errs, Vanishes, Done, CommandTimesOut, AdriftRegisters, AdriftEnds, Edit, TakeManager,
         ReloadAll, Shutdown, New, History

(* The inductive invariant: the lists of the manager speak of the right     *)
(* slots whatever happens; and until a reload or a shutdown meets an        *)
(* instance at work, the slots, the ticks and the instances at work agree.  *)
THEOREM SlotsInvariant == Spec => []SlotsInv
<1>1. Init => SlotsInv
  BY AlwaysAtStart, TidyAtStart DEF SlotsInv
<1>2. SlotsInv /\ [Next]_vars => SlotsInv'
  <2>1. SUFFICES ASSUME SlotsInv, [Next]_vars PROVE SlotsInv'
    OBVIOUS
  <2>2. Always'
    BY <2>1, AlwaysStep DEF SlotsInv
  <2>3. ASSUME ~slipped' PROVE Tidy'
    <3>1. ~slipped
      BY <2>1, <2>3, SlippedStays DEF SlotsInv
    <3>2. QED
      BY <2>1, <2>3, <3>1, TidyStep DEF SlotsInv
  <2>4. QED
    BY <2>2, <2>3 DEF SlotsInv
<1>3. QED
  BY <1>1, <1>2, PTL DEF Spec

(* The numbers of slots mean the same in the slots, the command map, the    *)
(* message set, the registered ticks and the instances at work; the command *)
(* map stays in the order of priorities.                                    *)
THEOREM SlotsStayConsistent == Spec => []SlotsAreConsistent
<1>1. SlotsInv => SlotsAreConsistent
  <2>1. SUFFICES ASSUME SlotsInv PROVE SlotsAreConsistent
    OBVIOUS
  <2>2. MapsMatchSlots /\ DispatchByPriority
    BY <2>1 DEF SlotsInv, Always, Whole, Lists, Ordered, MapsMatchSlots, DispatchByPriority
  <2>3. OneSlotPerPlugin /\ TicksPointToOwner
    BY <2>1 DEF SlotsInv, Tidy, OneSlotPerPlugin, TicksPointToOwner
  <2>4. InstanceInOwnSlot
    BY <2>1 DEF SlotsInv, Tidy, InstanceInOwnSlot, Busy, Here
  <2>5. ASSUME ~slipped, NEW i \in DOMAIN m.slots \ Filled(m)
        PROVE  Cardinality(Holders(i)) = 1 \/ m.slots[i].lost > 0 \/ i \in abandoned
    <3>1. Tidy
      BY <2>1, <2>5 DEF SlotsInv
    <3>2. ASSUME NEW t \in Tasks, Busy(t), Here(t) = i PROVE Cardinality(Holders(i)) = 1
      <4>1. \A u \in Tasks : Busy(u) /\ Here(u) = i => u = t
        BY <3>1, <3>2 DEF Tidy
      <4>2. Holders(i) = {t}
        BY <3>2, <4>1 DEF Holders, Busy, Here
      <4>3. QED
        BY <4>2, FS_Singleton
    <3>3. QED
      BY <3>1, <3>2 DEF Tidy
  <2>6. EmptySlotIsExplained
    BY <2>5 DEF EmptySlotIsExplained
  <2>7. QED
    BY <2>2, <2>3, <2>4, <2>6 DEF SlotsAreConsistent
<1>2. QED
  BY <1>1, SlotsInvariant, PTL

(* The tick loop looks a tick up again before it takes the instance, so it  *)
(* runs the plugin that registered it, although slots may have moved.       *)
THEOREM TicksRunTheirOwner == Spec => []TickRunsItsOwner
<1>1. SlotsInv => TickRunsItsOwner
  BY DEF SlotsInv, Tidy, TickRunsItsOwner, Busy
<1>2. QED
  BY <1>1, SlotsInvariant, PTL

(* A reload in which every plugin loads leaves exactly the enabled plugins, *)
(* each with its new setting, unless its reloads failed too often before.   *)
THEOREM ReloadsRunTheFile == Spec => ReloadRunsTheFile
<1>1. SlotsInv /\ [Next]_vars =>
        [(~slipped /\ ReloadAll([n \in Names |-> "ok"])) =>
           \A n \in Names : Exhausted(n) \/ Runs(m', n) = {file[n]} \ {Off}]_vars
  <2>1. SUFFICES ASSUME SlotsInv, ReloadAll([k \in Names |-> "ok"]), ~slipped,
                        NEW n \in Names, ~Exhausted(n)
                 PROVE  Runs(m', n) = {file[n]} \ {Off}
    OBVIOUS
  <2> DEFINE how == [k \in Names |-> "ok"]
             O == orphans \union Orphaned(m)
  <2>2. how \in Hows /\ how[n] = "ok"
    BY DEF Hows
  <2>3. m \in Manager /\ Whole(m) /\ file \in File
    BY <2>1, AlwaysFacts DEF SlotsInv, Always
  <2>4. Clean(m, O)
    BY <2>1, TidyIsClean DEF SlotsInv
  <2>5. m' = ReloadedAll(m, file, how)
    BY <2>1 DEF ReloadAll
  <2>6. \A i \in Filled(m) : m.slots[i].name = n => ~(m.slots[i].fails >= ReloadThreshold)
    BY <2>1 DEF Exhausted
  <2> HIDE DEF how, O
  <2>7. Runs(ReloadedAll(m, file, how), n) = {file[n]} \ {Off}
    BY <2>2, <2>3, <2>4, <2>6, ReloadedAllRuns
  <2>8. QED
    BY <2>5, <2>7
<1>2. QED
  BY <1>1, SlotsInvariant, PTL DEF Spec, ReloadRunsTheFile
==============================================================================
