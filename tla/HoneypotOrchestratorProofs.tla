---------------------- MODULE HoneypotOrchestratorProofs ----------------------
(***************************************************************************)
(* Proofs about HoneypotOrchestrator for any ids, callers and limits: its  *)
(* bounds, that a destruction is reported once, what becomes of objects    *)
(* callers hold and of counters, and that it implements LruRegistry.       *)
(***************************************************************************)
EXTENDS HoneypotOrchestrator, SequenceTheorems, FiniteSetTheorems, TLAPS

-----------------------------------------------------------------------------
(* Sequences as an order of their elements *)

Elements(s) == {s[k] : k \in 1..Len(s)}

Injective(s) == \A j, k \in 1..Len(s) : s[j] = s[k] => j = k

\* <<a, b>> is in it if s has a before b.
Precedence(s) == {pair \in Elements(s) \X Elements(s) :
                    \E j, k \in 1..Len(s) : j < k /\ pair = <<s[j], s[k]>>}

Without(rel, x) == {pair \in rel : pair[1] # x /\ pair[2] # x}

\* What is left of s when its n-th element is taken out.
IsRest(t, s, n) ==
  /\ Len(t) = Len(s) - 1
  /\ \A k \in 1..Len(t) : t[k] = IF k < n THEN s[k] ELSE s[k + 1]

LEMMA RemoveAtIsRest ==
  ASSUME NEW S, NEW s \in Seq(S), NEW n \in 1..Len(s)
  PROVE  RemoveAt(s, n) \in Seq(S) /\ IsRest(RemoveAt(s, n), s, n)
<1>. DEFINE a == SubSeq(s, 1, n - 1)
            b == SubSeq(s, n + 1, Len(s))
<1>1. Len(s) \in Nat /\ n \in Nat /\ \A k \in 1..Len(s) : s[k] \in S
  BY ElementOfSeq
<1>2. /\ a \in Seq(S) /\ Len(a) = n - 1
      /\ \A k \in 1..n - 1 : a[k] = s[k]
  BY <1>1, SubSeqProperties
<1>3. /\ b \in Seq(S) /\ Len(b) = Len(s) - n
      /\ \A k \in 1..Len(s) - n : b[k] = s[n + k]
  <2>1. n + 1 \in Int /\ Len(s) \in Int /\ \A k \in n + 1..Len(s) : s[k] \in S
    BY <1>1
  <2>2. /\ b \in Seq(S) /\ Len(b) = IF n + 1 <= Len(s) THEN Len(s) - (n + 1) + 1 ELSE 0
        /\ \A k \in 1..Len(s) - (n + 1) + 1 : b[k] = s[(n + 1) + k - 1]
    BY <2>1, SubSeqProperties
  <2>. QED BY <1>1, <2>2
<1>. HIDE DEF a, b
<1>4. /\ a \o b \in Seq(S) /\ Len(a \o b) = Len(s) - 1
      /\ \A k \in 1..Len(s) - 1 :
           (a \o b)[k] = IF k <= n - 1 THEN a[k] ELSE b[k - (n - 1)]
  BY <1>1, <1>2, <1>3, ConcatProperties
<1>5. ASSUME NEW k \in 1..Len(s) - 1
      PROVE  (a \o b)[k] = IF k < n THEN s[k] ELSE s[k + 1]
  <2>1. CASE k <= n - 1
    BY <1>1, <1>2, <1>4, <2>1
  <2>2. CASE k > n - 1
    <3>1. k - (n - 1) \in 1..Len(s) - n /\ n + (k - (n - 1)) = k + 1
      BY <1>1, <2>2
    <3>2. b[k - (n - 1)] = s[k + 1]
      BY <1>3, <3>1
    <3>. QED BY <1>1, <1>4, <2>2, <3>2
  <2>3. k <= n - 1 \/ k > n - 1
    BY <1>1
  <2>. QED BY <2>1, <2>2, <2>3
<1>6. RemoveAt(s, n) = a \o b
  BY DEF RemoveAt, a, b
<1>. QED BY <1>4, <1>5, <1>6 DEF IsRest

LEMMA TailIsRest ==
  ASSUME NEW S, NEW s \in Seq(S), s # <<>>
  PROVE  /\ Tail(s) \in Seq(S) /\ IsRest(Tail(s), s, 1)
         /\ 1 \in 1..Len(s) /\ Head(s) = s[1]
BY DEF IsRest

\* Taking an element out takes it out of the set and of the order.
LEMMA RestDoes ==
  ASSUME NEW S, NEW s \in Seq(S), Injective(s), NEW n \in 1..Len(s),
         NEW t \in Seq(S), IsRest(t, s, n)
  PROVE  /\ Elements(t) = Elements(s) \ {s[n]}
         /\ Injective(t)
         /\ Precedence(t) = Without(Precedence(s), s[n])
<1>. DEFINE up(k) == IF k < n THEN k ELSE k + 1
            down(k) == IF k < n THEN k ELSE k - 1
<1>1. Len(s) \in Nat /\ Len(t) = Len(s) - 1 /\ n \in Nat
  BY DEF IsRest
<1>2. \A k \in 1..Len(t) : up(k) \in 1..Len(s) /\ up(k) # n /\ t[k] = s[up(k)]
  BY <1>1 DEF IsRest
<1>3. \A k \in 1..Len(s) : k # n => down(k) \in 1..Len(t) /\ up(down(k)) = k
  BY <1>1
<1>4. \A j, k \in 1..Len(t) : (up(j) = up(k) => j = k) /\ (j < k <=> up(j) < up(k))
  BY <1>1
<1>. HIDE DEF up, down
<1>5. \A k \in 1..Len(s) : k # n => t[down(k)] = s[k]
  BY <1>2, <1>3
<1>6. \A k \in 1..Len(s) : k # n => s[k] # s[n]
  BY DEF Injective
<1>7. Elements(t) = Elements(s) \ {s[n]}
  <2>1. ASSUME NEW x \in Elements(t) PROVE x \in Elements(s) \ {s[n]}
    <3>1. PICK k \in 1..Len(t) : x = t[k]
      BY DEF Elements
    <3>. QED BY <1>2, <1>6, <3>1 DEF Elements
  <2>2. ASSUME NEW x \in Elements(s), x # s[n] PROVE x \in Elements(t)
    <3>1. PICK k \in 1..Len(s) : x = s[k]
      BY DEF Elements
    <3>2. k # n
      BY <2>2, <3>1
    <3>. QED BY <1>3, <1>5, <3>1, <3>2 DEF Elements
  <2>. QED BY <2>1, <2>2
<1>8. Injective(t)
  BY <1>2, <1>4 DEF Injective
<1>9. ASSUME NEW x, NEW y
      PROVE  <<x, y>> \in Precedence(t) <=> <<x, y>> \in Without(Precedence(s), s[n])
  <2>1. ASSUME <<x, y>> \in Precedence(t)
        PROVE  <<x, y>> \in Precedence(s) /\ x # s[n] /\ y # s[n]
    <3>1. PICK j \in 1..Len(t), k \in 1..Len(t) : j < k /\ x = t[j] /\ y = t[k]
      BY <2>1 DEF Precedence
    <3>2. /\ up(j) \in 1..Len(s) /\ up(k) \in 1..Len(s) /\ up(j) < up(k)
          /\ x = s[up(j)] /\ y = s[up(k)] /\ x # s[n] /\ y # s[n]
      BY <1>2, <1>4, <1>6, <3>1
    <3>. QED BY <3>2 DEF Precedence, Elements
  <2>2. ASSUME <<x, y>> \in Precedence(s), x # s[n], y # s[n]
        PROVE  <<x, y>> \in Precedence(t)
    <3>1. PICK j \in 1..Len(s), k \in 1..Len(s) : j < k /\ x = s[j] /\ y = s[k]
      BY <2>2 DEF Precedence
    <3>2. j # n /\ k # n
      BY <2>2, <3>1
    <3>3. /\ down(j) \in 1..Len(t) /\ down(k) \in 1..Len(t)
          /\ up(down(j)) = j /\ up(down(k)) = k
          /\ t[down(j)] = x /\ t[down(k)] = y
      BY <1>3, <1>5, <3>1, <3>2
    <3>4. down(j) < down(k)
      BY <1>4, <3>1, <3>3
    <3>. QED BY <3>3, <3>4 DEF Precedence, Elements
  <2>. QED BY <2>1, <2>2 DEF Without
<1>10. \A pair \in Precedence(t) \cup Without(Precedence(s), s[n]) : pair = <<pair[1], pair[2]>>
  BY DEF Precedence, Without
<1>11. Precedence(t) = Without(Precedence(s), s[n])
  BY <1>9, <1>10
<1>. QED BY <1>7, <1>8, <1>11

\* A new element comes after all others.
LEMMA AppendDoes ==
  ASSUME NEW S, NEW s \in Seq(S), Injective(s), NEW x \in S \ Elements(s)
  PROVE  /\ Append(s, x) \in Seq(S) /\ Len(Append(s, x)) = Len(s) + 1
         /\ Elements(Append(s, x)) = Elements(s) \cup {x}
         /\ Injective(Append(s, x))
         /\ Precedence(Append(s, x)) = Precedence(s) \cup (Elements(s) \X {x})
<1>. DEFINE t == Append(s, x)
<1>1. /\ t \in Seq(S) /\ Len(t) = Len(s) + 1
      /\ \A k \in 1..Len(s) : t[k] = s[k]
      /\ t[Len(s) + 1] = x
  BY AppendProperties
<1>. HIDE DEF t
<1>2. Len(s) \in Nat
  OBVIOUS
<1>3. /\ \A k \in 1..Len(t) : k \in 1..Len(s) \/ k = Len(s) + 1
      /\ \A k \in 1..Len(s) : k \in 1..Len(t) /\ k < Len(s) + 1
      /\ Len(s) + 1 \in 1..Len(t)
  BY <1>1, <1>2
<1>4. \A k \in 1..Len(s) : s[k] # x
  BY DEF Elements
<1>5. Elements(t) = Elements(s) \cup {x}
  BY <1>1, <1>3 DEF Elements
<1>6. Injective(t)
  BY <1>1, <1>3, <1>4 DEF Injective
<1>7. ASSUME NEW a, NEW b
      PROVE  <<a, b>> \in Precedence(t) <=>
               <<a, b>> \in Precedence(s) \cup (Elements(s) \X {x})
  <2>1. ASSUME <<a, b>> \in Precedence(t)
        PROVE  <<a, b>> \in Precedence(s) \cup (Elements(s) \X {x})
    <3>1. PICK j \in 1..Len(t), k \in 1..Len(t) : j < k /\ a = t[j] /\ b = t[k]
      BY <2>1 DEF Precedence
    <3>2. j \in 1..Len(s)
      BY <1>1, <1>2, <3>1
    <3>3. CASE k \in 1..Len(s)
      BY <1>1, <3>1, <3>2, <3>3 DEF Precedence, Elements
    <3>4. CASE k = Len(s) + 1
      BY <1>1, <3>1, <3>2, <3>4 DEF Elements
    <3>. QED BY <1>3, <3>3, <3>4
  <2>2. ASSUME <<a, b>> \in Precedence(s)
        PROVE  <<a, b>> \in Precedence(t)
    <3>1. PICK j \in 1..Len(s), k \in 1..Len(s) : j < k /\ a = s[j] /\ b = s[k]
      BY <2>2 DEF Precedence
    <3>2. j \in 1..Len(t) /\ k \in 1..Len(t) /\ a = t[j] /\ b = t[k]
      BY <1>1, <1>3, <3>1
    <3>. QED BY <3>1, <3>2 DEF Precedence, Elements
  <2>3. ASSUME a \in Elements(s), b = x
        PROVE  <<a, b>> \in Precedence(t)
    <3>1. PICK j \in 1..Len(s) : a = s[j]
      BY <2>3 DEF Elements
    <3>2. /\ j \in 1..Len(t) /\ Len(s) + 1 \in 1..Len(t) /\ j < Len(s) + 1
          /\ a = t[j] /\ b = t[Len(s) + 1]
      BY <1>1, <1>3, <2>3, <3>1
    <3>. QED BY <3>2 DEF Precedence, Elements
  <2>. QED BY <2>1, <2>2, <2>3
<1>8. \A pair \in Precedence(t) \cup Precedence(s) \cup (Elements(s) \X {x}) :
        pair = <<pair[1], pair[2]>>
  BY DEF Precedence
<1>9. Precedence(t) = Precedence(s) \cup (Elements(s) \X {x})
  BY <1>7, <1>8
<1>. QED BY <1>1, <1>5, <1>6, <1>9 DEF t

-----------------------------------------------------------------------------
(* The dictionary *)

OrderInv ==
  /\ order \in Seq(Ids) /\ Len(order) <= MaxInstances
  /\ Injective(order)
  /\ IsFiniteSet(Registered) /\ Cardinality(Registered) = Len(order)

LEMMA AsSequence ==
  ASSUME order \in Seq(Ids)
  PROVE  /\ Registered = Elements(order) /\ Older = Precedence(order)
         /\ Registered \subseteq Ids /\ DOMAIN order = 1..Len(order)
<1>1. DOMAIN order = 1..Len(order) /\ \A k \in 1..Len(order) : order[k] \in Ids
  BY LenProperties, ElementOfSeq
<1>2. Registered = Elements(order)
  BY <1>1 DEF Registered, Elements
<1>. QED BY <1>1, <1>2 DEF Registered, Older, Precedence

LEMMA RestsOf ==
  ASSUME order \in Seq(Ids), Injective(order)
  PROVE  \A n \in 1..Len(order), t \in Seq(Ids) : IsRest(t, order, n) =>
           /\ Elements(t) = Elements(order) \ {order[n]}
           /\ Injective(t)
           /\ Precedence(t) = Without(Precedence(order), order[n])
BY RestDoes

LEMMA OthersDoes ==
  ASSUME OrderInv, NEW i \in Registered
  PROVE  /\ Others(i) \in Seq(Ids) /\ Len(Others(i)) = Len(order) - 1
         /\ Injective(Others(i)) /\ Elements(Others(i)) = Registered \ {i}
         /\ Precedence(Others(i)) = Without(Older, i)
<1>1. order \in Seq(Ids) /\ Injective(order)
  BY DEF OrderInv
<1>2. Position(i) \in 1..Len(order) /\ order[Position(i)] = i
  BY <1>1, AsSequence DEF Position, Registered
<1>3. Others(i) = RemoveAt(order, Position(i))
  BY DEF Others
<1>4. Others(i) \in Seq(Ids) /\ IsRest(Others(i), order, Position(i))
  BY <1>1, <1>2, <1>3, RemoveAtIsRest
<1>5. /\ Elements(Others(i)) = Elements(order) \ {i} /\ Injective(Others(i))
      /\ Precedence(Others(i)) = Without(Precedence(order), i)
  BY <1>1, <1>2, <1>4, RestsOf
<1>6. Len(Others(i)) = Len(order) - 1
  BY <1>4 DEF IsRest
<1>. QED BY <1>1, <1>4, <1>5, <1>6, AsSequence, Zenon

\* What is left when the least recently touched id is evicted.
LEMMA EvictionDoes ==
  ASSUME OrderInv, order # <<>>
  PROVE  /\ Tail(order) \in Seq(Ids) /\ Len(Tail(order)) = Len(order) - 1
         /\ Injective(Tail(order)) /\ Elements(Tail(order)) = Registered \ {Head(order)}
         /\ Precedence(Tail(order)) = Without(Older, Head(order))
         /\ Head(order) \in Registered
         /\ \A w \in Registered \ {Head(order)} : <<Head(order), w>> \in Older
<1>1. order \in Seq(Ids) /\ Injective(order)
  BY DEF OrderInv
<1>2. /\ Tail(order) \in Seq(Ids) /\ IsRest(Tail(order), order, 1)
      /\ 1 \in 1..Len(order) /\ Head(order) = order[1]
  BY <1>1, TailIsRest
<1>3. \A w \in Registered \ {Head(order)} : <<Head(order), w>> \in Older
  <2>. SUFFICES ASSUME NEW w \in Registered, w # Head(order)
                PROVE  <<Head(order), w>> \in Older
    OBVIOUS
  <2>1. PICK k \in 1..Len(order) : w = order[k]
    BY <1>1, AsSequence DEF Registered
  <2>2. 1 < k
    BY <1>1, <1>2, <2>1
  <2>3. 1 \in DOMAIN order /\ k \in DOMAIN order /\ order[1] \in Registered
    BY <1>1, <1>2, AsSequence DEF Registered
  <2>. QED BY <1>2, <2>1, <2>2, <2>3 DEF Older
<1>4. /\ Elements(Tail(order)) = Elements(order) \ {Head(order)} /\ Injective(Tail(order))
      /\ Precedence(Tail(order)) = Without(Precedence(order), Head(order))
  BY <1>1, <1>2, RestsOf
<1>5. Len(Tail(order)) = Len(order) - 1 /\ Head(order) \in Registered
  BY <1>1, <1>2, AsSequence DEF IsRest, Registered
<1>. QED BY <1>1, <1>2, <1>3, <1>4, <1>5, AsSequence, Zenon

LEMMA TouchedDoes ==
  ASSUME OrderInv, NEW i \in Registered
  PROVE  /\ Touched(i) \in Seq(Ids) /\ Len(Touched(i)) = Len(order)
         /\ Injective(Touched(i)) /\ Elements(Touched(i)) = Registered
         /\ Precedence(Touched(i)) = Without(Older, i) \cup ((Registered \ {i}) \X {i})
<1>. DEFINE t == Others(i)
<1>1. /\ t \in Seq(Ids) /\ Len(t) = Len(order) - 1 /\ Injective(t)
      /\ Elements(t) = Registered \ {i} /\ Precedence(t) = Without(Older, i)
  BY OthersDoes
<1>2. Touched(i) = Append(t, i) /\ i \in Ids /\ Len(order) \in Nat
  BY AsSequence DEF Touched, OrderInv
<1>. HIDE DEF t
<1>3. /\ Append(t, i) \in Seq(Ids) /\ Len(Append(t, i)) = Len(t) + 1
      /\ Elements(Append(t, i)) = Elements(t) \cup {i} /\ Injective(Append(t, i))
      /\ Precedence(Append(t, i)) = Precedence(t) \cup (Elements(t) \X {i})
  BY <1>1, <1>2, AppendDoes
<1>. QED BY <1>1, <1>2, <1>3

\* What the dictionary becomes, in the terms of LruRegistry.
LEMMA NextAsSequence ==
  ASSUME order' \in Seq(Ids)
  PROVE  Registered' = Elements(order') /\ Older' = Precedence(order')
<1>1. DOMAIN order' = 1..Len(order')
  BY LenProperties
<1>2. Registered' = Elements(order')
  BY <1>1 DEF Registered, Elements
<1>. QED BY <1>1, <1>2 DEF Older, Precedence

LEMMA TouchDoes ==
  ASSUME OrderInv, NEW i \in Registered, Touch(i)
  PROVE  /\ OrderInv' /\ Registered' = Registered /\ latest' = {i}
         /\ Older' = Without(Older, i) \cup ((Registered \ {i}) \X {i})
<1>1. order' = Touched(i) /\ latest' = {i}
  BY DEF Touch
<1>2. /\ order' \in Seq(Ids) /\ Len(order') = Len(order)
      /\ Injective(order') /\ Elements(order') = Registered
      /\ Precedence(order') = Without(Older, i) \cup ((Registered \ {i}) \X {i})
  BY <1>1, TouchedDoes
<1>3. Registered' = Registered /\ Older' = Precedence(order')
  BY <1>2, NextAsSequence
<1>. QED BY <1>1, <1>2, <1>3 DEF OrderInv

LEMMA DestroyDoes ==
  ASSUME OrderInv, NEW i \in Registered, order' = Others(i)
  PROVE  /\ OrderInv' /\ Registered' = Registered \ {i}
         /\ Older' = Without(Older, i)
<1>1. /\ order' \in Seq(Ids) /\ Len(order') = Len(order) - 1
      /\ Injective(order') /\ Elements(order') = Registered \ {i}
      /\ Precedence(order') = Without(Older, i)
  BY OthersDoes
<1>2. Registered' = Registered \ {i} /\ Older' = Precedence(order')
  BY <1>1, NextAsSequence
<1>3. Len(order) \in Nat /\ Len(order) <= MaxInstances /\ IsFiniteSet(Registered)
      /\ Cardinality(Registered) = Len(order)
  BY DEF OrderInv
<1>4. IsFiniteSet(Registered \ {i}) /\ Cardinality(Registered \ {i}) = Len(order) - 1
  BY <1>3, FS_RemoveElement
<1>. QED BY <1>1, <1>2, <1>3, <1>4, LimitAssumption DEF OrderInv

\* The ids that stay when create_instance makes room.
Staying == IF Full THEN Registered \ {Head(order)} ELSE Registered

LEMMA CreateDoes ==
  ASSUME OrderInv, NEW i \in Ids \ Registered, Create(i)
  PROVE  /\ OrderInv' /\ Registered' = Staying \cup {i}
         /\ Full => /\ Len(order) = MaxInstances /\ Head(order) \in Registered
                    /\ \A w \in Registered \ {Head(order)} : <<Head(order), w>> \in Older
         /\ Older' = (IF Full THEN Without(Older, Head(order)) ELSE Older) \cup (Staying \X {i})
<1>. DEFINE room == IF Full THEN Tail(order) ELSE order
            rest == IF Full THEN Without(Older, Head(order)) ELSE Older
<1>1. /\ order \in Seq(Ids) /\ Injective(order) /\ Len(order) \in Nat
      /\ Len(order) <= MaxInstances
      /\ IsFiniteSet(Registered) /\ Cardinality(Registered) = Len(order)
      /\ MaxInstances \in Nat \ {0}
  BY LimitAssumption DEF OrderInv
<1>2. ASSUME Full
      PROVE  /\ Len(order) = MaxInstances /\ order # <<>>
             /\ Cardinality(Registered \ {Head(order)}) = Len(order) - 1
             /\ IsFiniteSet(Registered \ {Head(order)})
  <2>1. Len(order) = MaxInstances
    BY <1>1, <1>2 DEF Full
  <2>2. order # <<>>
    BY <1>1, <2>1, EmptySeq
  <2>. QED BY <1>1, <2>1, <2>2, EvictionDoes, FS_RemoveElement
<1>3. /\ room \in Seq(Ids) /\ Injective(room) /\ Len(room) \in Nat
      /\ Elements(room) = Staying /\ Precedence(room) = rest
      /\ Len(room) < MaxInstances
      /\ IsFiniteSet(Staying) /\ Cardinality(Staying) = Len(room)
  <2>1. CASE Full
    BY <1>1, <1>2, <2>1, EvictionDoes DEF Staying
  <2>2. CASE ~Full
    BY <1>1, <2>2, AsSequence DEF Staying, Full
  <2>. QED BY <2>1, <2>2
<1>4. order' = Append(room, i) /\ i \notin Staying
  BY DEF Create, Staying
<1>. HIDE DEF room, rest
<1>5. /\ order' \in Seq(Ids) /\ Len(order') = Len(room) + 1
      /\ Elements(order') = Staying \cup {i} /\ Injective(order')
      /\ Precedence(order') = rest \cup (Staying \X {i})
  BY <1>3, <1>4, AppendDoes
<1>6. Registered' = Staying \cup {i} /\ Older' = Precedence(order')
  BY <1>5, NextAsSequence
<1>7. IsFiniteSet(Staying \cup {i}) /\ Cardinality(Staying \cup {i}) = Len(room) + 1
  BY <1>3, <1>4, FS_AddElement
<1>8. OrderInv'
  BY <1>1, <1>3, <1>5, <1>6, <1>7 DEF OrderInv
<1>. QED BY <1>2, <1>5, <1>6, <1>8, EvictionDoes DEF rest

-----------------------------------------------------------------------------
(* The invariant *)

\* What is registered is active and has a counter; what has left was
\* destroyed once or evicted once, and what a call found was created.
Fates ==
  /\ \A i \in Registered :
       status[i] = "active" /\ destroyed[i] = 0 /\ i \notin evicted /\ counts[i] # NoCount
  /\ \A i \in Ids \ Registered :
       /\ counts[i] # NoCount => i \in strangers
       /\ \/ status[i] = "unborn" /\ destroyed[i] = 0 /\ i \notin evicted
          \/ status[i] = "active" /\ destroyed[i] = 0 /\ i \in evicted
          \/ status[i] = "destroyed" /\ destroyed[i] = 1 /\ i \notin evicted
  /\ \A c \in Callers : call[c] # NoCall => status[call[c].id] # "unborn"

RegistryInv == TypeOK /\ OrderInv /\ Fates

LEMMA RegistryInvInit == Init => RegistryInv
<1>. SUFFICES ASSUME Init PROVE RegistryInv
  OBVIOUS
<1>1. order = <<>> /\ order \in Seq(Ids) /\ Len(order) = 0
  BY EmptySeq DEF Init
<1>2. Registered = {}
  BY <1>1, AsSequence DEF Elements
<1>3. OrderInv
  BY <1>1, <1>2, FS_EmptySet, LimitAssumption DEF OrderInv, Injective
<1>4. TypeOK
  BY <1>1, LimitAssumption DEF Init, TypeOK
<1>5. Fates
  BY <1>2, LimitAssumption DEF Init, Fates
<1>. QED BY <1>3, <1>4, <1>5 DEF RegistryInv

LEMMA CreateKeeps ==
  ASSUME RegistryInv, NEW i \in Ids, Create(i)
  PROVE  RegistryInv'
<1>1. TypeOK /\ OrderInv /\ Fates /\ Registered \subseteq Ids
  BY AsSequence DEF RegistryInv, OrderInv
<1>2. i \notin Registered /\ destroyed[i] = 0 /\ i \notin evicted
  BY <1>1 DEF Create, Fates
<1>3. /\ OrderInv' /\ Registered' = Staying \cup {i}
      /\ Full => Head(order) \in Registered
  BY <1>1, <1>2, CreateDoes
<1>4. /\ status' = [status EXCEPT ![i] = "active"]
      /\ latest' = {i} /\ UNCHANGED <<call, destroyed, strangers>>
  BY DEF Create
<1>5. /\ evicted' = IF Full THEN evicted \cup {Head(order)} ELSE evicted
      /\ counts' = [(IF Full THEN [counts EXCEPT ![Head(order)] = NoCount] ELSE counts)
                      EXCEPT ![i] = 0]
  BY DEF Create, Popped
<1>6. /\ counts' \in [Ids -> 0..MaxInteractions \cup {NoCount}]
      /\ counts'[i] = 0
      /\ \A j \in Ids \ {i} : counts'[j] = IF Full /\ j = Head(order) THEN NoCount ELSE counts[j]
  <2>1. counts \in [Ids -> 0..MaxInteractions \cup {NoCount}] /\ 0 \in 0..MaxInteractions
    BY <1>1, LimitAssumption DEF TypeOK
  <2>2. CASE Full
    BY <1>1, <1>3, <1>5, <2>1, <2>2
  <2>3. CASE ~Full
    BY <1>5, <2>1, <2>3
  <2>. QED BY <2>2, <2>3
<1>7. TypeOK'
  BY <1>1, <1>3, <1>4, <1>5, <1>6 DEF TypeOK, OrderInv
<1>8. /\ status'[i] = "active" /\ \A j \in Ids \ {i} : status'[j] = status[j]
  BY <1>1, <1>4 DEF TypeOK
<1>9. \A j \in Registered' :
        status'[j] = "active" /\ destroyed'[j] = 0 /\ j \notin evicted' /\ counts'[j] # NoCount
  <2>1. 0 # NoCount
    BY LimitAssumption
  <2>2. i \notin evicted' /\ destroyed'[i] = 0
    BY <1>2, <1>3, <1>4, <1>5
  <2>3. ASSUME NEW j \in Staying
        PROVE  status'[j] = "active" /\ destroyed'[j] = 0 /\ j \notin evicted' /\ counts'[j] # NoCount
    <3>1. j \in Registered /\ j \in Ids \ {i} /\ (Full => j # Head(order))
      BY <1>1, <1>2 DEF Staying
    <3>. QED BY <1>1, <1>4, <1>5, <1>6, <1>8, <3>1 DEF Fates
  <2>. QED BY <1>3, <1>6, <1>8, <2>1, <2>2, <2>3
<1>10. ASSUME NEW j \in Ids \ Registered'
       PROVE  /\ counts'[j] # NoCount => j \in strangers'
              /\ \/ status'[j] = "unborn" /\ destroyed'[j] = 0 /\ j \notin evicted'
                 \/ status'[j] = "active" /\ destroyed'[j] = 0 /\ j \in evicted'
                 \/ status'[j] = "destroyed" /\ destroyed'[j] = 1 /\ j \notin evicted'
  <2>1. j \in Ids \ {i}
    BY <1>3
  <2>2. CASE j \in Registered
    <3>1. Full /\ j = Head(order)
      BY <1>3, <2>2 DEF Staying
    <3>. QED BY <1>1, <1>4, <1>5, <1>6, <1>8, <2>1, <2>2, <3>1 DEF Fates
  <2>3. CASE j \notin Registered
    <3>1. ~(Full /\ j = Head(order))
      BY <1>3, <2>3
    <3>. QED BY <1>1, <1>4, <1>5, <1>6, <1>8, <2>1, <2>3, <3>1 DEF Fates
  <2>. QED BY <2>2, <2>3
<1>11. \A c \in Callers : call'[c] # NoCall => status'[call'[c].id] # "unborn"
  BY <1>1, <1>4 DEF Fates, TypeOK
<1>12. Fates'
  BY <1>9, <1>10, <1>11 DEF Fates
<1>. QED BY <1>3, <1>7, <1>12 DEF RegistryInv

LEMMA PresentType == ASSUME NEW i \in Ids PROVE Present(i) \in BOOLEAN
BY DEF Present

LEMMA DestroyKeeps ==
  ASSUME RegistryInv, NEW c \in Callers, NEW i \in Ids, BeginDestroy(c, i)
  PROVE  RegistryInv'
<1>1. TypeOK /\ OrderInv /\ Fates /\ Registered \subseteq Ids
  BY AsSequence DEF RegistryInv, OrderInv
<1>2. call' = [call EXCEPT ![c] = [op |-> "destroy", id |-> i, existed |-> Present(i)]]
  BY DEF BeginDestroy
<1>3. status[i] # "unborn" /\ UNCHANGED <<evicted, strangers, latest>>
  BY DEF BeginDestroy
<1>4. /\ call' \in [Callers -> {NoCall} \cup
                      [op : {"get", "destroy"}, id : Ids, existed : BOOLEAN]]
      /\ call'[c].id = i /\ \A d \in Callers \ {c} : call'[d] = call[d]
  BY <1>1, <1>2, PresentType DEF TypeOK
<1>5. CASE i \in Registered
  <2>1. /\ status' = [status EXCEPT ![i] = "destroyed"]
        /\ order' = Others(i)
        /\ counts' = [counts EXCEPT ![i] = NoCount]
        /\ destroyed' = [destroyed EXCEPT ![i] = @ + 1]
    BY <1>5 DEF BeginDestroy, Present, Marked, Popped
  <2>2. OrderInv' /\ Registered' = Registered \ {i}
    BY <1>1, <1>5, <2>1, DestroyDoes
  <2>3. TypeOK'
    BY <1>1, <1>3, <1>4, <2>1, <2>2 DEF TypeOK, OrderInv
  <2>4. /\ status'[i] = "destroyed" /\ destroyed'[i] = destroyed[i] + 1 /\ counts'[i] = NoCount
        /\ \A j \in Ids \ {i} : status'[j] = status[j] /\ destroyed'[j] = destroyed[j]
                                /\ counts'[j] = counts[j]
    BY <1>1, <2>1 DEF TypeOK
  <2>5. destroyed[i] = 0 /\ i \notin evicted
    BY <1>1, <1>5 DEF Fates
  <2>6. \A j \in Registered' :
          status'[j] = "active" /\ destroyed'[j] = 0 /\ j \notin evicted' /\ counts'[j] # NoCount
    BY <1>1, <1>3, <2>2, <2>4 DEF Fates
  <2>7. ASSUME NEW j \in Ids \ Registered'
        PROVE  /\ counts'[j] # NoCount => j \in strangers'
               /\ \/ status'[j] = "unborn" /\ destroyed'[j] = 0 /\ j \notin evicted'
                  \/ status'[j] = "active" /\ destroyed'[j] = 0 /\ j \in evicted'
                  \/ status'[j] = "destroyed" /\ destroyed'[j] = 1 /\ j \notin evicted'
    <3>1. CASE j = i
      BY <1>3, <2>4, <2>5, <3>1
    <3>2. CASE j # i
      BY <1>1, <1>3, <2>2, <2>4, <3>2 DEF Fates
    <3>. QED BY <3>1, <3>2
  <2>8. \A d \in Callers : call'[d] # NoCall => status'[call'[d].id] # "unborn"
    <3>1. \A d \in Callers : call'[d] # NoCall => call'[d].id \in Ids
      BY <1>4 DEF NoCall
    <3>2. \A d \in Callers \ {c} : call'[d] # NoCall => status[call'[d].id] # "unborn"
      BY <1>1, <1>4 DEF Fates
    <3>. QED BY <1>4, <2>4, <3>1, <3>2
  <2>9. Fates'
    BY <2>6, <2>7, <2>8 DEF Fates
  <2>. QED BY <2>2, <2>3, <2>9 DEF RegistryInv
<1>6. CASE i \notin Registered
  <2>1. UNCHANGED <<order, status, counts, destroyed>>
    BY <1>6 DEF BeginDestroy, Present
  <2>2. OrderInv' /\ Registered' = Registered
    BY <1>1, <2>1 DEF OrderInv, Registered
  <2>3. TypeOK'
    BY <1>1, <1>3, <1>4, <2>1 DEF TypeOK
  <2>4. \A d \in Callers : call'[d] # NoCall => status[call'[d].id] # "unborn"
    BY <1>1, <1>3, <1>4 DEF Fates
  <2>5. Fates'
    BY <1>1, <1>3, <2>1, <2>2, <2>4 DEF Fates
  <2>. QED BY <2>2, <2>3, <2>5 DEF RegistryInv
<1>. QED BY <1>5, <1>6

\* A step that at most touches an id, as the other calls do.
LEMMA UseDoes ==
  ASSUME RegistryInv, (\E i \in Ids : Touch(i)) \/ UNCHANGED <<order, latest>>
  PROVE  /\ OrderInv' /\ Registered' = Registered /\ Registered \subseteq Ids
         /\ latest' \in SUBSET Ids
<1>1. TypeOK /\ OrderInv /\ Registered \subseteq Ids
  BY AsSequence DEF RegistryInv, OrderInv
<1>2. ASSUME NEW i \in Registered, Touch(i)
      PROVE  OrderInv' /\ Registered' = Registered /\ latest' \in SUBSET Ids
  BY <1>1, <1>2, TouchDoes
<1>3. ASSUME UNCHANGED <<order, latest>>
      PROVE  OrderInv' /\ Registered' = Registered /\ latest' \in SUBSET Ids
  BY <1>1, <1>3 DEF OrderInv, Registered, TypeOK
<1>4. ASSUME NEW i \in Ids \ Registered, Touch(i)
      PROVE  UNCHANGED <<order, latest>>
  BY <1>4 DEF Touch, Touched
<1>. QED BY <1>1, <1>2, <1>3, <1>4

LEMMA UseKeeps ==
  ASSUME RegistryInv,
         \/ \E i \in Ids : LogInteraction(i) \/ RotatePersona(i)
         \/ \E c \in Callers, i \in Ids : BeginGet(c, i)
         \/ \E c \in Callers : Return(c)
  PROVE  RegistryInv'
<1>1. TypeOK /\ Fates
  BY DEF RegistryInv
<1>2. (\E i \in Ids : Touch(i)) \/ UNCHANGED <<order, latest>>
  BY DEF BeginGet, Return, LogInteraction, RotatePersona
<1>3. OrderInv' /\ Registered' = Registered /\ Registered \subseteq Ids /\ latest' \in SUBSET Ids
  BY <1>2, UseDoes
<1>4. UNCHANGED <<status, evicted, destroyed>>
  BY DEF BeginGet, Return, LogInteraction, RotatePersona
<1>5. /\ call' \in [Callers -> {NoCall} \cup
                      [op : {"get", "destroy"}, id : Ids, existed : BOOLEAN]]
      /\ \A d \in Callers : call'[d] # NoCall => status[call'[d].id] # "unborn"
  <2>1. CASE \E c \in Callers, i \in Ids : BeginGet(c, i)
    <3>1. PICK c \in Callers, i \in Ids : BeginGet(c, i)
      BY <2>1
    <3>2. /\ status[i] # "unborn"
          /\ call' = [call EXCEPT ![c] = [op |-> "get", id |-> i, existed |-> Present(i)]]
      BY <3>1 DEF BeginGet
    <3>. QED BY <1>1, <3>2, PresentType DEF TypeOK, Fates
  <2>2. CASE \E c \in Callers : Return(c)
    BY <1>1, <2>2 DEF Return, TypeOK, Fates
  <2>3. CASE \E i \in Ids : LogInteraction(i) \/ RotatePersona(i)
    BY <1>1, <2>3 DEF LogInteraction, RotatePersona, TypeOK, Fates
  <2>. QED BY <2>1, <2>2, <2>3
<1>6. /\ counts' \in [Ids -> 0..MaxInteractions \cup {NoCount}] /\ strangers' \in SUBSET Ids
      /\ strangers \subseteq strangers'
      /\ \A j \in Registered : counts'[j] # NoCount
      /\ \A j \in Ids \ Registered : counts'[j] # NoCount => j \in strangers'
  <2>1. ASSUME NEW i \in Ids, LogInteraction(i)
        PROVE  \E n \in 0..MaxInteractions : counts' = [counts EXCEPT ![i] = n]
    <3>1. counts[i] \in 0..MaxInteractions \cup {NoCount}
      BY <1>1 DEF TypeOK
    <3>. QED BY <2>1, <3>1, LimitAssumption DEF LogInteraction, AtCap
  <2>2. CASE \E i \in Ids : LogInteraction(i)
    <3>1. PICK i \in Ids : LogInteraction(i)
      BY <2>2
    <3>2. PICK n \in 0..MaxInteractions : counts' = [counts EXCEPT ![i] = n]
      BY <2>1, <3>1
    <3>3. strangers' = IF i \in Registered THEN strangers ELSE strangers \cup {i}
      BY <3>1 DEF LogInteraction
    <3>4. n # NoCount
      BY LimitAssumption
    <3>. QED BY <1>1, <1>3, <3>2, <3>3, <3>4 DEF TypeOK, Fates
  <2>3. CASE ~\E i \in Ids : LogInteraction(i)
    <3>1. UNCHANGED <<counts, strangers>>
      BY <2>3 DEF BeginGet, Return, RotatePersona
    <3>. QED BY <1>1, <3>1 DEF TypeOK, Fates
  <2>. QED BY <2>2, <2>3
<1>7. TypeOK'
  BY <1>1, <1>3, <1>4, <1>5, <1>6 DEF TypeOK, OrderInv
<1>8. Fates'
  BY <1>1, <1>3, <1>4, <1>5, <1>6 DEF Fates
<1>. QED BY <1>3, <1>7, <1>8 DEF RegistryInv

LEMMA RegistryInvNext == RegistryInv /\ [Next]_vars => RegistryInv'
<1>. SUFFICES ASSUME RegistryInv, [Next]_vars PROVE RegistryInv'
  OBVIOUS
<1>1. CASE UNCHANGED vars
  BY <1>1 DEF vars, RegistryInv, TypeOK, OrderInv, Registered, Fates
<1>. QED BY <1>1, CreateKeeps, DestroyKeeps, UseKeeps DEF Next

LEMMA RegistryInvariant == Spec => []RegistryInv
BY RegistryInvInit, RegistryInvNext, PTL DEF Spec

-----------------------------------------------------------------------------
(* Theorems *)

\* At most _max_instances records and no counter above _max_interactions, and
\* however many destroy_instance calls overlap one instance, at most one finds
\* it, and none does if create_instance evicted it.
THEOREM OrchestratorBounded == Spec => []BoundedAndDestroyedOnce
<1>1. RegistryInv => BoundedAndDestroyedOnce
  <2>. SUFFICES ASSUME RegistryInv PROVE DestroyedOnce
    BY DEF RegistryInv, BoundedAndDestroyedOnce
  <2>1. ASSUME NEW i \in Ids PROVE destroyed[i] + (IF i \in evicted THEN 1 ELSE 0) <= 1
    BY DEF RegistryInv, Fates
  <2>. QED BY <2>1 DEF DestroyedOnce
<1>. QED BY <1>1, RegistryInvariant, PTL

\* Counters come and go with the instances, whether destroyed or evicted; the
\* only others are those log_interaction made for ids not registered.
THEOREM OrchestratorCounts == Spec => []CountsFollowInstances
<1>1. RegistryInv => CountsFollowInstances
  BY DEF RegistryInv, Fates, CountsFollowInstances
<1>. QED BY <1>1, RegistryInvariant, PTL

\* An object that get_instance or destroy_instance holds over its sleep is
\* registered, or marked destroyed, or was evicted behind its back.
THEOREM OrchestratorHeldObjects == Spec => []HeldObjectExplained
<1>1. RegistryInv => HeldObjectExplained
  <2>. SUFFICES ASSUME RegistryInv, NEW c \in Callers, call[c] # NoCall
                PROVE  \/ call[c].id \in Registered
                       \/ status[call[c].id] = "destroyed"
                       \/ call[c].id \in evicted
    BY DEF HeldObjectExplained
  <2>1. call[c].id \in Ids
    BY DEF RegistryInv, TypeOK
  <2>. QED BY <2>1 DEF RegistryInv, Fates
<1>. QED BY <1>1, RegistryInvariant, PTL

\* LruRegistry brings its own copy of FiniteSets.
LEMMA SameCardinality == \A S : Lru!Cardinality(S) = Cardinality(S)
BY DEF Lru!Cardinality, Cardinality

LEMMA SameMakeLatest ==
  ASSUME NEW i, NEW rel, NEW S,
         Older' = Without(rel, i) \cup ((S \ {i}) \X {i}), latest' = {i}
  PROVE  Lru!MakeLatest(i, rel, S)
BY DEF Lru!MakeLatest, Lru!Without, Without

LEMMA LruInitMaps == Init => Lru!LruInit
<1>. SUFFICES ASSUME Init PROVE Lru!LruInit
  OBVIOUS
<1>1. Registered = {}
  BY DEF Init, Registered
<1>. QED BY <1>1 DEF Init, Older, Gone, Lru!LruInit

LEMMA GoneIs ==
  ASSUME RegistryInv PROVE \A i \in Ids : status[i] = "unborn" <=> i \notin Registered \cup Gone
BY DEF RegistryInv, Fates, Gone

LEMMA CreateMaps ==
  ASSUME RegistryInv, NEW i \in Ids, Create(i)
  PROVE  Lru!LruNext
<1>1. OrderInv /\ TypeOK /\ Registered \subseteq Ids /\ status[i] = "unborn"
  BY AsSequence DEF RegistryInv, OrderInv, Create
<1>2. i \notin Registered /\ i \notin Gone
  BY <1>1, GoneIs
<1>3. /\ Registered' = Staying \cup {i}
      /\ Full => /\ Len(order) = MaxInstances /\ Head(order) \in Registered
                 /\ \A w \in Registered \ {Head(order)} : <<Head(order), w>> \in Older
      /\ Older' = (IF Full THEN Without(Older, Head(order)) ELSE Older) \cup (Staying \X {i})
      /\ latest' = {i}
  BY <1>1, <1>2, CreateDoes DEF Create
<1>4. /\ \A pair \in Older : pair[1] # i /\ pair[2] # i
  BY <1>2 DEF Older
<1>5. status'[i] = "active" /\ \A j \in Ids \ {i} : status'[j] = status[j]
  BY <1>1 DEF Create, TypeOK
<1>6. Cardinality(Registered) = Len(order) /\ Len(order) \in Nat /\ Len(order) <= MaxInstances
  BY <1>1 DEF OrderInv
<1>7. CASE Full
  <2>. DEFINE v == Head(order)
  <2>1. v \in Registered /\ v \in Ids /\ v # i
    BY <1>1, <1>2, <1>3, <1>7
  <2>2. Registered' = (Registered \ {v}) \cup {i}
    BY <1>3, <1>7 DEF Staying
  <2>3. Gone' = Gone \cup {v}
    <3>1. status[v] # "unborn"
      BY <1>1, <2>1, GoneIs
    <3>. QED BY <1>1, <1>2, <1>5, <2>1, <2>2, <3>1 DEF Gone
  <2>4. Without(Without(Older, v), i) = Without(Older, v)
    BY <1>4 DEF Without
  <2>5. Older' = Without(Without(Older, v), i) \cup (((Registered \ {v}) \ {i}) \X {i})
    <3>1. (Registered \ {v}) \ {i} = Staying
      BY <1>2, <1>7 DEF Staying
    <3>. QED BY <1>3, <1>7, <2>4, <3>1
  <2>6. Lru!MakeLatest(i, Without(Older, v), Registered \ {v})
    BY <1>3, <2>5, SameMakeLatest
  <2>7. Lru!LeastRecent(v)
    BY <1>3, <1>7 DEF Lru!LeastRecent
  <2>8. Lru!Cardinality(Registered) = MaxInstances
    BY <1>3, <1>6, <1>7, SameCardinality
  <2>. HIDE DEF v
  <2>9. Lru!Replace(v, i)
    BY <1>2, <2>2, <2>3, <2>6, <2>7, <2>8 DEF Lru!Replace, Lru!Without, Without
  <2>. QED BY <2>1, <2>9 DEF Lru!LruNext
<1>8. CASE ~Full
  <2>1. Registered' = Registered \cup {i}
    BY <1>3, <1>8 DEF Staying
  <2>2. Gone' = Gone
    BY <1>1, <1>2, <1>5, <2>1 DEF Gone
  <2>3. Older' = Without(Older, i) \cup ((Registered \ {i}) \X {i})
    <3>1. Without(Older, i) = Older /\ Registered \ {i} = Registered
      BY <1>2, <1>4 DEF Without
    <3>. QED BY <1>3, <1>8, <3>1 DEF Staying
  <2>4. Lru!MakeLatest(i, Older, Registered)
    BY <1>3, <2>3, SameMakeLatest
  <2>5. Lru!Cardinality(Registered) < MaxInstances
    BY <1>6, <1>8, SameCardinality, LimitAssumption DEF Full
  <2>6. Lru!Insert(i)
    BY <1>2, <2>1, <2>2, <2>4, <2>5 DEF Lru!Insert
  <2>. QED BY <2>6 DEF Lru!LruNext
<1>. QED BY <1>7, <1>8

LEMMA DestroyMaps ==
  ASSUME RegistryInv, NEW c \in Callers, NEW i \in Ids, BeginDestroy(c, i)
  PROVE  Lru!LruNext \/ UNCHANGED <<Registered, Older, Gone, latest>>
<1>1. OrderInv /\ TypeOK /\ Registered \subseteq Ids
  BY AsSequence DEF RegistryInv, OrderInv
<1>2. CASE i \in Registered
  <2>1. /\ order' = Others(i) /\ UNCHANGED latest
        /\ status' = [status EXCEPT ![i] = "destroyed"]
    BY <1>2 DEF BeginDestroy, Present, Marked
  <2>2. Registered' = Registered \ {i} /\ Older' = Without(Older, i)
    BY <1>1, <1>2, <2>1, DestroyDoes
  <2>3. Gone' = Gone \cup {i}
    BY <1>1, <1>2, <2>1, <2>2 DEF Gone, TypeOK
  <2>4. Lru!Remove(i)
    BY <1>2, <2>1, <2>2, <2>3 DEF Lru!Remove, Lru!Without, Without
  <2>. QED BY <2>4 DEF Lru!LruNext
<1>3. CASE i \notin Registered
  BY <1>3 DEF BeginDestroy, Present, Registered, Older, Gone
<1>. QED BY <1>2, <1>3

LEMMA TouchMaps ==
  ASSUME RegistryInv, NEW i \in Ids, Touch(i), UNCHANGED status
  PROVE  Lru!LruNext \/ UNCHANGED <<Registered, Older, Gone, latest>>
<1>1. OrderInv
  BY DEF RegistryInv
<1>2. CASE i \in Registered
  <2>1. /\ Registered' = Registered /\ latest' = {i}
        /\ Older' = Without(Older, i) \cup ((Registered \ {i}) \X {i})
    BY <1>1, <1>2, TouchDoes
  <2>2. Gone' = Gone
    BY <2>1 DEF Gone
  <2>3. Lru!MakeLatest(i, Older, Registered)
    BY <2>1, SameMakeLatest
  <2>4. Lru!Use(i)
    BY <1>2, <2>1, <2>2, <2>3 DEF Lru!Use
  <2>. QED BY <2>4 DEF Lru!LruNext
<1>3. CASE i \notin Registered
  BY <1>3 DEF Touch, Touched, Registered, Older, Gone
<1>. QED BY <1>2, <1>3

LEMMA LruStepMaps == RegistryInv /\ [Next]_vars => [Lru!LruNext]_(Lru!lruVars)
<1>. SUFFICES ASSUME RegistryInv, [Next]_vars
              PROVE  Lru!LruNext \/ UNCHANGED <<Registered, Older, Gone, latest>>
  BY DEF Lru!lruVars
<1>1. CASE UNCHANGED <<order, status, latest>>
  BY <1>1 DEF Registered, Older, Gone
<1>2. CASE UNCHANGED vars
  BY <1>1, <1>2 DEF vars
<1>3. ASSUME NEW c \in Callers, Return(c) PROVE UNCHANGED <<order, status, latest>>
  BY <1>3 DEF Return
<1>4. ASSUME NEW i \in Ids, \/ LogInteraction(i) \/ RotatePersona(i)
                            \/ \E c \in Callers : BeginGet(c, i)
      PROVE  UNCHANGED status /\ (Touch(i) \/ UNCHANGED <<order, latest>>)
  BY <1>4 DEF LogInteraction, RotatePersona, BeginGet
<1>5. ASSUME NEW i \in Ids, \/ LogInteraction(i) \/ RotatePersona(i)
                            \/ \E c \in Callers : BeginGet(c, i)
      PROVE  Lru!LruNext \/ UNCHANGED <<Registered, Older, Gone, latest>>
  BY <1>1, <1>4, <1>5, TouchMaps
<1>. QED
  BY <1>1, <1>2, <1>3, <1>5, CreateMaps, DestroyMaps DEF Next

\* Every behaviour of the orchestrator is one of the LRU registry: the id
\* evicted is the one used least recently, where every look-up counts as use,
\* and an id that has left never returns.
THEOREM OrchestratorImplementsLru == Spec => LruSpec
BY LruInitMaps, LruStepMaps, RegistryInvariant, PTL DEF Spec, LruSpec, Lru!LruSpec
=============================================================================
