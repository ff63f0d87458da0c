--------------------------- MODULE QueueOpsProofs ---------------------------
(***************************************************************************)
(* What the operators of QueueOps do to sequences without repetition.      *)
(***************************************************************************)
EXTENDS QueueOps, TLAPS

\* The position CHOOSE picks exists.
LEMMA PositionFact ==
  ASSUME NEW S, NEW q \in Seq(S), NEW s \in Range(q), Distinct(q)
  PROVE  Position(q, s) \in DOMAIN q /\ q[Position(q, s)] = s
<1>1. PICK i \in DOMAIN q : q[i] = s
  BY DEF Range
<1>2. \A j \in DOMAIN q : j < i => q[j] # s
  BY <1>1 DEF Distinct
<1> QED
  BY <1>1, <1>2 DEF Position

\* Erasing an element keeps the others, each once.
LEMMA WithoutFact ==
  ASSUME NEW S, NEW q \in Seq(S), NEW s, Distinct(q)
  PROVE  /\ Without(q, s) \in Seq(S)
         /\ Distinct(Without(q, s))
         /\ Range(Without(q, s)) = Range(q) \ {s}
<1>1. CASE s \notin Range(q)
  BY <1>1 DEF Without
<1>2. CASE s \in Range(q)
  <2> DEFINE p == Position(q, s)
             w == [i \in 1 .. Len(q) - 1 |-> IF i < p THEN q[i] ELSE q[i + 1]]
  <2>1. p \in 1 .. Len(q) /\ q[p] = s
    BY <1>2, PositionFact
  <2>2. Without(q, s) = w
    BY <1>2 DEF Without
  <2>3. Len(q) - 1 \in Nat
    BY <2>1
  <2> HIDE DEF p
  <2>4. w \in Seq(S)
    BY <2>1, <2>3
  <2>5. \A i \in 1 .. Len(q) - 1 : w[i] = IF i < p THEN q[i] ELSE q[i + 1]
    OBVIOUS
  <2>6. DOMAIN w = 1 .. Len(q) - 1
    OBVIOUS
  <2> HIDE DEF w
  <2>7. Distinct(w)
    BY <2>1, <2>5, <2>6 DEF Distinct
  <2>8. Range(w) \subseteq Range(q) \ {s}
    BY <2>1, <2>5, <2>6 DEF Distinct, Range
  <2>9. ASSUME NEW x \in Range(q) \ {s} PROVE x \in Range(w)
    <3>1. PICK i \in DOMAIN q : q[i] = x
      BY DEF Range
    <3>2. CASE i < p
      BY <2>1, <2>5, <2>6, <3>1, <3>2 DEF Range
    <3>3. CASE i > p
      <4>1. i - 1 \in 1 .. Len(q) - 1 /\ ~(i - 1 < p) /\ (i - 1) + 1 = i
        BY <2>1, <3>1, <3>3
      <4>2. w[i - 1] = x
        BY <2>5, <3>1, <4>1
      <4> QED
        BY <2>6, <4>1, <4>2 DEF Range
    <3> QED
      BY <2>1, <3>1, <3>2, <3>3
  <2> QED
    BY <2>2, <2>4, <2>7, <2>8, <2>9
<1> QED
  BY <1>1, <1>2

\* Taking the front off.
LEMMA TailFact ==
  ASSUME NEW S, NEW q \in Seq(S), q # <<>>, Distinct(q)
  PROVE  /\ Tail(q) \in Seq(S)
         /\ Distinct(Tail(q))
         /\ Head(q) \in Range(q)
         /\ Range(Tail(q)) = Range(q) \ {Head(q)}
<1>1. Len(q) \in Nat \ {0} /\ DOMAIN q = 1 .. Len(q) /\ Head(q) = q[1]
  OBVIOUS
<1>2. Tail(q) \in Seq(S) /\ Len(Tail(q)) = Len(q) - 1
  OBVIOUS
<1>3. DOMAIN Tail(q) = 1 .. Len(q) - 1
  BY <1>2
<1>4. \A i \in 1 .. Len(q) - 1 : Tail(q)[i] = q[i + 1]
  OBVIOUS
<1>5. Distinct(Tail(q))
  BY <1>1, <1>3, <1>4 DEF Distinct
<1>6. Range(Tail(q)) \subseteq Range(q) \ {Head(q)}
  BY <1>1, <1>3, <1>4 DEF Distinct, Range
<1>7. ASSUME NEW x \in Range(q) \ {Head(q)} PROVE x \in Range(Tail(q))
  <2>1. PICK i \in 2 .. Len(q) : q[i] = x
    BY <1>1 DEF Range
  <2>2. i - 1 \in 1 .. Len(q) - 1 /\ Tail(q)[i - 1] = x
    BY <1>1, <1>4, <2>1
  <2> QED
    BY <1>3, <2>2 DEF Range
<1>8. Head(q) \in Range(q)
  BY <1>1 DEF Range
<1> QED
  BY <1>2, <1>5, <1>6, <1>7, <1>8

\* Joining at the back.
LEMMA AppendFact ==
  ASSUME NEW S, NEW q \in Seq(S), NEW s \in S, Distinct(q), s \notin Range(q)
  PROVE  /\ Append(q, s) \in Seq(S)
         /\ Distinct(Append(q, s))
         /\ Range(Append(q, s)) = Range(q) \cup {s}
<1>1. /\ Append(q, s) \in Seq(S)
      /\ DOMAIN Append(q, s) = 1 .. Len(q) + 1
      /\ \A i \in 1 .. Len(q) : Append(q, s)[i] = q[i]
      /\ Append(q, s)[Len(q) + 1] = s
  OBVIOUS
<1>2. DOMAIN q = 1 .. Len(q) /\ Len(q) \in Nat
  OBVIOUS
<1>3. Distinct(Append(q, s))
  BY <1>1, <1>2 DEF Distinct, Range
<1>4. Range(Append(q, s)) \subseteq Range(q) \cup {s}
  BY <1>1, <1>2 DEF Range
<1>5. Range(q) \cup {s} \subseteq Range(Append(q, s))
  BY <1>1, <1>2 DEF Range
<1> QED
  BY <1>1, <1>3, <1>4, <1>5
-----------------------------------------------------------------------------
(***************************************************************************)
(* Order: the elements of q that r has are in r in the order of q.         *)
(***************************************************************************)
KeepsOrder(q, r) ==
  \A i, j \in DOMAIN q :
    i < j /\ q[i] \in Range(r) /\ q[j] \in Range(r) =>
      \E k, l \in DOMAIN r : k < l /\ r[k] = q[i] /\ r[l] = q[j]

LEMMA SameOrder == ASSUME NEW q PROVE KeepsOrder(q, q)
BY DEF KeepsOrder

LEMMA OrderTransitive ==
  ASSUME NEW q, NEW r, NEW t, KeepsOrder(q, r), KeepsOrder(r, t),
         Range(q) \cap Range(t) \subseteq Range(r)
  PROVE  KeepsOrder(q, t)
<1>. SUFFICES ASSUME NEW i \in DOMAIN q, NEW j \in DOMAIN q, i < j,
                     q[i] \in Range(t), q[j] \in Range(t)
              PROVE  \E k, l \in DOMAIN t : k < l /\ t[k] = q[i] /\ t[l] = q[j]
  BY DEF KeepsOrder
<1>1. q[i] \in Range(r) /\ q[j] \in Range(r)
  BY DEF Range
<1>2. PICK k, l \in DOMAIN r : k < l /\ r[k] = q[i] /\ r[l] = q[j]
  BY <1>1 DEF KeepsOrder
<1>. QED  BY <1>2 DEF KeepsOrder

LEMMA WithoutOrder ==
  ASSUME NEW S, NEW q \in Seq(S), NEW s, Distinct(q)
  PROVE  KeepsOrder(q, Without(q, s))
<1>1. CASE s \notin Range(q)
  BY <1>1, SameOrder DEF Without
<1>2. CASE s \in Range(q)
  <2>. DEFINE p == Position(q, s)
              w == [i \in 1 .. Len(q) - 1 |-> IF i < p THEN q[i] ELSE q[i + 1]]
              At(i) == IF i < p THEN i ELSE i - 1
  <2>1. p \in 1 .. Len(q) /\ q[p] = s
    BY <1>2, PositionFact
  <2>2. Without(q, s) = w
    BY <1>2 DEF Without
  <2>3. Range(w) = Range(q) \ {s}
    BY <2>2, WithoutFact
  <2>. HIDE DEF p
  <2>4. DOMAIN q = 1 .. Len(q) /\ Len(q) \in Nat /\ DOMAIN w = 1 .. Len(q) - 1
    OBVIOUS
  <2>5. \A i \in 1 .. Len(q) : i # p => At(i) \in 1 .. Len(q) - 1 /\ w[At(i)] = q[i]
    BY <2>1, <2>4
  <2>6. \A i, j \in 1 .. Len(q) : i < j /\ i # p /\ j # p => At(i) < At(j)
    BY <2>1, <2>4
  <2>. HIDE DEF At, w
  <2>7. ASSUME NEW i \in DOMAIN q, q[i] \in Range(w)  PROVE  i # p
    BY <2>1, <2>3, <2>7
  <2>. QED  BY <2>2, <2>4, <2>5, <2>6, <2>7 DEF KeepsOrder
<1>. QED  BY <1>1, <1>2

LEMMA TailOrder ==
  ASSUME NEW S, NEW q \in Seq(S), q # <<>>, Distinct(q)
  PROVE  KeepsOrder(q, Tail(q))
<1>1. Len(q) \in Nat \ {0} /\ DOMAIN q = 1 .. Len(q) /\ Head(q) = q[1]
  OBVIOUS
<1>2. Len(Tail(q)) = Len(q) - 1 /\ DOMAIN Tail(q) = 1 .. Len(q) - 1
  OBVIOUS
<1>3. \A i \in 1 .. Len(q) - 1 : Tail(q)[i] = q[i + 1]
  OBVIOUS
<1>4. ASSUME NEW i \in DOMAIN q, q[i] \in Range(Tail(q))
      PROVE  i - 1 \in 1 .. Len(q) - 1 /\ Tail(q)[i - 1] = q[i]
  <2>1. i # 1
    BY <1>1, <1>4, TailFact
  <2>2. i - 1 \in 1 .. Len(q) - 1 /\ (i - 1) + 1 = i
    BY <1>1, <2>1
  <2>. QED  BY <1>3, <2>2
<1>. SUFFICES ASSUME NEW i \in DOMAIN q, NEW j \in DOMAIN q, i < j,
                     q[i] \in Range(Tail(q)), q[j] \in Range(Tail(q))
              PROVE  \E k, l \in DOMAIN Tail(q) :
                       k < l /\ Tail(q)[k] = q[i] /\ Tail(q)[l] = q[j]
  BY DEF KeepsOrder
<1>5. i - 1 < j - 1
  BY <1>1
<1>. QED  BY <1>2, <1>4, <1>5

LEMMA AppendOrder ==
  ASSUME NEW S, NEW q \in Seq(S), NEW s \in S
  PROVE  KeepsOrder(q, Append(q, s))
<1>1. \A i \in DOMAIN q : i \in DOMAIN Append(q, s) /\ Append(q, s)[i] = q[i]
  OBVIOUS
<1>. QED  BY <1>1 DEF KeepsOrder
=============================================================================
