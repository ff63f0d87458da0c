----------------------- MODULE CharacterTablesProofs -----------------------
(***************************************************************************)
(* What the statements of CharacterTables do to the tables: they keep the  *)
(* types of the columns and the numbers of the rows, a sum over rows       *)
(* changes by the rows that are added and deleted, and what is held in one *)
(* place stays in one place when the statements move it.                   *)
(***************************************************************************)
EXTENDS CharacterTables, FiniteSetTheorems, WellFoundedInduction, TLAPS

-----------------------------------------------------------------------------
(* The smallest number of a set, the largest of a bounded one. *)

LEMMA LeastNumber ==
  ASSUME NEW S \in SUBSET Nat, S # {}
  PROVE  \E n \in S : \A k \in S : n <= k
<1>. DEFINE Below == {pair \in Nat \X Nat : pair[1] < pair[2]}
<1>1. OpToRel(<, Nat) = Below
  BY DEF OpToRel
<1>2. IsWellFoundedOn(Below, Nat)
  BY <1>1, NatLessThanWellFounded
<1>3. \E n \in S : \A k \in S : ~(<<k, n>> \in Below)
  <2>. HIDE DEF Below
  <2>. QED  BY <1>2, WFMin
<1>4. PICK n \in S : \A k \in S : ~(<<k, n>> \in Below)
  BY <1>3
<1>5. \A k \in S : ~(k < n)
  BY <1>4
<1>. QED  BY <1>5

LEMMA LargestNumber ==
  ASSUME NEW S \in SUBSET Nat, S # {}, NEW n \in Nat, \A k \in S : k < n
  PROVE  Max(S) \in S /\ \A k \in S : k <= Max(S)
<1>. DEFINE Above == {b \in Nat : \A k \in S : k <= b}
<1>1. PICK b \in Above : \A c \in Above : b <= c
  <2>1. n \in Above  OBVIOUS
  <2>. QED  BY <2>1, LeastNumber
<1>2. b \in S
  <2>1. SUFFICES ASSUME b \notin S PROVE FALSE  OBVIOUS
  <2>2. PICK k \in S : k <= b /\ k # b  BY <2>1
  <2>3. b - 1 \in Above  BY <2>1, <2>2
  <2>. QED  BY <2>3, <1>1
<1>3. \E x \in S : \A y \in S : x >= y
  BY <1>2
<1>4. Max(S) \in S /\ \A y \in S : Max(S) >= y
  <2>. DEFINE Top(x) == \A y \in S : x >= y
  <2>1. \E x \in S : Top(x)  BY <1>3
  <2>2. Max(S) = CHOOSE x \in S : Top(x)  BY DEF Max
  <2>. HIDE DEF Top
  <2>3. Max(S) \in S /\ Top(Max(S))  BY <2>1, <2>2
  <2>. QED  BY <2>3 DEF Top
<1>. HIDE DEF Above
<1>5. Max(S) \in Nat  BY <1>4
<1>. QED  BY <1>4, <1>5

-----------------------------------------------------------------------------
(* Sums over finite sets, with the sum of every subset at once. *)

Choice(s) == CHOOSE x \in s : TRUE
Rest(s) == s \ {Choice(s)}
SumStep(v, h, s) == IF s = {} THEN 0 ELSE v[Choice(s)] + h[Rest(s)]
SumsUpTo(v, S, n) ==
  \E h \in [SUBSET S -> Int] :
    \A s \in SUBSET S : Cardinality(s) <= n => h[s] = SumStep(v, h, s)
IsSum(v, S, h) == h = [s \in SUBSET S |-> SumStep(v, h, s)]

LEMMA RestFacts ==
  ASSUME NEW S, IsFiniteSet(S), NEW s \in SUBSET S
  PROVE  /\ IsFiniteSet(s) /\ Cardinality(s) \in Nat /\ Cardinality(s) <= Cardinality(S)
         /\ s = {} <=> Cardinality(s) = 0
         /\ s # {} => /\ Choice(s) \in s /\ Choice(s) \in S
                      /\ Rest(s) \in SUBSET S /\ Rest(s) \in SUBSET s /\ Rest(s) # s
                      /\ Cardinality(Rest(s)) = Cardinality(s) - 1
<1>1. IsFiniteSet(s) /\ Cardinality(s) \in Nat /\ Cardinality(s) <= Cardinality(S)
  BY FS_Subset, FS_CardinalityType
<1>2. s = {} <=> Cardinality(s) = 0
  BY <1>1, FS_EmptySet
<1>3. ASSUME s # {}
      PROVE  /\ Choice(s) \in s /\ Rest(s) \in SUBSET s /\ Rest(s) # s
             /\ Cardinality(Rest(s)) = Cardinality(s) - 1
  <2>1. Choice(s) \in s  BY <1>3 DEF Choice
  <2>2. Cardinality(Rest(s)) = Cardinality(s) - 1
    BY <2>1, <1>1, FS_RemoveElement DEF Rest
  <2>. QED  BY <2>1, <2>2 DEF Rest
<1>. QED  BY <1>1, <1>2, <1>3

\* A sum exists: the sums of the sets of at most n elements, for every n.
LEMMA SumUpTo ==
  ASSUME NEW S, IsFiniteSet(S), NEW v, \A x \in S : v[x] \in Int, NEW n \in Nat
  PROVE  SumsUpTo(v, S, n)
<1>. DEFINE Sums(k) == SumsUpTo(v, S, k)
            Missing == {k \in Nat : ~Sums(k)}
<1>1. \A s \in SUBSET S :
        /\ Cardinality(s) \in Nat /\ (s = {} <=> Cardinality(s) = 0)
        /\ s # {} => /\ Choice(s) \in S /\ Rest(s) \in SUBSET S
                     /\ Cardinality(Rest(s)) = Cardinality(s) - 1
  BY RestFacts
<1>2. Sums(0)
  <2>. SUFFICES \E h \in [SUBSET S -> Int] :
                  \A s \in SUBSET S : Cardinality(s) <= 0 => h[s] = SumStep(v, h, s)
    BY DEF SumsUpTo
  <2>. WITNESS [s \in SUBSET S |-> 0] \in [SUBSET S -> Int]
  <2>. QED  BY <1>1 DEF SumStep
<1>3. ASSUME NEW k \in Nat, Sums(k)
      PROVE  Sums(k + 1)
  <2>1. PICK h \in [SUBSET S -> Int] :
           \A s \in SUBSET S : Cardinality(s) <= k => h[s] = SumStep(v, h, s)
    BY <1>3 DEF SumsUpTo
  <2>. DEFINE g == [s \in SUBSET S |->
                      IF Cardinality(s) <= k THEN h[s] ELSE SumStep(v, h, s)]
  <2>2. \A s \in SUBSET S : SumStep(v, h, s) \in Int
    BY <1>1 DEF SumStep
  <2>3. g \in [SUBSET S -> Int]
    BY <2>2
  <2>4. \A s \in SUBSET S : /\ Cardinality(s) <= k => g[s] = h[s]
                            /\ g[s] = SumStep(v, h, s)
    BY <2>1
  <2>. HIDE DEF g
  <2>5. ASSUME NEW s \in SUBSET S, Cardinality(s) <= k + 1
        PROVE  g[s] = SumStep(v, g, s)
    <3>1. s # {} => g[Rest(s)] = h[Rest(s)]
      BY <1>1, <2>4, <2>5
    <3>2. SumStep(v, g, s) = SumStep(v, h, s)
      BY <3>1 DEF SumStep
    <3>. QED  BY <3>2, <2>4
  <2>. QED  BY <2>3, <2>5 DEF SumsUpTo
<1>4. Missing = {}
  <2>. HIDE DEF Sums
  <2>1. SUFFICES ASSUME Missing # {} PROVE FALSE  OBVIOUS
  <2>2. PICK m \in Missing : \A k \in Missing : m <= k
    BY <2>1, LeastNumber
  <2>3. m # 0  BY <1>2
  <2>4. m - 1 \in Nat /\ Sums(m - 1)  BY <2>2, <2>3
  <2>. QED  BY <2>4, <1>3
<1>. HIDE DEF Sums
<1>5. Sums(n)  BY <1>4
<1>. QED  BY <1>5 DEF Sums

LEMMA SumExists ==
  ASSUME NEW S, IsFiniteSet(S), NEW v, \A x \in S : v[x] \in Int
  PROVE  \E h : IsSum(v, S, h)
<1>1. Cardinality(S) \in Nat /\ \A s \in SUBSET S : Cardinality(s) <= Cardinality(S)
  BY FS_CardinalityType, RestFacts
<1>. PICK n \in Nat : n = Cardinality(S)
  BY <1>1
<1>2. PICK h \in [SUBSET S -> Int] :
        \A s \in SUBSET S : Cardinality(s) <= n => h[s] = SumStep(v, h, s)
  <2>1. SumsUpTo(v, S, n)  BY SumUpTo
  <2>. QED  BY <2>1 DEF SumsUpTo
<1>3. h = [s \in SUBSET S |-> SumStep(v, h, s)]
  BY <1>1, <1>2
<1>. QED  BY <1>3 DEF IsSum

LEMMA SumStepOf ==
  ASSUME NEW S, NEW v, NEW h, IsSum(v, S, h), NEW s \in SUBSET S
  PROVE  /\ s = {} => h[s] = 0
         /\ s # {} => h[s] = v[Choice(s)] + h[Rest(s)]
<1>1. h[s] = SumStep(v, h, s)  BY DEF IsSum
<1>. QED  BY <1>1 DEF SumStep

\* A subset of a given kind has a smallest one.
LEMMA SmallestSubset ==
  ASSUME NEW S, IsFiniteSet(S), NEW T \in SUBSET SUBSET S, T # {}
  PROVE  \E s \in T : \A t \in T : Cardinality(s) <= Cardinality(t)
<1>. DEFINE Sizes == {Cardinality(t) : t \in T}
<1>1. Sizes \in SUBSET Nat /\ Sizes # {}
  BY RestFacts
<1>2. PICK n \in Sizes : \A k \in Sizes : n <= k
  <2>. HIDE DEF Sizes
  <2>. QED  BY <1>1, LeastNumber
<1>. QED  BY <1>2

LEMMA SumType ==
  ASSUME NEW S, IsFiniteSet(S), NEW v, \A x \in S : v[x] \in Int,
         NEW h, IsSum(v, S, h), NEW s \in SUBSET S
  PROVE  h[s] \in Int
<1>. DEFINE Odd == {t \in SUBSET S : h[t] \notin Int}
<1>1. SUFFICES ASSUME Odd # {} PROVE FALSE  OBVIOUS
<1>2. PICK t \in Odd : \A u \in Odd : Cardinality(t) <= Cardinality(u)
  BY <1>1, SmallestSubset
<1>3. t # {} /\ h[t] = v[Choice(t)] + h[Rest(t)]
  BY SumStepOf
<1>4. Rest(t) \notin Odd /\ Rest(t) \in SUBSET S /\ Choice(t) \in S
  <2>1. /\ Cardinality(t) \in Nat /\ Cardinality(Rest(t)) = Cardinality(t) - 1
        /\ Rest(t) \in SUBSET S /\ Choice(t) \in S
    BY <1>3, RestFacts
  <2>. QED  BY <1>2, <2>1
<1>. QED  BY <1>3, <1>4

\* The sums of the subsets of two sets agree where the sets and the values do.
LEMMA SumSame ==
  ASSUME NEW S, IsFiniteSet(S), NEW v, NEW g, IsSum(v, S, g),
         NEW T, IsFiniteSet(T), NEW w, NEW h, IsSum(w, T, h),
         NEW s \in SUBSET S, s \in SUBSET T, \A x \in s : v[x] = w[x]
  PROVE  g[s] = h[s]
<1>. DEFINE Differ == {t \in SUBSET s : g[t] # h[t]}
<1>1. SUFFICES ASSUME Differ # {} PROVE FALSE  OBVIOUS
<1>2. PICK t \in Differ : \A u \in Differ : Cardinality(t) <= Cardinality(u)
  <2>1. IsFiniteSet(s)  BY FS_Subset
  <2>2. Differ \in SUBSET SUBSET s  OBVIOUS
  <2>. HIDE DEF Differ
  <2>. QED  BY <1>1, <2>1, <2>2, SmallestSubset
<1>3. /\ t = {} => g[t] = 0 /\ h[t] = 0
      /\ t # {} => /\ g[t] = v[Choice(t)] + g[Rest(t)]
                   /\ h[t] = w[Choice(t)] + h[Rest(t)]
  <2>1. t \in SUBSET S /\ t \in SUBSET T  OBVIOUS
  <2>. QED  BY <2>1, SumStepOf
<1>4. ASSUME t # {}
      PROVE  Rest(t) \notin Differ /\ Rest(t) \in SUBSET s /\ Choice(t) \in s
  <2>1. /\ Cardinality(t) \in Nat /\ Cardinality(Rest(t)) = Cardinality(t) - 1
        /\ Rest(t) \in SUBSET t /\ Choice(t) \in t
    BY <1>4, RestFacts
  <2>. QED  BY <1>2, <2>1
<1>. QED  BY <1>3, <1>4

\* Any element may be taken first.
LEMMA SumTake ==
  ASSUME NEW S, IsFiniteSet(S), NEW v, \A x \in S : v[x] \in Int,
         NEW h, IsSum(v, S, h), NEW s \in SUBSET S, NEW x \in s
  PROVE  h[s] = v[x] + h[s \ {x}]
<1>. DEFINE Bad == {t \in SUBSET S : \E y \in t : h[t] # v[y] + h[t \ {y}]}
<1>1. SUFFICES ASSUME Bad # {} PROVE FALSE  OBVIOUS
<1>2. PICK t \in Bad : \A u \in Bad : Cardinality(t) <= Cardinality(u)
  BY <1>1, SmallestSubset
<1>3. PICK y \in t : h[t] # v[y] + h[t \ {y}]
  OBVIOUS
<1>. PICK c : c = Choice(t)  OBVIOUS
<1>4. /\ Cardinality(t) \in Nat /\ c \in t /\ Rest(t) \in SUBSET S /\ h[t] = v[c] + h[Rest(t)]
      /\ Cardinality(Rest(t)) = Cardinality(t) - 1
  BY <1>3, SumStepOf, RestFacts
<1>5. y # c /\ y \in S /\ c \in S /\ c \in t \ {y} /\ y \in Rest(t)
  BY <1>3, <1>4 DEF Rest
<1>6. h[Rest(t)] = v[y] + h[Rest(t) \ {y}]
  <2>1. Rest(t) \notin Bad  BY <1>2, <1>4
  <2>. QED  BY <2>1, <1>4, <1>5
<1>7. h[t \ {y}] = v[c] + h[(t \ {y}) \ {c}]
  <2>1. IsFiniteSet(t) /\ Cardinality(t \ {y}) = Cardinality(t) - 1
    BY <1>3, FS_Subset, FS_RemoveElement
  <2>2. t \ {y} \notin Bad /\ t \ {y} \in SUBSET S
    BY <1>2, <1>4, <2>1
  <2>. QED  BY <1>5, <2>2
<1>8. (t \ {y}) \ {c} = Rest(t) \ {y} /\ h[Rest(t) \ {y}] \in Int
  <2>1. Rest(t) \ {y} \in SUBSET S  BY <1>4
  <2>. QED  BY <2>1, SumType DEF Rest
<1>9. PICK k \in Int : k = h[Rest(t) \ {y}]  BY <1>8
<1>10. PICK i \in Int, j \in Int : i = v[c] /\ j = v[y]  BY <1>5
<1>11. h[t] = i + (j + k) /\ h[t \ {y}] = i + k
  BY <1>4, <1>6, <1>7, <1>8, <1>9, <1>10
<1>. QED  BY <1>3, <1>10, <1>11

SumOver(v, S) == (CHOOSE h : IsSum(v, S, h))[S]

LEMMA SumOverIs ==
  ASSUME NEW S, IsFiniteSet(S), NEW v, \A x \in S : v[x] \in Int, NEW T \in SUBSET S,
         NEW h, IsSum(v, S, h)
  PROVE  SumOver(v, T) = h[T]
<1>1. IsFiniteSet(T)  BY FS_Subset
<1>2. \E g : IsSum(v, T, g)  BY <1>1, SumExists
<1>3. PICK g : IsSum(v, T, g) /\ SumOver(v, T) = g[T]
  BY <1>2 DEF SumOver
<1>. QED  BY <1>1, <1>3, SumSame

\* A sum over a finite set is a number, of nothing it is zero, and an element
\* more or less adds or takes its value.
LEMMA SumOverFacts ==
  ASSUME NEW S, IsFiniteSet(S), NEW v, \A x \in S : v[x] \in Int
  PROVE  /\ SumOver(v, S) \in Int
         /\ S = {} => SumOver(v, S) = 0
         /\ \A x \in S : SumOver(v, S) = v[x] + SumOver(v, S \ {x})
         /\ \A x \in S : SumOver(v, S \ {x}) \in Int
<1>1. PICK h : IsSum(v, S, h)  BY SumExists
<1>2. \A T \in SUBSET S : SumOver(v, T) = h[T] /\ h[T] \in Int
  BY <1>1, SumOverIs, SumType
<1>3. S = {} => h[S] = 0
  BY <1>1, SumStepOf
<1>4. \A x \in S : h[S] = v[x] + h[S \ {x}]
  BY <1>1, SumTake
<1>5. S \in SUBSET S /\ \A x \in S : S \ {x} \in SUBSET S  OBVIOUS
<1>. QED  BY <1>2, <1>3, <1>4, <1>5

LEMMA SumOverSame ==
  ASSUME NEW S, IsFiniteSet(S), NEW v, \A x \in S : v[x] \in Int,
         NEW w, \A x \in S : v[x] = w[x]
  PROVE  SumOver(v, S) = SumOver(w, S)
<1>1. PICK g : IsSum(v, S, g)  BY SumExists
<1>2. PICK h : IsSum(w, S, h)  BY SumExists
<1>3. S \in SUBSET S /\ \A x \in S : w[x] \in Int  OBVIOUS
<1>4. g[S] = h[S]  BY <1>1, <1>2, <1>3, SumSame
<1>. QED  BY <1>1, <1>2, <1>3, <1>4, SumOverIs

\* No sum of numbers that are not negative is negative.
LEMMA SumOverNat ==
  ASSUME NEW S, IsFiniteSet(S), NEW v, \A x \in S : v[x] \in Nat
  PROVE  SumOver(v, S) \in Nat
<1>. DEFINE Bad == {t \in SUBSET S : SumOver(v, t) \notin Nat}
<1>1. SUFFICES ASSUME Bad # {} PROVE FALSE  OBVIOUS
<1>2. PICK t \in Bad : \A u \in Bad : Cardinality(t) <= Cardinality(u)
  BY <1>1, SmallestSubset
<1>3. IsFiniteSet(t) /\ \A x \in t : v[x] \in Int  BY FS_Subset
<1>4. t # {}  BY <1>3, SumOverFacts
<1>5. PICK x \in t : SumOver(v, t) = v[x] + SumOver(v, t \ {x})
  BY <1>3, <1>4, SumOverFacts
<1>6. t \ {x} \notin Bad
  <2>1. /\ Cardinality(t) \in Nat /\ Cardinality(t \ {x}) = Cardinality(t) - 1
        /\ t \ {x} \in SUBSET S
    BY <1>3, FS_RemoveElement, FS_CardinalityType
  <2>. QED  BY <1>2, <2>1
<1>. QED  BY <1>5, <1>6

-----------------------------------------------------------------------------
(* The three sums of money. *)

MoneyStep(h, s) == IF s = {} THEN 0 ELSE Choice(s).money + h[Rest(s)]
Money(rows) == [m \in rows |-> m.money]

LEMMA MoneyInIsSum ==
  ASSUME NEW rows, IsFiniteSet(rows), \A m \in rows : m.money \in Int
  PROVE  MoneyIn(rows) = SumOver(Money(rows), rows)
<1>. DEFINE v == Money(rows)
            Eq(h) == h = [s \in SUBSET rows |-> MoneyStep(h, s)]
<1>1. \A x \in rows : v[x] = x.money
  BY DEF Money
<1>. HIDE DEF v
<1>2. \A h : Eq(h) <=> IsSum(v, rows, h)
  <2>1. \A s \in SUBSET rows : s # {} => Choice(s) \in rows
    BY DEF Choice
  <2>2. ASSUME NEW h
        PROVE  \A s \in SUBSET rows : MoneyStep(h, s) = SumStep(v, h, s)
    BY <1>1, <2>1 DEF MoneyStep, SumStep
  <2>. QED  BY <2>2 DEF IsSum
<1>3. MoneyIn(rows) = (CHOOSE h : Eq(h))[rows]
  BY DEF MoneyIn, Total, MapThenSumSet, MapThenFoldSet, MoneyStep, Choice, Rest
<1>4. \A x \in rows : v[x] \in Int
  BY <1>1
<1>. HIDE DEF Eq
<1>5. \E h : Eq(h)
  BY <1>2, <1>4, SumExists
<1>6. PICK h : Eq(h) /\ MoneyIn(rows) = h[rows]
  BY <1>3, <1>5
<1>7. IsSum(v, rows, h) /\ rows \in SUBSET rows
  BY <1>2, <1>6
<1>8. SumOver(v, rows) = h[rows]
  BY <1>4, <1>7, SumOverIs
<1>. QED  BY <1>6, <1>8 DEF v

LEMMA MoneyInNat ==
  ASSUME NEW rows \in SUBSET MailRow, IsFiniteSet(rows)
  PROVE  MoneyIn(rows) \in Nat
<1>1. \A m \in rows : m.money \in Nat /\ Money(rows)[m] \in Nat
  BY DEF MailRow, Money
<1>. QED  BY <1>1, MoneyInIsSum, SumOverNat

-----------------------------------------------------------------------------
(* Rows that are all right: numbered below the next number, of the kind    *)
(* that belongs to their number, and with a sender where one is needed.    *)

ProperMail(m, kinds, nm) ==
  /\ m \in MailRow /\ m.id < nm /\ m.kind = kinds[m.id]
  /\ m.kind = "normal" => m.from \in Players
  /\ m.kind = "auction" => m.cod = 0
Proper(d, kinds, nm, na) ==
  /\ d \in Tables /\ IsFiniteSet(d.mails)
  /\ \A m \in d.mails : ProperMail(m, kinds, nm)
  /\ \A a \in d.auctions : a.id < na

WithMails(d, rows, n) == [d EXCEPT !.mails = rows, !.spent = n]

LEMMA NewMailsProper ==
  ASSUME NEW kinds, NEW nm, NEW na, NEW d, Proper(d, kinds, nm, na),
         NEW rows, IsFiniteSet(rows), \A m \in rows : ProperMail(m, kinds, nm),
         NEW n \in Int
  PROVE  Proper(WithMails(d, rows, n), kinds, nm, na)
<1>1. rows \in SUBSET MailRow  BY DEF ProperMail
<1>2. WithMails(d, rows, n) \in Tables
  BY <1>1 DEF Proper, Tables, WithMails
<1>. QED  BY <1>2 DEF Proper, Tables, WithMails

LEMMA InsertMailsProper ==
  ASSUME NEW kinds, NEW nm, NEW na, NEW d, Proper(d, kinds, nm, na),
         NEW rows, IsFiniteSet(rows), \A m \in rows : ProperMail(m, kinds, nm)
  PROVE  Proper(InsertMails(d, rows), kinds, nm, na)
<1>1. IsFiniteSet(d.mails \cup rows)
  BY FS_Union DEF Proper
<1>2. \A m \in d.mails \cup rows : ProperMail(m, kinds, nm)
  BY DEF Proper
<1>3. InsertMails(d, rows) = WithMails(d, d.mails \cup rows, d.spent) /\ d.spent \in Int
  BY DEF InsertMails, WithMails, Proper, Tables
<1>. QED  BY <1>1, <1>2, <1>3, NewMailsProper

LEMMA SpendProper ==
  ASSUME NEW kinds, NEW nm, NEW na, NEW d, Proper(d, kinds, nm, na), NEW n \in Int
  PROVE  Proper(Spend(d, n), kinds, nm, na)
BY DEF Proper, Spend, Tables

LEMMA DeleteMailsProper ==
  ASSUME NEW kinds, NEW nm, NEW na, NEW d, Proper(d, kinds, nm, na), NEW ids
  PROVE  Proper(DeleteMails(d, ids), kinds, nm, na)
<1>. DEFINE gone == {m \in d.mails : m.id \in ids}
            rest == d.mails \ gone
<1>1. IsFiniteSet(gone) /\ IsFiniteSet(rest) /\ gone \in SUBSET MailRow /\ d.spent \in Int
  BY FS_Subset DEF Proper, Tables
<1>2. d.spent + MoneyIn(gone) \in Int
  BY <1>1, MoneyInNat
<1>3. DeleteMails(d, ids) = WithMails(d, rest, d.spent + MoneyIn(gone))
  BY DEF DeleteMails, WithMails
<1>4. \A m \in rest : ProperMail(m, kinds, nm)
  BY DEF Proper
<1>. HIDE DEF gone, rest
<1>. QED  BY <1>1, <1>2, <1>3, <1>4, NewMailsProper

LEMMA DeleteItemsProper ==
  ASSUME NEW kinds, NEW nm, NEW na, NEW d, Proper(d, kinds, nm, na), NEW gone
  PROVE  Proper(DeleteItems(d, gone), kinds, nm, na)
BY DEF Proper, DeleteItems, Tables

LEMMA LoseItemsProper ==
  ASSUME NEW kinds, NEW nm, NEW na, NEW d, Proper(d, kinds, nm, na), NEW gone \in SUBSET Items
  PROVE  Proper(LoseItems(d, gone), kinds, nm, na)
BY DEF Proper, LoseItems, Tables

\* An update keeps the number of rows finite.
LEMMA ImageFinite ==
  ASSUME NEW S, IsFiniteSet(S), NEW f
  PROVE  IsFiniteSet({f[x] : x \in S})
<1>. DEFINE T == {f[x] : x \in S}
            g == [x \in S |-> f[x]]
<1>1. g \in Surjection(S, T)
  BY DEF Surjection
<1>. QED  BY <1>1, FS_Surjection

LEMMA ReturnMailProper ==
  ASSUME NEW kinds, NEW nm, NEW na, NEW d, Proper(d, kinds, nm, na),
         NEW r \in MailRow, r.from \in Players
  PROVE  Proper(ReturnMail(d, r), kinds, nm, na)
<1>. DEFINE New(m) == IF m.id = r.id
                      THEN [m EXCEPT !.from = r.to, !.to = r.from, !.cod = 0, !.back = TRUE]
                      ELSE m
            rows == {New(m) : m \in d.mails}
<1>1. ASSUME NEW m \in d.mails
      PROVE  ProperMail(New(m), kinds, nm)
  BY DEF Proper, ProperMail, MailRow
<1>2. ReturnMail(d, r) = WithMails(d, rows, d.spent) /\ d.spent \in Int
  BY DEF ReturnMail, WithMails, Proper, Tables
<1>. HIDE DEF New
<1>3. IsFiniteSet(rows)
  <2>. DEFINE f == [m \in d.mails |-> New(m)]
  <2>1. rows = {f[m] : m \in d.mails}
    OBVIOUS
  <2>. HIDE DEF f, rows
  <2>. QED  BY <2>1, ImageFinite DEF Proper
<1>4. \A m \in rows : ProperMail(m, kinds, nm)
  BY <1>1
<1>. HIDE DEF rows
<1>. QED  BY <1>2, <1>3, <1>4, NewMailsProper

LEMMA UInt32Facts ==
  /\ \A n \in Nat : UInt32(n) \in Nat /\ UInt32(n) < 2 * Half
  /\ \A n \in Nat : n < 2 * Half => UInt32(n) = n
  /\ UInt32(0) = 0
<1>1. PICK w \in Nat \ {0} : w = 2 * Half
  BY TablesAssumption
<1>2. \A n \in Nat : n % w \in Nat /\ n % w < w /\ (n < w => n % w = n)
  OBVIOUS
<1>. QED  BY <1>1, <1>2 DEF UInt32

LEMMA UpdateMailsProper ==
  ASSUME NEW kinds, NEW nm, NEW na, NEW d, Proper(d, kinds, nm, na),
         NEW letters, \A l \in letters : ProperMail(l, kinds, nm)
  PROVE  Proper(UpdateMails(d, letters), kinds, nm, na)
<1>. DEFINE Of(m) == CHOOSE l \in letters : l.id = m.id
            Set(m, l) == [m EXCEPT !.item = l.item, !.money = UInt32(l.money),
                                   !.cod = UInt32(l.cod)]
            New(m) == IF \E l \in letters : l.id = m.id THEN Set(m, Of(m)) ELSE m
            rows == {New(m) : m \in d.mails}
<1>1. ASSUME NEW m \in d.mails, NEW l \in letters, l.id = m.id
      PROVE  ProperMail(Set(m, l), kinds, nm)
  <2>1. /\ m \in MailRow /\ ProperMail(m, kinds, nm)
        /\ l \in MailRow /\ ProperMail(l, kinds, nm) /\ l.kind = m.kind
    BY <1>1 DEF Proper, ProperMail
  <2>2. UInt32(l.money) \in Nat /\ UInt32(l.cod) \in Nat /\ (l.cod = 0 => UInt32(l.cod) = 0)
    BY <2>1, UInt32Facts DEF MailRow
  <2>. QED  BY <2>1, <2>2 DEF ProperMail, MailRow
<1>. HIDE DEF Set
<1>2. ASSUME NEW m \in d.mails
      PROVE  ProperMail(New(m), kinds, nm)
  <2>1. CASE \E l \in letters : l.id = m.id
    <3>1. Of(m) \in letters /\ Of(m).id = m.id  BY <2>1
    <3>. HIDE DEF Of
    <3>. QED  BY <1>1, <2>1, <3>1
  <2>2. CASE ~\E l \in letters : l.id = m.id
    BY <2>2 DEF Proper
  <2>. QED  BY <2>1, <2>2
<1>3. UpdateMails(d, letters) = WithMails(d, rows, d.spent) /\ d.spent \in Int
  <2>1. d \in Tables /\ d.spent \in Int  BY DEF Proper, Tables
  <2>2. UpdateMails(d, letters) = [d EXCEPT !.mails = rows]
    BY DEF UpdateMails, Set
  <2>. HIDE DEF rows
  <2>. QED  BY <2>1, <2>2 DEF WithMails, Tables
<1>. HIDE DEF New
<1>4. IsFiniteSet(rows)
  <2>. DEFINE f == [m \in d.mails |-> New(m)]
  <2>1. rows = {f[m] : m \in d.mails}
    OBVIOUS
  <2>. HIDE DEF f, rows
  <2>. QED  BY <2>1, ImageFinite DEF Proper
<1>5. \A m \in rows : ProperMail(m, kinds, nm)
  BY <1>2
<1>. HIDE DEF rows
<1>. QED  BY <1>3, <1>4, <1>5, NewMailsProper

LEMMA InsertAuctionProper ==
  ASSUME NEW kinds, NEW nm, NEW na, NEW d, Proper(d, kinds, nm, na),
         NEW a \in AuctionRow, a.id < na
  PROVE  Proper(InsertAuction(d, a), kinds, nm, na)
BY DEF Proper, InsertAuction, Tables

LEMMA DeleteAuctionProper ==
  ASSUME NEW kinds, NEW nm, NEW na, NEW d, Proper(d, kinds, nm, na), NEW a
  PROVE  Proper(DeleteAuction(d, a), kinds, nm, na)
BY DEF Proper, DeleteAuction, Tables

LEMMA UpdateBidProper ==
  ASSUME NEW kinds, NEW nm, NEW na, NEW d, Proper(d, kinds, nm, na), NEW a \in AuctionRow
  PROVE  Proper(UpdateBid(d, a), kinds, nm, na)
<1>. DEFINE New(r) == IF r.id = a.id THEN [r EXCEPT !.bidder = a.bidder, !.bid = UInt32(a.bid)]
                      ELSE r
            rows == {New(r) : r \in d.auctions}
<1>1. UInt32(a.bid) \in Nat
  BY UInt32Facts DEF AuctionRow
<1>2. ASSUME NEW r \in d.auctions
      PROVE  New(r) \in AuctionRow /\ New(r).id < na
  BY <1>1 DEF Proper, Tables, AuctionRow
<1>3. UpdateBid(d, a) = [d EXCEPT !.auctions = rows]
  BY DEF UpdateBid
<1>. HIDE DEF New
<1>4. rows \in SUBSET AuctionRow /\ \A r \in rows : r.id < na
  BY <1>2
<1>. HIDE DEF rows
<1>. QED  BY <1>3, <1>4 DEF Proper, Tables

LEMMA InventoryProper ==
  ASSUME NEW kinds, NEW nm, NEW na, NEW d, Proper(d, kinds, nm, na),
         NEW p \in Players, NEW i \in Items
  PROVE  /\ Proper(PutInInventory(d, p, i), kinds, nm, na)
         /\ Proper(DeleteFromInventory(d, i), kinds, nm, na)
BY DEF Proper, PutInInventory, DeleteFromInventory, Tables


-----------------------------------------------------------------------------
(* Which columns a statement changes. *)

Same(d, r) == r.gold = d.gold /\ r.inv = d.inv /\ r.items = d.items /\ r.lost = d.lost

LEMMA Columns ==
  ASSUME NEW d \in Tables
  PROVE  /\ \A rows : LET r == InsertMails(d, rows)
                      IN  Same(d, r) /\ r.mails = d.mails \cup rows /\ r.auctions = d.auctions
         /\ \A n : LET r == Spend(d, n)
                   IN  Same(d, r) /\ r.mails = d.mails /\ r.auctions = d.auctions
         /\ \A ids : LET r == DeleteMails(d, ids)
                     IN  /\ Same(d, r) /\ r.auctions = d.auctions
                         /\ r.mails = {m \in d.mails : m.id \notin ids}
         /\ \A gone : LET r == DeleteItems(d, gone)
                      IN  /\ r.gold = d.gold /\ r.inv = d.inv /\ r.items = d.items \ gone
                          /\ r.mails = d.mails /\ r.auctions = d.auctions /\ r.lost = d.lost
         /\ \A gone : LET r == LoseItems(d, gone)
                      IN  /\ r.gold = d.gold /\ r.inv = d.inv /\ r.items = d.items
                          /\ r.mails = d.mails /\ r.auctions = d.auctions
                          /\ r.lost = d.lost \cup gone
         /\ \A a : LET r == InsertAuction(d, a)
                   IN  Same(d, r) /\ r.mails = d.mails /\ r.auctions = d.auctions \cup {a}
         /\ \A a : LET r == DeleteAuction(d, a)
                   IN  /\ Same(d, r) /\ r.mails = d.mails
                       /\ r.auctions = {x \in d.auctions : x.id # a.id}
<1>1. \A rows : LET r == InsertMails(d, rows)
                IN  Same(d, r) /\ r.mails = d.mails \cup rows /\ r.auctions = d.auctions
  BY DEF Tables, InsertMails, Same
<1>2. \A n : LET r == Spend(d, n)
             IN  Same(d, r) /\ r.mails = d.mails /\ r.auctions = d.auctions
  BY DEF Tables, Spend, Same
<1>3. \A ids : LET r == DeleteMails(d, ids)
               IN  /\ Same(d, r) /\ r.auctions = d.auctions
                   /\ r.mails = {m \in d.mails : m.id \notin ids}
  BY DEF Tables, DeleteMails, Same
<1>4. \A gone : LET r == DeleteItems(d, gone)
                IN  /\ r.gold = d.gold /\ r.inv = d.inv /\ r.items = d.items \ gone
                    /\ r.mails = d.mails /\ r.auctions = d.auctions /\ r.lost = d.lost
  BY DEF Tables, DeleteItems
<1>7. \A gone : LET r == LoseItems(d, gone)
                IN  /\ r.gold = d.gold /\ r.inv = d.inv /\ r.items = d.items
                    /\ r.mails = d.mails /\ r.auctions = d.auctions
                    /\ r.lost = d.lost \cup gone
  BY DEF Tables, LoseItems
<1>5. \A a : LET r == InsertAuction(d, a)
             IN  Same(d, r) /\ r.mails = d.mails /\ r.auctions = d.auctions \cup {a}
  BY DEF Tables, InsertAuction, Same
<1>6. \A a : LET r == DeleteAuction(d, a)
             IN  /\ Same(d, r) /\ r.mails = d.mails
                 /\ r.auctions = {x \in d.auctions : x.id # a.id}
  BY DEF Tables, DeleteAuction, Same
<1>. QED  BY <1>1, <1>2, <1>3, <1>4, <1>5, <1>6, <1>7

\* The columns but that of the bags.
SameButInv(d, r) ==
  /\ r.gold = d.gold /\ r.items = d.items /\ r.mails = d.mails
  /\ r.lost = d.lost /\ r.auctions = d.auctions

LEMMA MoreColumns ==
  ASSUME NEW d \in Tables
  PROVE  /\ \A letters : LET r == UpdateMails(d, letters)
                         IN  Same(d, r) /\ r.auctions = d.auctions
         /\ \A m : LET r == ReturnMail(d, m)
                   IN  Same(d, r) /\ r.auctions = d.auctions
         /\ \A a : LET r == UpdateBid(d, a)
                   IN  Same(d, r) /\ r.mails = d.mails
         /\ \A i \in Items : LET r == DeleteFromInventory(d, i)
                     IN  /\ SameButInv(d, r)
                         /\ r.inv = [d.inv EXCEPT ![i] = None]
         /\ \A p, i : LET r == PutInInventory(d, p, i)
                      IN  /\ SameButInv(d, r)
                          /\ r.inv = [d.inv EXCEPT ![i] = p]
<1>1. \A letters : LET r == UpdateMails(d, letters)
                   IN  Same(d, r) /\ r.auctions = d.auctions
  BY DEF Tables, UpdateMails, Same
<1>2. \A m : LET r == ReturnMail(d, m)
             IN  Same(d, r) /\ r.auctions = d.auctions
  BY DEF Tables, ReturnMail, Same
<1>3. \A a : LET r == UpdateBid(d, a)
             IN  Same(d, r) /\ r.mails = d.mails
  BY DEF Tables, UpdateBid, Same
<1>4. \A i \in Items : LET r == DeleteFromInventory(d, i)
                     IN  /\ SameButInv(d, r)
                         /\ r.inv = [d.inv EXCEPT ![i] = None]
  BY DEF Tables, DeleteFromInventory, SameButInv
<1>5. \A p, i : LET r == PutInInventory(d, p, i)
                IN  /\ SameButInv(d, r)
                    /\ r.inv = [d.inv EXCEPT ![i] = p]
  BY DEF Tables, PutInInventory, SameButInv
<1>. QED  BY <1>1, <1>2, <1>3, <1>4, <1>5

\* The row m as the letter l has it.
Updated(m, l) ==
  [m EXCEPT !.item = l.item, !.money = UInt32(l.money), !.cod = UInt32(l.cod)]
OneEach(letters) == \A l, x \in letters : l.id = x.id => l = x

LEMMA UpdatedRows ==
  ASSUME NEW d \in Tables, NEW letters, OneEach(letters), NEW r, r = UpdateMails(d, letters)
  PROVE  /\ \A m \in d.mails : (\A l \in letters : l.id # m.id) => m \in r.mails
         /\ \A m \in d.mails, l \in letters : l.id = m.id => Updated(m, l) \in r.mails
         /\ \A x \in r.mails : \/ x \in d.mails /\ \A l \in letters : l.id # x.id
                               \/ \E m \in d.mails, l \in letters : l.id = m.id /\ x = Updated(m, l)
<1>. DEFINE New(m) == IF \E l \in letters : l.id = m.id
                      THEN Updated(m, CHOOSE l \in letters : l.id = m.id) ELSE m
<1>1. r.mails = {New(m) : m \in d.mails}
  BY DEF UpdateMails, Updated, Tables
<1>2. ASSUME NEW m \in d.mails, \A l \in letters : l.id # m.id
      PROVE  New(m) = m
  BY <1>2
<1>3. ASSUME NEW m \in d.mails, NEW l \in letters, l.id = m.id
      PROVE  New(m) = Updated(m, l)
  <2>1. (CHOOSE x \in letters : x.id = m.id) = l
    BY <1>3 DEF OneEach
  <2>. QED  BY <1>3, <2>1
<1>. HIDE DEF New
<1>. QED  BY <1>1, <1>2, <1>3

\* The row m after CHAR_UPD_MAIL_RETURNED with the values of x.
Returned(m, x) == [m EXCEPT !.from = x.to, !.to = x.from, !.cod = 0, !.back = TRUE]

LEMMA ReturnedRows ==
  ASSUME NEW d \in Tables, NEW x, NEW r, r = ReturnMail(d, x)
  PROVE  /\ \A m \in d.mails : m.id # x.id => m \in r.mails
         /\ \A m \in d.mails : m.id = x.id => Returned(m, x) \in r.mails
         /\ \A y \in r.mails : \/ y \in d.mails /\ y.id # x.id
                               \/ \E m \in d.mails : m.id = x.id /\ y = Returned(m, x)
<1>. DEFINE New(m) == IF m.id = x.id THEN Returned(m, x) ELSE m
<1>1. r.mails = {New(m) : m \in d.mails}
  BY DEF ReturnMail, Returned, Tables
<1>2. \A m \in d.mails : m.id # x.id => New(m) = m
  OBVIOUS
<1>3. \A m \in d.mails : m.id = x.id => New(m) = Returned(m, x)
  OBVIOUS
<1>. HIDE DEF New
<1>. QED  BY <1>1, <1>2, <1>3

BidSaved(r, a) == [r EXCEPT !.bidder = a.bidder, !.bid = UInt32(a.bid)]

LEMMA BidRows ==
  ASSUME NEW d \in Tables, NEW a, NEW r, r = UpdateBid(d, a)
  PROVE  /\ \A x \in d.auctions : x.id # a.id => x \in r.auctions
         /\ \A x \in d.auctions : x.id = a.id => BidSaved(x, a) \in r.auctions
         /\ \A y \in r.auctions : \/ y \in d.auctions /\ y.id # a.id
                                  \/ \E x \in d.auctions : x.id = a.id /\ y = BidSaved(x, a)
<1>. DEFINE New(x) == IF x.id = a.id THEN BidSaved(x, a) ELSE x
<1>1. r.auctions = {New(x) : x \in d.auctions}
  BY DEF UpdateBid, BidSaved, Tables
<1>2. \A x \in d.auctions : x.id # a.id => New(x) = x
  OBVIOUS
<1>3. \A x \in d.auctions : x.id = a.id => New(x) = BidSaved(x, a)
  OBVIOUS
<1>. HIDE DEF New
<1>. QED  BY <1>1, <1>2, <1>3

-----------------------------------------------------------------------------
(* Numbers are used once, and who holds an item.                           *)

UniqueIds(d) ==
  /\ \A m, n \in d.mails : m.id = n.id => m = n
  /\ \A a, b \in d.auctions : a.id = b.id => a = b
Ids(rows, i) == {m.id : m \in {x \in rows : x.item = i}}
\* i is with a player, in one letter or in one auction, or lost and nowhere.
Held(d, i) ==
  \/ i \notin d.lost /\ d.inv[i] # None /\ Ids(d.mails, i) = {} /\ Ids(d.auctions, i) = {}
  \/ /\ i \notin d.lost /\ d.inv[i] = None /\ Ids(d.auctions, i) = {}
     /\ \E x : Ids(d.mails, i) = {x}
  \/ /\ i \notin d.lost /\ d.inv[i] = None /\ Ids(d.mails, i) = {}
     /\ \E x : Ids(d.auctions, i) = {x}
  \/ i \in d.lost /\ d.inv[i] = None /\ Ids(d.mails, i) = {} /\ Ids(d.auctions, i) = {}

LEMMA IdsFacts ==
  ASSUME NEW rows, NEW i
  PROVE  /\ \A x : x \in Ids(rows, i) <=> \E m \in rows : m.item = i /\ m.id = x
         /\ \A more : Ids(rows \cup more, i) = Ids(rows, i) \cup Ids(more, i)
BY DEF Ids

LEMMA ReturnedIds ==
  ASSUME NEW d \in Tables, UniqueIds(d), NEW x, NEW r, r = ReturnMail(d, x)
  PROVE  UniqueIds(r) /\ \A i : Ids(r.mails, i) = Ids(d.mails, i)
<1>1. \A m \in d.mails : Returned(m, x).id = m.id /\ Returned(m, x).item = m.item
  BY DEF Tables, MailRow, Returned
<1>2. UniqueIds(r)
  <2>1. r.auctions = d.auctions  BY MoreColumns
  <2>. QED  BY <1>1, <2>1, ReturnedRows DEF UniqueIds
<1>3. ASSUME NEW i
      PROVE  Ids(r.mails, i) = Ids(d.mails, i)
  <2>1. \A k : k \in Ids(r.mails, i) => k \in Ids(d.mails, i)
    BY <1>1, ReturnedRows, IdsFacts
  <2>2. ASSUME NEW k, k \in Ids(d.mails, i)
        PROVE  k \in Ids(r.mails, i)
    <3>1. PICK m \in d.mails : m.item = i /\ m.id = k
      BY <2>2, IdsFacts
    <3>2. m \in r.mails \/ Returned(m, x) \in r.mails
      BY ReturnedRows
    <3>. QED  BY <1>1, <3>1, <3>2, IdsFacts
  <2>. QED  BY <2>1, <2>2
<1>. QED  BY <1>2, <1>3

LEMMA DeletedIds ==
  ASSUME NEW d \in Tables, UniqueIds(d), NEW ids, NEW r, r = DeleteMails(d, ids)
  PROVE  UniqueIds(r) /\ \A i : Ids(r.mails, i) = Ids(d.mails, i) \ ids
<1>1. r.auctions = d.auctions /\ r.mails = {m \in d.mails : m.id \notin ids}
  BY Columns
<1>2. UniqueIds(r)
  BY <1>1 DEF UniqueIds
<1>. QED  BY <1>1, <1>2 DEF Ids

\* A number of the column fits in 32 bits.
Fits(n) == n < 2 * Half
AuctionsFit(d) ==
  \A a \in d.auctions : /\ a.item \in d.items
                        /\ Fits(a.bid + a.deposit) /\ Fits(a.buyout + a.deposit)
MailsFit(rows) == \A m \in rows : Fits(m.money) /\ Fits(m.cod)
\* Every item but those of S is in one place, and no number is cut.
GoodBut(d, S) ==
  /\ UniqueIds(d) /\ AuctionsFit(d) /\ MailsFit(d.mails)
  /\ \A i \in d.items \ S : Held(d, i)
GoodTables(d) == GoodBut(d, {})

LEMMA HeldSame ==
  ASSUME NEW d, NEW r, NEW i, r.inv[i] = d.inv[i], Ids(r.mails, i) = Ids(d.mails, i),
         Ids(r.auctions, i) = Ids(d.auctions, i), r.lost = d.lost, Held(d, i)
  PROVE  Held(r, i)
BY DEF Held

\* Letters that carry i or nothing are sent.
CarryOnly(letters, i) ==
  /\ \A l, x \in letters : l.id = x.id => l = x
  /\ MailsFit(letters)
  /\ \A l \in letters : l.item \in {i, None}
  /\ i # None => \E x : Ids(letters, i) = {x}

LEMMA PostedGood ==
  ASSUME NEW d \in Tables, NEW r \in Tables, NEW i, GoodBut(d, {i}), NEW letters,
         CarryOnly(letters, i), \A m \in d.mails, l \in letters : m.id # l.id,
         r.mails = d.mails \cup letters, r.items = d.items, r.lost = d.lost, AuctionsFit(r),
         \A a, b \in r.auctions : a.id = b.id => a = b,
         \A j \in d.items \ {i} : r.inv[j] = d.inv[j] /\ Ids(r.auctions, j) = Ids(d.auctions, j),
         i \in d.items => /\ r.inv[i] = None /\ Ids(r.auctions, i) = {} /\ Ids(d.mails, i) = {}
                          /\ i \notin d.lost
  PROVE  GoodTables(r)
<1>1. None \notin d.items  BY TablesAssumption DEF Tables
<1>2. UniqueIds(r)
  BY DEF UniqueIds, CarryOnly, GoodBut
<1>3. MailsFit(r.mails)
  BY DEF MailsFit, CarryOnly, GoodBut
<1>4. \A j : Ids(r.mails, j) = Ids(d.mails, j) \cup Ids(letters, j)
  BY IdsFacts
<1>5. ASSUME NEW j \in d.items, j # i
      PROVE  Held(r, j)
  <2>1. Ids(letters, j) = {}
    BY <1>1, <1>5 DEF Ids, CarryOnly
  <2>2. Ids(r.mails, j) = Ids(d.mails, j) \cup Ids(letters, j)
    BY ONLY <1>4
  <2>3. Ids(r.mails, j) = Ids(d.mails, j)
    BY ONLY <2>1, <2>2
  <2>4. /\ Held(d, j) /\ r.inv[j] = d.inv[j] /\ Ids(r.auctions, j) = Ids(d.auctions, j)
        /\ r.lost = d.lost
    BY <1>5 DEF GoodBut
  <2>. QED  BY ONLY <2>3, <2>4, HeldSame
<1>6. ASSUME i \in d.items
      PROVE  Held(r, i)
  <2>1. \E x : Ids(letters, i) = {x}
    BY <1>1, <1>6 DEF CarryOnly
  <2>2. Ids(r.mails, i) = Ids(d.mails, i) \cup Ids(letters, i) /\ Ids(d.mails, i) = {}
    BY <1>4, <1>6
  <2>3. Ids(r.mails, i) = Ids(letters, i)
    BY ONLY <2>2
  <2>. QED  BY <1>6, <2>1, <2>3 DEF Held
<1>. QED  BY <1>2, <1>3, <1>5, <1>6 DEF GoodTables, GoodBut

-----------------------------------------------------------------------------
(* What saving a mailbox does: U are its changed letters, D the deleted    *)
(* ones, i the item that is taken from one of U, or None.                  *)

\* The row m as a mailbox has it.
View(d, m) == IF m.item \in d.items THEN m ELSE [m EXCEPT !.item = None]
SaveLetters(d, U, D) ==
  DeleteItems(DeleteMails(UpdateMails(d, U), {m.id : m \in D}), {m.item : m \in D} \ {None})
\* l is the row m but for its attachment and money, and item is not added.
Changed(d, m, l, i) ==
  /\ l = [m EXCEPT !.item = l.item, !.money = l.money, !.cod = l.cod]
  /\ l.item = View(d, m).item \/ (l.item = None /\ m.item = i)
LettersOf(d, U, D, i) ==
  /\ \A l \in D : \E m \in d.mails : l = View(d, m)
  /\ \A l \in U : l \in MailRow /\ \E m \in d.mails : Changed(d, m, l, i)
  /\ MailsFit(U)
  /\ \A l, x \in U \cup D : l.id = x.id => l = x
  /\ U \cap D = {}

LEMMA ViewFacts ==
  ASSUME NEW d \in Tables, NEW m \in d.mails
  PROVE  /\ m \in MailRow /\ View(d, m).id = m.id /\ View(d, m).to = m.to
         /\ View(d, m) = [m EXCEPT !.item = View(d, m).item]
         /\ View(d, m).item = IF m.item \in d.items THEN m.item ELSE None
         /\ None \notin d.items
<1>1. m \in MailRow /\ None \notin d.items
  BY TablesAssumption DEF Tables
<1>. QED  BY <1>1 DEF View, MailRow

LEMMA SavedRows ==
  ASSUME NEW d \in Tables, UniqueIds(d), NEW U, NEW D, NEW i, LettersOf(d, U, D, i),
         NEW r, r = SaveLetters(d, U, D)
  PROVE  /\ \A m \in d.mails : (\A l \in U \cup D : l.id # m.id) => m \in r.mails
         /\ U \subseteq r.mails
         /\ \A y \in r.mails : \/ y \in d.mails /\ \A l \in U \cup D : l.id # y.id
                               \/ y \in U
         /\ r.gold = d.gold /\ r.inv = d.inv /\ r.auctions = d.auctions /\ r.lost = d.lost
         /\ r.items = d.items \ ({m.item : m \in D} \ {None})
<1>. PICK u : u = UpdateMails(d, U)  OBVIOUS
<1>. PICK v : v = DeleteMails(u, {m.id : m \in D})  OBVIOUS
<1>1. /\ u.gold = d.gold /\ u.inv = d.inv /\ u.items = d.items /\ u.auctions = d.auctions
      /\ u.lost = d.lost
  BY MoreColumns DEF Same
<1>2. u = [d EXCEPT !.mails = u.mails]
  BY DEF UpdateMails, Tables
<1>3. /\ v = [u EXCEPT !.mails = v.mails, !.spent = v.spent]
      /\ v.mails = {m \in u.mails : m.id \notin {x.id : x \in D}}
      /\ v.gold = u.gold /\ v.inv = u.inv /\ v.items = u.items /\ v.auctions = u.auctions
      /\ v.lost = u.lost
  BY <1>2 DEF DeleteMails, Tables
<1>4. /\ r = DeleteItems(v, {m.item : m \in D} \ {None})
      /\ r.gold = v.gold /\ r.inv = v.inv /\ r.auctions = v.auctions /\ r.mails = v.mails
      /\ r.lost = v.lost
      /\ r.items = v.items \ ({m.item : m \in D} \ {None})
  BY <1>2, <1>3 DEF SaveLetters, DeleteItems, Tables
<1>5. /\ r.gold = d.gold /\ r.inv = d.inv /\ r.auctions = d.auctions /\ r.lost = d.lost
      /\ r.items = d.items \ ({m.item : m \in D} \ {None})
  BY <1>1, <1>3, <1>4
<1>6. OneEach(U)
  BY DEF OneEach, LettersOf
<1>7. ASSUME NEW m \in d.mails, NEW l \in U, l.id = m.id
      PROVE  Updated(m, l) = l
  <2>1. PICK n \in d.mails : l = [n EXCEPT !.item = l.item, !.money = l.money, !.cod = l.cod]
    BY DEF LettersOf, Changed
  <2>2. n \in MailRow  BY DEF Tables
  <2>3. l.id = n.id
    BY <2>1, <2>2 DEF MailRow
  <2>4. n = m
    BY <1>7, <2>3 DEF UniqueIds
  <2>5. l \in MailRow /\ UInt32(l.money) = l.money /\ UInt32(l.cod) = l.cod
    BY UInt32Facts DEF LettersOf, MailsFit, Fits, MailRow
  <2>. QED  BY <2>1, <2>4, <2>5 DEF Updated
<1>8. \A l \in U : \E m \in d.mails : l.id = m.id
  <2>1. \A l \in U : \E m \in d.mails : Changed(d, m, l, i) /\ m \in MailRow
    BY DEF LettersOf, Tables
  <2>. QED  BY <2>1 DEF Changed, MailRow
<1>9. \A y : y \in r.mails <=> y \in u.mails /\ \A x \in D : x.id # y.id
  BY <1>3, <1>4
<1>10. \A l \in U, x \in D : l.id # x.id
  BY DEF LettersOf
<1>11. /\ \A m \in d.mails : (\A l \in U : l.id # m.id) => m \in u.mails
       /\ \A l \in U : l \in u.mails
       /\ \A y \in u.mails : (y \in d.mails /\ \A l \in U : l.id # y.id) \/ y \in U
  <2>1. /\ \A m \in d.mails : (\A l \in U : l.id # m.id) => m \in u.mails
        /\ \A m \in d.mails, l \in U : l.id = m.id => Updated(m, l) \in u.mails
        /\ \A x \in u.mails : \/ x \in d.mails /\ \A l \in U : l.id # x.id
                              \/ \E m \in d.mails, l \in U : l.id = m.id /\ x = Updated(m, l)
    BY <1>6, UpdatedRows
  <2>. QED  BY <2>1, <1>7, <1>8
<1>. QED  BY <1>5, <1>9, <1>10, <1>11

\* The letter that is in the way of i: it has given i away.
TakenFrom(d, U, i) ==
  i \in d.items => /\ d.inv[i] # None /\ Ids(d.auctions, i) = {} /\ i \notin d.lost
                   /\ \E l \in U : l.item = None /\ Ids(d.mails, i) = {l.id}

LEMMA LetterItems ==
  ASSUME NEW d \in Tables, NEW i, GoodBut(d, {i}), NEW U, NEW D, LettersOf(d, U, D, i),
         TakenFrom(d, U, i), NEW l \in U \cup D, l.item # None
  PROVE  /\ l.item \in d.items /\ l.item # i /\ Ids(d.mails, l.item) = {l.id}
         /\ d.inv[l.item] = None /\ Ids(d.auctions, l.item) = {}
<1>1. \E m \in d.mails : l.id = m.id /\ l.item = View(d, m).item
  <2>1. CASE l \in D
    <3>1. PICK m \in d.mails : l = View(d, m)  BY <2>1 DEF LettersOf
    <3>. QED  BY <3>1, ViewFacts
  <2>2. CASE l \in U
    <3>1. PICK m \in d.mails : Changed(d, m, l, i)  BY <2>2 DEF LettersOf
    <3>2. m \in MailRow  BY DEF Tables
    <3>. QED  BY <3>1, <3>2 DEF Changed, MailRow
  <2>. QED  BY <2>1, <2>2
<1>2. PICK m \in d.mails : l.id = m.id /\ l.item = m.item /\ m.item \in d.items
  BY <1>1, ViewFacts
<1>3. l.id \in Ids(d.mails, l.item)
  BY <1>2, IdsFacts
<1>4. l.item # i
  <2>1. SUFFICES ASSUME l.item = i PROVE FALSE  OBVIOUS
  <2>2. PICK x \in U : x.item = None /\ Ids(d.mails, i) = {x.id}
    BY <1>2, <2>1 DEF TakenFrom
  <2>3. l.id = x.id
    BY <1>3, <2>1, <2>2
  <2>4. l = x
    BY <2>3 DEF LettersOf
  <2>. QED  BY <2>2, <2>4
<1>5. Held(d, l.item)
  BY <1>2, <1>4 DEF GoodBut
<1>. QED  BY <1>2, <1>3, <1>4, <1>5 DEF Held

\* What the tables r are after the letters have been saved to d.
SavedTo(d, r, U, D) ==
  /\ GoodTables(r)
  /\ \A m \in d.mails : (\A l \in U \cup D : l.id # m.id) =>
       (m.item \in r.items <=> m.item \in d.items)
  /\ \A l \in U : l \in r.mails /\ View(r, l) = l
  /\ r.items \subseteq d.items /\ \A j \in d.items \ r.items : d.inv[j] = None

LEMMA SavedGood ==
  ASSUME NEW d \in Tables, NEW i, GoodBut(d, {i}), NEW U, NEW D, LettersOf(d, U, D, i),
         TakenFrom(d, U, i), NEW r, r = SaveLetters(d, U, D)
  PROVE  SavedTo(d, r, U, D)
<1>1. /\ UniqueIds(d) /\ AuctionsFit(d) /\ MailsFit(d.mails) /\ None \notin d.items
      /\ \A m \in d.mails : m \in MailRow
  BY TablesAssumption DEF GoodBut, Tables
<1>2. /\ \A m \in d.mails : (\A l \in U \cup D : l.id # m.id) => m \in r.mails
      /\ U \subseteq r.mails
      /\ \A y \in r.mails : \/ y \in d.mails /\ \A l \in U \cup D : l.id # y.id
                            \/ y \in U
      /\ r.gold = d.gold /\ r.inv = d.inv /\ r.auctions = d.auctions /\ r.lost = d.lost
      /\ r.items = d.items \ ({m.item : m \in D} \ {None})
  BY <1>1, SavedRows
<1>3. \A l \in U \cup D : l.item # None =>
        /\ l.item \in d.items /\ l.item # i /\ Ids(d.mails, l.item) = {l.id}
        /\ d.inv[l.item] = None /\ Ids(d.auctions, l.item) = {}
  BY LetterItems
<1>4. \A j \in d.items \ r.items : \E l \in D : l.item = j
  BY <1>2
<1>5. UniqueIds(r)
  <2>1. ASSUME NEW x \in r.mails, NEW y \in r.mails, x.id = y.id
        PROVE  x = y
    BY <1>1, <1>2, <2>1 DEF UniqueIds, LettersOf
  <2>. QED  BY <1>1, <1>2, <2>1 DEF UniqueIds
<1>6. MailsFit(r.mails)
  BY <1>1, <1>2 DEF MailsFit, LettersOf
<1>7. AuctionsFit(r)
  <2>1. ASSUME NEW a \in d.auctions
        PROVE  a.item \in r.items
    <3>1. a.item \in d.items /\ a.id \in Ids(d.auctions, a.item)
      BY <1>1, IdsFacts DEF AuctionsFit
    <3>. QED  BY <3>1, <1>1, <1>3, <1>4
  <2>. QED  BY <1>1, <1>2, <2>1 DEF AuctionsFit
<1>8. ASSUME NEW j \in r.items, j # i
      PROVE  Held(r, j)
  <2>1. j \in d.items /\ j # None /\ Held(d, j)
    BY <1>1, <1>2, <1>8 DEF GoodBut
  <2>2. ASSUME NEW x, x \in Ids(d.mails, j)
        PROVE  x \in Ids(r.mails, j)
    <3>1. PICK m \in d.mails : m.item = j /\ m.id = x
      BY <2>2, IdsFacts
    <3>2. CASE \A l \in U \cup D : l.id # m.id
      BY <1>2, <3>1, <3>2, IdsFacts
    <3>3. CASE \E l \in D : l.id = m.id
      <4>1. PICK l \in D, n \in d.mails : l.id = m.id /\ l = View(d, n)
        BY <3>3 DEF LettersOf
      <4>2. n = m
        BY <1>1, <4>1, ViewFacts DEF UniqueIds
      <4>3. l.item = j
        BY <2>1, <3>1, <4>1, <4>2, ViewFacts
      <4>. QED  BY <1>2, <2>1, <4>3
    <3>4. CASE \E l \in U : l.id = m.id
      <4>1. PICK l \in U, n \in d.mails : l.id = m.id /\ Changed(d, n, l, i)
        BY <3>4 DEF LettersOf
      <4>2. n = m
        <5>1. l.id = n.id  BY <1>1, <4>1 DEF Changed, MailRow
        <5>. QED  BY <1>1, <4>1, <5>1 DEF UniqueIds
      <4>3. l.item = View(d, m).item
        BY <1>8, <3>1, <4>1, <4>2 DEF Changed
      <4>4. l.item = j
        BY <2>1, <3>1, <4>3, ViewFacts
      <4>. QED  BY <1>2, <3>1, <4>1, <4>4, IdsFacts
    <3>. QED  BY <3>2, <3>3, <3>4
  <2>3. ASSUME NEW x, x \in Ids(r.mails, j)
        PROVE  x \in Ids(d.mails, j)
    <3>1. PICK y \in r.mails : y.item = j /\ y.id = x
      BY <2>3, IdsFacts
    <3>2. CASE y \in d.mails
      BY <3>1, <3>2, IdsFacts
    <3>3. CASE y \in U
      BY <1>3, <2>1, <3>1, <3>3
    <3>. QED  BY <1>2, <3>2, <3>3
  <2>4. Ids(r.mails, j) = Ids(d.mails, j)
    BY ONLY <2>2, <2>3
  <2>. QED  BY <1>2, <2>1, <2>4, HeldSame
<1>9. ASSUME i \in r.items
      PROVE  Held(r, i)
  <2>1. i \in d.items /\ i # None  BY <1>1, <1>2, <1>9
  <2>2. PICK l \in U : l.item = None /\ Ids(d.mails, i) = {l.id}
    BY <2>1 DEF TakenFrom
  <2>3. ASSUME NEW y \in r.mails, y.item = i
        PROVE  FALSE
    <3>1. CASE y \in U
      BY <1>3, <2>1, <2>3, <3>1
    <3>2. CASE y \in d.mails /\ \A x \in U \cup D : x.id # y.id
      <4>1. y.id \in Ids(d.mails, i)  BY <2>3, <3>2, IdsFacts
      <4>. QED  BY <2>2, <3>2, <4>1
    <3>. QED  BY <1>2, <3>1, <3>2
  <2>4. Ids(r.mails, i) = {}
    BY <2>3 DEF Ids
  <2>. QED  BY <1>2, <2>1, <2>4 DEF TakenFrom, Held
<1>10. GoodTables(r)
  BY <1>5, <1>6, <1>7, <1>8, <1>9 DEF GoodTables, GoodBut
<1>11. ASSUME NEW m \in d.mails, \A l \in U \cup D : l.id # m.id, m.item \in d.items
       PROVE  m.item \in r.items
  <2>1. SUFFICES ASSUME m.item \notin r.items PROVE FALSE  OBVIOUS
  <2>2. PICK l \in D : l.item = m.item  BY <1>4, <1>11, <2>1
  <2>3. m.id \in Ids(d.mails, m.item)  BY IdsFacts
  <2>. QED  BY <1>1, <1>3, <1>11, <2>2, <2>3
<1>12. ASSUME NEW l \in U
       PROVE  l \in r.mails /\ View(r, l) = l
  <2>1. l.item # None => l.item \in r.items
    <3>1. SUFFICES ASSUME l.item # None, l.item \notin r.items PROVE FALSE  OBVIOUS
    <3>2. PICK x \in D : x.item = l.item  BY <1>3, <1>4, <3>1
    <3>3. x.id = l.id  BY <1>3, <3>1, <3>2
    <3>. QED  BY <3>3 DEF LettersOf
  <2>2. l \in MailRow  BY DEF LettersOf
  <2>3. l.item = None => [l EXCEPT !.item = None] = l  BY <2>2 DEF MailRow
  <2>. QED  BY <1>2, <2>1, <2>3 DEF View
<1>. QED  BY <1>2, <1>3, <1>4, <1>10, <1>11, <1>12 DEF SavedTo

-----------------------------------------------------------------------------
(* The other statements on rows. *)

LEMMA GoodButMore ==
  ASSUME NEW d \in Tables
  PROVE  /\ GoodBut(d, {None}) => GoodTables(d)
         /\ \A S : GoodTables(d) => GoodBut(d, S)
<1>1. None \notin d.items  BY TablesAssumption DEF Tables
<1>. QED  BY <1>1 DEF GoodTables, GoodBut

LEMMA ReturnedGood ==
  ASSUME NEW d \in Tables, GoodTables(d), NEW x \in d.mails, NEW r, r = ReturnMail(d, x)
  PROVE  GoodTables(r)
<1>1. /\ UniqueIds(d) /\ AuctionsFit(d) /\ MailsFit(d.mails) /\ \A i \in d.items : Held(d, i)
  BY DEF GoodTables, GoodBut
<1>2. /\ r.gold = d.gold /\ r.inv = d.inv /\ r.items = d.items /\ r.auctions = d.auctions
      /\ r.lost = d.lost
  BY MoreColumns DEF Same
<1>3. UniqueIds(r) /\ \A i : Ids(r.mails, i) = Ids(d.mails, i)
  BY <1>1, ReturnedIds
<1>4. \A m \in d.mails : Returned(m, x).money = m.money /\ Returned(m, x).cod = 0
  BY DEF Returned, Tables, MailRow
<1>5. Fits(0)  BY TablesAssumption DEF Fits
<1>6. MailsFit(r.mails)
  BY <1>1, <1>4, <1>5, ReturnedRows DEF MailsFit
<1>7. \A i \in r.items : Held(r, i)
  BY <1>1, <1>2, <1>3, HeldSame
<1>. QED  BY <1>1, <1>2, <1>3, <1>6, <1>7 DEF GoodTables, GoodBut, AuctionsFit

\* A letter is deleted whose item, if it has one, is i.
LEMMA RemovedGood ==
  ASSUME NEW d \in Tables, NEW i, GoodBut(d, {i}), NEW m \in d.mails, m.item \in d.items => m.item = i,
         NEW r, r = DeleteMails(d, {m.id})
  PROVE  GoodBut(r, {i})
<1>1. /\ UniqueIds(d) /\ AuctionsFit(d) /\ MailsFit(d.mails)
  BY DEF GoodBut
<1>2. /\ r.inv = d.inv /\ r.items = d.items /\ r.auctions = d.auctions /\ r.lost = d.lost
      /\ r.mails = {n \in d.mails : n.id \notin {m.id}}
  BY Columns DEF Same
<1>3. UniqueIds(r) /\ \A j : Ids(r.mails, j) = Ids(d.mails, j) \ {m.id}
  BY <1>1, DeletedIds
<1>4. ASSUME NEW j \in d.items, j # i
      PROVE  Held(r, j)
  <2>1. m.id \notin Ids(d.mails, j)
    <3>1. SUFFICES ASSUME m.id \in Ids(d.mails, j) PROVE FALSE  OBVIOUS
    <3>2. PICK n \in d.mails : n.item = j /\ n.id = m.id  BY <3>1, IdsFacts
    <3>. QED  BY <1>1, <1>4, <3>2 DEF UniqueIds
  <2>2. Ids(r.mails, j) = Ids(d.mails, j)
    BY <1>3, <2>1
  <2>. QED  BY <1>2, <1>4, <2>2, HeldSame DEF GoodBut
<1>5. MailsFit(r.mails)
  BY <1>1, <1>2 DEF MailsFit
<1>. QED  BY <1>1, <1>2, <1>3, <1>4, <1>5 DEF GoodBut, AuctionsFit

\* The item of a letter is deleted.
LEMMA ErasedGood ==
  ASSUME NEW d \in Tables, GoodTables(d), NEW m \in d.mails,
         NEW r, r = DeleteItems(d, {m.item})
  PROVE  /\ GoodTables(r) /\ \A j \in d.items \ r.items : d.inv[j] = None
         /\ \A n \in d.mails : n # m => (n.item \in r.items <=> n.item \in d.items)
<1>1. /\ UniqueIds(d) /\ AuctionsFit(d) /\ MailsFit(d.mails) /\ \A i \in d.items : Held(d, i)
  BY DEF GoodTables, GoodBut
<1>2. /\ r.gold = d.gold /\ r.inv = d.inv /\ r.items = d.items \ {m.item} /\ r.mails = d.mails
      /\ r.auctions = d.auctions /\ r.lost = d.lost
  BY Columns
<1>3. m.id \in Ids(d.mails, m.item)
  BY IdsFacts
<1>4. m.item \in d.items =>
        d.inv[m.item] = None /\ Ids(d.auctions, m.item) = {} /\ Ids(d.mails, m.item) = {m.id}
  BY <1>1, <1>3 DEF Held
<1>5. AuctionsFit(r)
  <2>1. \A a \in d.auctions : a.item \in d.items /\ a.id \in Ids(d.auctions, a.item)
    BY <1>1, IdsFacts DEF AuctionsFit
  <2>2. \A a \in d.auctions : a.item # m.item
    BY <1>4, <2>1
  <2>. QED  BY <1>1, <1>2, <2>2 DEF AuctionsFit
<1>6. \A i \in r.items : Held(r, i)
  BY <1>1, <1>2, HeldSame
<1>7. ASSUME NEW n \in d.mails, n # m, n.item = m.item, m.item \in d.items
      PROVE  FALSE
  <2>1. n.id \in Ids(d.mails, m.item)  BY <1>7, IdsFacts
  <2>. QED  BY <1>1, <1>4, <1>7, <2>1 DEF UniqueIds
<1>8. UniqueIds(r)
  BY <1>1, <1>2 DEF UniqueIds
<1>. QED  BY <1>1, <1>2, <1>4, <1>5, <1>6, <1>7, <1>8 DEF GoodTables, GoodBut

\* A letter is deleted and its item, if it has one, lost.
LEMMA LostGood ==
  ASSUME NEW d \in Tables, GoodTables(d), NEW m \in d.mails,
         NEW r, r = LoseItems(DeleteMails(d, {m.id}), {View(d, m).item} \ {None})
  PROVE  GoodTables(r)
<1>. PICK c : c = DeleteMails(d, {m.id})  OBVIOUS
<1>. DEFINE i == View(d, m).item
<1>1. /\ UniqueIds(d) /\ AuctionsFit(d) /\ MailsFit(d.mails) /\ None \notin d.items
      /\ \A j \in d.items : Held(d, j)
  BY TablesAssumption DEF GoodTables, GoodBut, Tables
<1>2. i = IF m.item \in d.items THEN m.item ELSE None
  BY ViewFacts
<1>. HIDE DEF i
<1>3. /\ c = [d EXCEPT !.mails = c.mails, !.spent = c.spent]
      /\ c.mails = {n \in d.mails : n.id \notin {m.id}}
      /\ c.inv = d.inv /\ c.items = d.items /\ c.auctions = d.auctions /\ c.lost = d.lost
  BY DEF DeleteMails, Tables
<1>4. UniqueIds(c) /\ \A j : Ids(c.mails, j) = Ids(d.mails, j) \ {m.id}
  BY <1>1, DeletedIds
<1>5. /\ r.mails = c.mails /\ r.inv = d.inv /\ r.items = d.items /\ r.auctions = d.auctions
      /\ r.lost = d.lost \cup ({i} \ {None})
  BY <1>3 DEF LoseItems, Tables, i
<1>6. UniqueIds(r)
  BY <1>1, <1>4, <1>5 DEF UniqueIds
<1>7. AuctionsFit(r) /\ MailsFit(r.mails)
  BY <1>1, <1>3, <1>5 DEF AuctionsFit, MailsFit
<1>8. ASSUME NEW j \in d.items, j # i
      PROVE  Held(r, j)
  <2>1. m.id \notin Ids(d.mails, j)
    <3>1. SUFFICES ASSUME m.id \in Ids(d.mails, j) PROVE FALSE  OBVIOUS
    <3>2. PICK n \in d.mails : n.item = j /\ n.id = m.id  BY <3>1, IdsFacts
    <3>. QED  BY <1>1, <1>2, <1>8, <3>2 DEF UniqueIds
  <2>2. Ids(r.mails, j) = Ids(d.mails, j)
    BY <1>4, <1>5, <2>1
  <2>3. j \in r.lost <=> j \in d.lost
    BY <1>5, <1>8
  <2>4. Held(d, j)  BY <1>1
  <2>. QED  BY ONLY <1>5, <2>2, <2>3, <2>4 DEF Held
<1>9. ASSUME i \in d.items
      PROVE  Held(r, i)
  <2>1. m.item = i /\ Held(d, i) /\ i # None
    BY <1>1, <1>2, <1>9
  <2>2. m.id \in Ids(d.mails, i)
    BY <2>1, IdsFacts
  <2>3. d.inv[i] = None /\ Ids(d.auctions, i) = {} /\ Ids(d.mails, i) = {m.id}
    BY <2>1, <2>2 DEF Held
  <2>4. Ids(r.mails, i) = {}
    BY <1>4, <1>5, <2>3
  <2>. QED  BY <1>5, <2>1, <2>3, <2>4 DEF Held
<1>. QED  BY <1>5, <1>6, <1>7, <1>8, <1>9 DEF GoodTables, GoodBut

\* The item of a player is put up for auction.
LEMMA SoldGood ==
  ASSUME NEW d \in Tables, NEW r \in Tables, GoodTables(d), NEW a,
         \A x \in d.auctions : x.id # a.id, a.item \in d.items, d.inv[a.item] # None,
         Fits(a.bid + a.deposit), Fits(a.buyout + a.deposit),
         r.auctions = d.auctions \cup {a}, r.mails = d.mails, r.items = d.items, r.lost = d.lost,
         r.inv = [d.inv EXCEPT ![a.item] = None]
  PROVE  GoodTables(r)
<1>1. /\ UniqueIds(d) /\ AuctionsFit(d) /\ MailsFit(d.mails) /\ \A i \in d.items : Held(d, i)
  BY DEF GoodTables, GoodBut
<1>2. UniqueIds(r) /\ AuctionsFit(r)
  BY <1>1 DEF UniqueIds, AuctionsFit
<1>3. \A j : Ids(r.auctions, j) = Ids(d.auctions, j) \cup Ids({a}, j)
  BY IdsFacts
<1>4. \A j \in d.items : r.inv[j] = IF j = a.item THEN None ELSE d.inv[j]
  BY DEF Tables
<1>5. ASSUME NEW j \in r.items, j # a.item
      PROVE  Held(r, j)
  <2>1. Ids({a}, j) = {}  BY <1>5 DEF Ids
  <2>2. Ids(r.auctions, j) = Ids(d.auctions, j)
    BY ONLY <1>3, <2>1
  <2>3. r.inv[j] = d.inv[j]  BY <1>4, <1>5
  <2>. QED  BY <1>1, <2>2, <2>3, HeldSame
<1>6. Held(r, a.item)
  <2>1. Ids({a}, a.item) = {a.id}
    BY DEF Ids
  <2>2. Ids(d.mails, a.item) = {} /\ Ids(d.auctions, a.item) = {}
    BY <1>1 DEF Held
  <2>3. Ids(r.auctions, a.item) = {a.id} /\ Ids(r.mails, a.item) = {}
    BY <1>3, <2>1, <2>2
  <2>4. r.inv[a.item] = None /\ a.item \notin r.lost
    BY <1>1, <1>4 DEF Held
  <2>. QED  BY <2>3, <2>4 DEF Held
<1>. QED  BY <1>1, <1>2, <1>5, <1>6 DEF GoodTables, GoodBut

-----------------------------------------------------------------------------
(* What the tables are worth.                                              *)

LEMMA SumOverMore ==
  ASSUME NEW S, IsFiniteSet(S), NEW x, x \notin S, NEW v, \A y \in S \cup {x} : v[y] \in Int
  PROVE  SumOver(v, S \cup {x}) = v[x] + SumOver(v, S)
<1>. DEFINE T == S \cup {x}
<1>1. IsFiniteSet(T) /\ x \in T /\ T \ {x} = S /\ \A y \in T : v[y] \in Int
  BY FS_AddElement
<1>. HIDE DEF T
<1>2. SumOver(v, T) = v[x] + SumOver(v, T \ {x})
  BY <1>1, SumOverFacts
<1>. QED  BY <1>1, <1>2 DEF T

\* One row more or less.
LEMMA MoneyInFacts ==
  ASSUME NEW rows \in SUBSET MailRow, IsFiniteSet(rows)
  PROVE  /\ MoneyIn(rows) \in Nat
         /\ rows = {} => MoneyIn(rows) = 0
         /\ \A x \in rows : MoneyIn(rows \ {x}) = MoneyIn(rows) - x.money
         /\ \A x \in MailRow \ rows : MoneyIn(rows \cup {x}) = MoneyIn(rows) + x.money
<1>1. \A x \in MailRow : x.money \in Int  BY DEF MailRow
<1>2. \A s \in SUBSET MailRow : IsFiniteSet(s) => MoneyIn(s) = SumOver(Money(s), s)
  BY <1>1, MoneyInIsSum
<1>3. \A s : \A x \in s : Money(s)[x] = x.money
  BY DEF Money
<1>4. MoneyIn(rows) \in Nat  BY MoneyInNat
<1>5. rows = {} => MoneyIn(rows) = 0
  BY <1>1, <1>2, <1>3, SumOverFacts
<1>6. ASSUME NEW s \in SUBSET MailRow, IsFiniteSet(s), NEW x \in MailRow \ s
      PROVE  MoneyIn(s \cup {x}) = MoneyIn(s) + x.money
  <2>. PICK t : t = s \cup {x}  OBVIOUS
  <2>1. IsFiniteSet(t) /\ t \in SUBSET MailRow
    BY <1>6, FS_AddElement
  <2>2. MoneyIn(t) = SumOver(Money(t), t) /\ MoneyIn(s) = SumOver(Money(s), s)
    BY <1>2, <1>6, <2>1
  <2>3. SumOver(Money(t), t) = Money(t)[x] + SumOver(Money(t), s)
    <3>1. \A y \in s \cup {x} : Money(t)[y] \in Int
      BY <1>1, <1>3, <2>1
    <3>. PICK v : v = Money(t)  OBVIOUS
    <3>2. \A y \in s \cup {x} : v[y] \in Int
      BY <3>1
    <3>3. SumOver(v, s \cup {x}) = v[x] + SumOver(v, s)
      BY ONLY <1>6, <3>2, SumOverMore
    <3>. QED  BY <3>3
  <2>4. SumOver(Money(t), s) = SumOver(Money(s), s)
    BY <1>1, <1>3, <1>6, SumOverSame
  <2>5. MoneyIn(s) \in Nat  BY <1>6, MoneyInNat
  <2>6. Money(t)[x] = x.money /\ x.money \in Int  BY <1>1, <1>3
  <2>. QED  BY <2>2, <2>3, <2>4, <2>5, <2>6
<1>7. ASSUME NEW x \in rows
      PROVE  MoneyIn(rows \ {x}) = MoneyIn(rows) - x.money
  <2>. PICK s : s = rows \ {x}  OBVIOUS
  <2>1. IsFiniteSet(s) /\ s \in SUBSET MailRow /\ x \in MailRow \ s /\ s \cup {x} = rows
    BY FS_Subset
  <2>2. MoneyIn(rows) = MoneyIn(s) + x.money /\ MoneyIn(s) \in Nat
    BY <1>6, <2>1, MoneyInNat
  <2>3. x.money \in Int  BY <1>1
  <2>. QED  BY <2>2, <2>3
<1>. QED  BY <1>4, <1>5, <1>6, <1>7

\* Rows of two sets.
LEMMA MoneyInUnion ==
  ASSUME NEW rows \in SUBSET MailRow, IsFiniteSet(rows),
         NEW more \in SUBSET MailRow, IsFiniteSet(more), rows \cap more = {}
  PROVE  MoneyIn(rows \cup more) = MoneyIn(rows) + MoneyIn(more)
<1>. DEFINE Bad == {t \in SUBSET more : MoneyIn(rows \cup t) # MoneyIn(rows) + MoneyIn(t)}
<1>1. SUFFICES ASSUME Bad # {} PROVE FALSE  OBVIOUS
<1>2. PICK t \in Bad : \A u \in Bad : Cardinality(t) <= Cardinality(u)
  <2>1. Bad \in SUBSET SUBSET more  OBVIOUS
  <2>. HIDE DEF Bad
  <2>. QED  BY <1>1, <2>1, SmallestSubset
<1>3. IsFiniteSet(t) /\ IsFiniteSet(rows \cup t) /\ t \in SUBSET MailRow /\ rows \cup t \in SUBSET MailRow
  BY FS_Subset, FS_Union
<1>4. t # {}
  <2>1. MoneyIn({}) = 0  BY FS_EmptySet, MoneyInFacts
  <2>2. MoneyIn(rows) \in Nat  BY MoneyInNat
  <2>3. rows \cup {} = rows  OBVIOUS
  <2>4. MoneyIn(rows \cup {}) = MoneyIn(rows) + MoneyIn({})
    BY <2>1, <2>2, <2>3
  <2>. QED  BY <2>4
<1>5. PICK x \in t : TRUE  BY <1>4
<1>6. t \ {x} \notin Bad
  <2>1. /\ Cardinality(t) \in Nat /\ Cardinality(t \ {x}) = Cardinality(t) - 1
        /\ t \ {x} \in SUBSET more
    BY <1>3, FS_RemoveElement, FS_CardinalityType
  <2>. QED  BY <1>2, <2>1
<1>7. MoneyIn(rows \cup (t \ {x})) = MoneyIn(rows) + MoneyIn(t \ {x})
  BY <1>6
<1>8. rows \cup (t \ {x}) = (rows \cup t) \ {x} /\ x \in rows \cup t
  OBVIOUS
<1>9. MoneyIn((rows \cup t) \ {x}) = MoneyIn(rows \cup t) - x.money
  BY <1>3, <1>8, MoneyInFacts
<1>10. MoneyIn(t \ {x}) = MoneyIn(t) - x.money
  BY <1>3, MoneyInFacts
<1>11. MoneyIn(rows) \in Nat /\ MoneyIn(t) \in Nat /\ MoneyIn(rows \cup t) \in Nat /\ x.money \in Nat
  BY <1>3, MoneyInNat DEF MailRow
<1>12. MoneyIn(rows \cup t) = MoneyIn(rows) + MoneyIn(t)
  <2>1. MoneyIn(rows \cup (t \ {x})) = MoneyIn(rows \cup t) - x.money
    BY <1>8, <1>9
  <2>. QED  BY <1>7, <1>10, <1>11, <2>1
<1>. QED  BY <1>12

\* Bids and deposits.
StakesIn(rows) == Total(LAMBDA a : a.bid + a.deposit, rows)
StakeStep(h, s) ==
  IF s = {} THEN 0 ELSE (Choice(s).bid + Choice(s).deposit) + h[Rest(s)]
Stakes(rows) == [a \in rows |-> a.bid + a.deposit]

LEMMA StakesInIsSum ==
  ASSUME NEW rows, IsFiniteSet(rows), \A a \in rows : a.bid + a.deposit \in Int
  PROVE  StakesIn(rows) = SumOver(Stakes(rows), rows)
<1>. DEFINE v == Stakes(rows)
            Eq(h) == h = [s \in SUBSET rows |-> StakeStep(h, s)]
<1>1. \A x \in rows : v[x] = x.bid + x.deposit
  BY DEF Stakes
<1>. HIDE DEF v
<1>2. \A h : Eq(h) <=> IsSum(v, rows, h)
  <2>1. \A s \in SUBSET rows : s # {} => Choice(s) \in rows
    BY DEF Choice
  <2>2. ASSUME NEW h
        PROVE  \A s \in SUBSET rows : StakeStep(h, s) = SumStep(v, h, s)
    BY <1>1, <2>1 DEF StakeStep, SumStep
  <2>. QED  BY <2>2 DEF IsSum
<1>3. StakesIn(rows) = (CHOOSE h : Eq(h))[rows]
  BY DEF StakesIn, Total, MapThenSumSet, MapThenFoldSet, StakeStep, Choice, Rest
<1>4. \A x \in rows : v[x] \in Int
  BY <1>1
<1>. HIDE DEF Eq
<1>5. \E h : Eq(h)
  BY <1>2, <1>4, SumExists
<1>6. PICK h : Eq(h) /\ StakesIn(rows) = h[rows]
  BY <1>3, <1>5
<1>7. IsSum(v, rows, h) /\ rows \in SUBSET rows
  BY <1>2, <1>6
<1>8. SumOver(v, rows) = h[rows]
  BY <1>4, <1>7, SumOverIs
<1>. QED  BY <1>6, <1>8 DEF v

LEMMA StakesInFacts ==
  ASSUME NEW rows \in SUBSET AuctionRow, IsFiniteSet(rows)
  PROVE  /\ StakesIn(rows) \in Int
         /\ rows = {} => StakesIn(rows) = 0
         /\ \A x \in rows : StakesIn(rows \ {x}) = StakesIn(rows) - (x.bid + x.deposit)
         /\ \A x \in AuctionRow \ rows : StakesIn(rows \cup {x}) = StakesIn(rows) + (x.bid + x.deposit)
<1>1. \A x \in AuctionRow : x.bid + x.deposit \in Int  BY DEF AuctionRow
<1>2. \A s \in SUBSET AuctionRow : IsFiniteSet(s) => StakesIn(s) = SumOver(Stakes(s), s)
  BY <1>1, StakesInIsSum
<1>3. \A s : \A x \in s : Stakes(s)[x] = x.bid + x.deposit
  BY DEF Stakes
<1>4. ASSUME NEW s \in SUBSET AuctionRow, IsFiniteSet(s)
      PROVE  StakesIn(s) \in Int
  BY <1>1, <1>2, <1>3, <1>4, SumOverFacts
<1>5. rows = {} => StakesIn(rows) = 0
  BY <1>1, <1>2, <1>3, SumOverFacts
<1>6. ASSUME NEW s \in SUBSET AuctionRow, IsFiniteSet(s), NEW x \in AuctionRow \ s
      PROVE  StakesIn(s \cup {x}) = StakesIn(s) + (x.bid + x.deposit)
  <2>. PICK t : t = s \cup {x}  OBVIOUS
  <2>1. IsFiniteSet(t) /\ t \in SUBSET AuctionRow
    BY <1>6, FS_AddElement
  <2>2. StakesIn(t) = SumOver(Stakes(t), t) /\ StakesIn(s) = SumOver(Stakes(s), s)
    BY <1>2, <1>6, <2>1
  <2>3. SumOver(Stakes(t), t) = Stakes(t)[x] + SumOver(Stakes(t), s)
    <3>1. \A y \in s \cup {x} : Stakes(t)[y] \in Int
      BY <1>1, <1>3, <2>1
    <3>. PICK v : v = Stakes(t)  OBVIOUS
    <3>2. \A y \in s \cup {x} : v[y] \in Int
      BY <3>1
    <3>3. SumOver(v, s \cup {x}) = v[x] + SumOver(v, s)
      BY ONLY <1>6, <3>2, SumOverMore
    <3>. QED  BY <3>3
  <2>4. SumOver(Stakes(t), s) = SumOver(Stakes(s), s)
    BY <1>1, <1>3, <1>6, SumOverSame
  <2>5. StakesIn(s) \in Int  BY <1>4, <1>6
  <2>6. Stakes(t)[x] = x.bid + x.deposit /\ x.bid + x.deposit \in Int  BY <1>1, <1>3
  <2>. QED  BY <2>2, <2>3, <2>4, <2>5, <2>6
<1>7. ASSUME NEW x \in rows
      PROVE  StakesIn(rows \ {x}) = StakesIn(rows) - (x.bid + x.deposit)
  <2>. PICK s : s = rows \ {x}  OBVIOUS
  <2>1. IsFiniteSet(s) /\ s \in SUBSET AuctionRow /\ x \in AuctionRow \ s /\ s \cup {x} = rows
    BY FS_Subset
  <2>2. StakesIn(rows) = StakesIn(s) + (x.bid + x.deposit) /\ StakesIn(s) \in Int
    BY <1>4, <1>6, <2>1
  <2>3. x.bid + x.deposit \in Int  BY <1>1
  <2>. QED  BY <2>2, <2>3
<1>. QED  BY <1>4, <1>5, <1>6, <1>7

\* Purses.
GoldIn(gold) == Total(LAMBDA p : gold[p], Players)
GoldStep(gold, h, s) == IF s = {} THEN 0 ELSE gold[Choice(s)] + h[Rest(s)]

LEMMA GoldInIsSum ==
  ASSUME NEW gold, IsFiniteSet(Players), \A p \in Players : gold[p] \in Int
  PROVE  GoldIn(gold) = SumOver(gold, Players)
<1>. DEFINE Eq(h) == h = [s \in SUBSET Players |-> GoldStep(gold, h, s)]
<1>2. \A h : Eq(h) <=> IsSum(gold, Players, h)
  BY DEF IsSum, GoldStep, SumStep
<1>3. GoldIn(gold) = (CHOOSE h : Eq(h))[Players]
  BY DEF GoldIn, Total, MapThenSumSet, MapThenFoldSet, GoldStep, Choice, Rest
<1>. HIDE DEF Eq
<1>5. \E h : Eq(h)
  BY <1>2, SumExists
<1>6. PICK h : Eq(h) /\ GoldIn(gold) = h[Players]
  BY <1>3, <1>5
<1>7. IsSum(gold, Players, h) /\ Players \in SUBSET Players
  BY <1>2, <1>6
<1>8. SumOver(gold, Players) = h[Players]
  BY <1>7, SumOverIs
<1>. QED  BY <1>6, <1>8

LEMMA GoldInFacts ==
  ASSUME IsFiniteSet(Players), NEW gold \in [Players -> Nat]
  PROVE  /\ GoldIn(gold) \in Int
         /\ \A p \in Players : \A g \in Nat :
              GoldIn([gold EXCEPT ![p] = g]) = GoldIn(gold) - gold[p] + g
<1>1. GoldIn(gold) = SumOver(gold, Players) /\ SumOver(gold, Players) \in Int
  BY GoldInIsSum, SumOverFacts
<1>2. ASSUME NEW p \in Players, NEW g \in Nat
      PROVE  GoldIn([gold EXCEPT ![p] = g]) = GoldIn(gold) - gold[p] + g
  <2>. PICK h : h = [gold EXCEPT ![p] = g]  OBVIOUS
  <2>. PICK S : S = Players \ {p}  OBVIOUS
  <2>1. /\ h \in [Players -> Nat] /\ h[p] = g /\ \A q \in S : h[q] = gold[q] /\ gold[q] \in Int
        /\ \A q \in Players : h[q] \in Int
    OBVIOUS
  <2>2. GoldIn(h) = SumOver(h, Players)
    BY <2>1, GoldInIsSum
  <2>3. /\ SumOver(h, Players) = h[p] + SumOver(h, S)
        /\ SumOver(gold, Players) = gold[p] + SumOver(gold, S)
        /\ SumOver(gold, S) \in Int
    <3>1. \A q \in Players : gold[q] \in Int  OBVIOUS
    <3>2. SumOver(h, Players) = h[p] + SumOver(h, S)
      BY ONLY <2>1, IsFiniteSet(Players), S = Players \ {p}, p \in Players, SumOverFacts
    <3>3. /\ SumOver(gold, Players) = gold[p] + SumOver(gold, S)
          /\ SumOver(gold, S) \in Int
      BY ONLY <3>1, IsFiniteSet(Players), S = Players \ {p}, p \in Players, SumOverFacts
    <3>. QED  BY <3>2, <3>3
  <2>4. SumOver(gold, S) = SumOver(h, S)
    <3>1. IsFiniteSet(S)  BY FS_Subset
    <3>. QED  BY <2>1, <3>1, SumOverSame
  <2>5. gold[p] \in Nat  OBVIOUS
  <2>. QED  BY <1>1, <2>1, <2>2, <2>3, <2>4, <2>5
<1>. QED  BY <1>1, <1>2

\* Everything the tables are worth, with what was taken and without what was
\* brought in.
Worth(d) == GoldIn(d.gold) + MoneyIn(d.mails) + StakesIn(d.auctions) + d.spent - d.earned
Counted(d) ==
  d \in Tables /\ IsFiniteSet(d.mails) /\ IsFiniteSet(d.auctions) /\ IsFiniteSet(Players)

LEMMA WorthParts ==
  ASSUME NEW d, Counted(d)
  PROVE  /\ GoldIn(d.gold) \in Int /\ MoneyIn(d.mails) \in Int /\ StakesIn(d.auctions) \in Int
         /\ d.spent \in Int /\ d.earned \in Int /\ Worth(d) \in Int
<1>1. /\ d.gold \in [Players -> Nat] /\ d.mails \in SUBSET MailRow /\ d.auctions \in SUBSET AuctionRow
      /\ d.spent \in Int /\ d.earned \in Int
  BY DEF Counted, Tables
<1>2. GoldIn(d.gold) \in Int  BY <1>1, GoldInFacts DEF Counted
<1>3. MoneyIn(d.mails) \in Int  BY <1>1, MoneyInFacts DEF Counted
<1>4. StakesIn(d.auctions) \in Int  BY <1>1, StakesInFacts DEF Counted
<1>. QED  BY <1>1, <1>2, <1>3, <1>4 DEF Worth

\* Statements on letters.
LEMMA WorthOfLetters ==
  ASSUME NEW d, Counted(d), NEW rows \in SUBSET MailRow, IsFiniteSet(rows), NEW n \in Int,
         NEW r, r = [d EXCEPT !.mails = rows, !.spent = n]
  PROVE  Counted(r) /\ Worth(r) = Worth(d) + (MoneyIn(rows) - MoneyIn(d.mails)) + (n - d.spent)
<1>1. /\ r.gold = d.gold /\ r.mails = rows /\ r.auctions = d.auctions /\ r.spent = n
      /\ r.earned = d.earned /\ r \in Tables
  BY DEF Counted, Tables
<1>2. Counted(r)  BY <1>1 DEF Counted
<1>3. MoneyIn(rows) \in Int  BY MoneyInFacts
<1>. QED  BY <1>1, <1>2, <1>3, WorthParts DEF Worth

LEMMA InsertMailsWorth ==
  ASSUME NEW d, Counted(d), NEW rows \in SUBSET MailRow, IsFiniteSet(rows), rows \cap d.mails = {},
         NEW r, r = InsertMails(d, rows)
  PROVE  Counted(r) /\ Worth(r) = Worth(d) + MoneyIn(rows)
<1>. PICK all : all = d.mails \cup rows  OBVIOUS
<1>1. d \in Tables /\ d.mails \in SUBSET MailRow /\ IsFiniteSet(d.mails) /\ d.spent \in Int
  BY DEF Counted, Tables
<1>2. all \in SUBSET MailRow /\ IsFiniteSet(all)
  BY <1>1, FS_Union
<1>3. r = [d EXCEPT !.mails = all, !.spent = d.spent]
  BY <1>1 DEF InsertMails, Tables
<1>4. Counted(r) /\ Worth(r) = Worth(d) + (MoneyIn(all) - MoneyIn(d.mails)) + (d.spent - d.spent)
  BY <1>1, <1>2, <1>3, WorthOfLetters
<1>5. MoneyIn(all) = MoneyIn(d.mails) + MoneyIn(rows)
  BY <1>1, MoneyInUnion
<1>6. MoneyIn(rows) \in Int  BY MoneyInFacts
<1>. QED  BY <1>1, <1>4, <1>5, <1>6, WorthParts

LEMMA SpendWorth ==
  ASSUME NEW d, Counted(d), NEW n \in Int, NEW r, r = Spend(d, n)
  PROVE  Counted(r) /\ Worth(r) = Worth(d) + n
<1>1. d \in Tables /\ d.mails \in SUBSET MailRow /\ IsFiniteSet(d.mails) /\ d.spent \in Int
  BY DEF Counted, Tables
<1>. PICK k \in Int : k = d.spent + n  BY <1>1
<1>. PICK rows : rows = d.mails  OBVIOUS
<1>2. r = [d EXCEPT !.mails = rows, !.spent = k]
  BY <1>1 DEF Spend, Tables
<1>3. Counted(r) /\ Worth(r) = Worth(d) + (MoneyIn(rows) - MoneyIn(d.mails)) + (k - d.spent)
  <2>1. rows \in SUBSET MailRow /\ IsFiniteSet(rows)  BY <1>1
  <2>. QED  BY ONLY Counted(d), k \in Int, <1>2, <2>1, WorthOfLetters
<1>. QED  BY <1>1, <1>3, WorthParts

LEMMA DeleteMailsWorth ==
  ASSUME NEW d, Counted(d), NEW ids, NEW r, r = DeleteMails(d, ids)
  PROVE  Counted(r) /\ Worth(r) = Worth(d)
<1>. DEFINE gone == {m \in d.mails : m.id \in ids}
            rest == d.mails \ gone
<1>1. /\ d \in Tables /\ d.mails \in SUBSET MailRow /\ IsFiniteSet(d.mails) /\ d.spent \in Int
      /\ gone \in SUBSET MailRow /\ rest \in SUBSET MailRow /\ gone \cap rest = {}
      /\ gone \cup rest = d.mails /\ gone \in SUBSET d.mails /\ rest \in SUBSET d.mails
  BY DEF Counted, Tables
<1>2. r = [d EXCEPT !.mails = rest, !.spent = d.spent + MoneyIn(gone)]
  BY <1>1 DEF DeleteMails, Tables
<1>. HIDE DEF gone, rest
<1>3. IsFiniteSet(gone) /\ IsFiniteSet(rest)
  BY <1>1, FS_Subset
<1>4. MoneyIn(gone) \in Int /\ MoneyIn(rest) \in Int
  BY <1>1, <1>3, MoneyInFacts
<1>5. MoneyIn(d.mails) = MoneyIn(gone) + MoneyIn(rest)
  <2>1. MoneyIn(gone \cup rest) = MoneyIn(gone) + MoneyIn(rest)
    BY <1>1, <1>3, MoneyInUnion
  <2>. QED  BY <1>1, <2>1
<1>6. d.spent + MoneyIn(gone) \in Int
  BY <1>1, <1>4
<1>7. Counted(r) /\ Worth(r) = Worth(d) + (MoneyIn(rest) - MoneyIn(d.mails)) + ((d.spent + MoneyIn(gone)) - d.spent)
  BY <1>1, <1>2, <1>3, <1>6, WorthOfLetters
<1>8. Worth(d) \in Int  BY WorthParts
<1>. QED  BY <1>1, <1>4, <1>5, <1>7, <1>8

\* One row is replaced.
LEMMA RowWorth ==
  ASSUME NEW d, Counted(d), UniqueIds(d), NEW m \in d.mails, NEW y \in MailRow, y.id = m.id,
         NEW r, r = [d EXCEPT !.mails = (d.mails \ {m}) \cup {y}]
  PROVE  Counted(r) /\ Worth(r) = Worth(d) - m.money + y.money
<1>. PICK rest : rest = d.mails \ {m}  OBVIOUS
<1>. PICK all : all = rest \cup {y}  OBVIOUS
<1>1. d \in Tables /\ d.mails \in SUBSET MailRow /\ IsFiniteSet(d.mails) /\ d.spent \in Int
  BY DEF Counted, Tables
<1>2. rest \in SUBSET MailRow /\ IsFiniteSet(rest) /\ all \in SUBSET MailRow /\ IsFiniteSet(all)
  BY <1>1, FS_Subset, FS_AddElement
<1>3. y \notin rest  BY DEF UniqueIds
<1>4. r = [d EXCEPT !.mails = all, !.spent = d.spent]
  BY <1>1 DEF Tables
<1>5. Counted(r) /\ Worth(r) = Worth(d) + (MoneyIn(all) - MoneyIn(d.mails)) + (d.spent - d.spent)
  <2>. PICK k \in Int : k = d.spent  BY <1>1
  <2>1. r = [d EXCEPT !.mails = all, !.spent = k]  BY <1>4
  <2>2. Counted(r) /\ Worth(r) = Worth(d) + (MoneyIn(all) - MoneyIn(d.mails)) + (k - d.spent)
    BY ONLY Counted(d), k \in Int, <1>2, <2>1, WorthOfLetters
  <2>. QED  BY <2>2
<1>6. MoneyIn(rest) = MoneyIn(d.mails) - m.money
  BY <1>1, MoneyInFacts
<1>7. MoneyIn(all) = MoneyIn(rest) + y.money
  BY <1>2, <1>3, MoneyInFacts
<1>8. m.money \in Nat /\ y.money \in Nat
  BY <1>1 DEF MailRow
<1>. QED  BY <1>1, <1>5, <1>6, <1>7, <1>8, WorthParts

LEMMA ReturnMailWorth ==
  ASSUME NEW d, Counted(d), UniqueIds(d), NEW x \in d.mails, x.from \in Players,
         NEW r, r = ReturnMail(d, x)
  PROVE  Counted(r) /\ Worth(r) = Worth(d)
<1>. PICK y : y = Returned(x, x)  OBVIOUS
<1>1. d \in Tables /\ x \in MailRow
  BY DEF Counted, Tables
<1>2. y \in MailRow /\ y.id = x.id /\ y.money = x.money /\ x.money \in Nat
  BY <1>1 DEF Returned, MailRow
<1>3. \A m \in d.mails : m.id = x.id <=> m = x
  BY DEF UniqueIds
<1>4. r.mails = (d.mails \ {x}) \cup {y}
  BY <1>1, <1>3, ReturnedRows
<1>5. r = [d EXCEPT !.mails = (d.mails \ {x}) \cup {y}]
  <2>1. r = [d EXCEPT !.mails = r.mails]
    BY <1>1 DEF ReturnMail, Tables
  <2>. QED  BY <1>4, <2>1
<1>6. Counted(r) /\ Worth(r) = Worth(d) - x.money + y.money
  BY <1>2, <1>5, RowWorth
<1>. QED  BY <1>2, <1>6, WorthParts

\* CHAR_UPD_MAIL for no letter, or for one.
LEMMA UpdateMailsWorth ==
  ASSUME NEW d, Counted(d), UniqueIds(d)
  PROVE  /\ UpdateMails(d, {}) = d
         /\ \A m \in d.mails, l \in MailRow : l.id = m.id /\ Fits(l.money) =>
              \A r : r = UpdateMails(d, {l}) =>
                Counted(r) /\ Worth(r) = Worth(d) - m.money + l.money
<1>1. d \in Tables /\ d.mails \in SUBSET MailRow
  BY DEF Counted, Tables
<1>2. UpdateMails(d, {}) = d
  BY <1>1 DEF UpdateMails, Tables
<1>3. ASSUME NEW m \in d.mails, NEW l \in MailRow, l.id = m.id, Fits(l.money),
             NEW r, r = UpdateMails(d, {l})
      PROVE  Counted(r) /\ Worth(r) = Worth(d) - m.money + l.money
  <2>. PICK y : y = Updated(m, l)  OBVIOUS
  <2>1. y \in MailRow /\ y.id = m.id /\ y.money = l.money
    <3>1. l.money \in Nat /\ l.cod \in Nat /\ UInt32(l.cod) \in Nat /\ UInt32(l.money) = l.money
      BY <1>3, UInt32Facts DEF MailRow, Fits
    <3>. QED  BY <1>1, <3>1 DEF Updated, MailRow
  <2>2. \A n \in d.mails : n.id = l.id <=> n = m
    BY <1>3 DEF UniqueIds
  <2>3. r.mails = (d.mails \ {m}) \cup {y}
    <3>1. OneEach({l})  BY DEF OneEach
    <3>. QED  BY <1>1, <1>3, <2>2, <3>1, UpdatedRows
  <2>4. r = [d EXCEPT !.mails = (d.mails \ {m}) \cup {y}]
    <3>1. r = [d EXCEPT !.mails = r.mails]
      BY <1>1, <1>3 DEF UpdateMails, Tables
    <3>. QED  BY <2>3, <3>1
  <2>5. Counted(r) /\ Worth(r) = Worth(d) - m.money + y.money
    BY <2>1, <2>4, RowWorth
  <2>. QED  BY <2>1, <2>5
<1>. QED  BY <1>2, <1>3

\* What the handlers have in common: letters are sent, p has g, and auctions
\* and the two columns of history may have changed.
LEMMA PaidWorth ==
  ASSUME NEW d, Counted(d), NEW r \in Tables, IsFiniteSet(r.auctions),
         NEW letters \in SUBSET MailRow, IsFiniteSet(letters), letters \cap d.mails = {},
         r.mails = d.mails \cup letters,
         NEW p \in Players, NEW g \in Nat, r.gold = [d.gold EXCEPT ![p] = g]
  PROVE  /\ Counted(r)
         /\ Worth(r) = Worth(d) + (g - d.gold[p]) + MoneyIn(letters)
                         + (StakesIn(r.auctions) - StakesIn(d.auctions))
                         + (r.spent - d.spent) - (r.earned - d.earned)
<1>1. /\ d.mails \in SUBSET MailRow /\ IsFiniteSet(d.mails) /\ d.gold \in [Players -> Nat]
      /\ IsFiniteSet(Players)
  BY DEF Counted, Tables
<1>2. Counted(r)
  <2>1. IsFiniteSet(r.mails)
    <3>1. IsFiniteSet(d.mails \cup letters)
      BY ONLY <1>1, IsFiniteSet(letters), FS_Union
    <3>. QED  BY <3>1
  <2>. QED  BY <1>1, <2>1 DEF Counted
<1>3. MoneyIn(r.mails) = MoneyIn(d.mails) + MoneyIn(letters)
  BY <1>1, MoneyInUnion
<1>4. GoldIn(r.gold) = GoldIn(d.gold) - d.gold[p] + g /\ d.gold[p] \in Int
  BY <1>1, GoldInFacts
<1>5. MoneyIn(letters) \in Int  BY MoneyInFacts
<1>. QED  BY <1>2, <1>3, <1>4, <1>5, WorthParts DEF Worth

\* A pass over an old letter.
LEMMA DeleteItemsWorth ==
  ASSUME NEW d, Counted(d), NEW gone, NEW r, r = DeleteItems(d, gone)
  PROVE  Counted(r) /\ Worth(r) = Worth(d) /\ r.mails = d.mails /\ r.auctions = d.auctions
<1>1. r \in Tables /\ r.gold = d.gold /\ r.mails = d.mails /\ r.auctions = d.auctions
      /\ r.spent = d.spent /\ r.earned = d.earned
  BY DEF Counted, DeleteItems, Tables
<1>. QED  BY <1>1 DEF Counted, Worth

LEMMA LoseItemsWorth ==
  ASSUME NEW d, Counted(d), NEW gone \in SUBSET Items, NEW r, r = LoseItems(d, gone)
  PROVE  Counted(r) /\ Worth(r) = Worth(d) /\ r.mails = d.mails /\ r.auctions = d.auctions
<1>1. r \in Tables /\ r.gold = d.gold /\ r.mails = d.mails /\ r.auctions = d.auctions
      /\ r.spent = d.spent /\ r.earned = d.earned
  BY DEF Counted, LoseItems, Tables
<1>. QED  BY <1>1 DEF Counted, Worth

\* What _SaveMail writes: no letter has changed, or one whose money was taken.
LEMMA SaveLettersWorth ==
  ASSUME NEW d, Counted(d), UniqueIds(d), NEW U, NEW D, NEW n \in Int,
         \/ U = {} /\ n = 0
         \/ \E m \in d.mails, l \in MailRow :
              U = {l} /\ l.id = m.id /\ Fits(l.money) /\ n = l.money - m.money,
         NEW r, r = SaveLetters(d, U, D)
  PROVE  Counted(r) /\ Worth(r) = Worth(d) + n
<1>. PICK u : u = UpdateMails(d, U)  OBVIOUS
<1>. PICK v : v = DeleteMails(u, {m.id : m \in D})  OBVIOUS
<1>1. Counted(u) /\ Worth(u) = Worth(d) + n
  <2>1. CASE U = {} /\ n = 0
    BY <2>1, UpdateMailsWorth, WorthParts
  <2>2. CASE \E m \in d.mails, l \in MailRow :
               U = {l} /\ l.id = m.id /\ Fits(l.money) /\ n = l.money - m.money
    <3>1. PICK m \in d.mails, l \in MailRow :
            U = {l} /\ l.id = m.id /\ Fits(l.money) /\ n = l.money - m.money
      BY <2>2
    <3>2. Counted(u) /\ Worth(u) = Worth(d) - m.money + l.money
      BY <3>1, UpdateMailsWorth
    <3>3. m.money \in Int /\ l.money \in Int  BY DEF Counted, Tables, MailRow
    <3>. QED  BY <3>1, <3>2, <3>3, WorthParts
  <2>. QED  BY <2>1, <2>2
<1>2. Counted(v) /\ Worth(v) = Worth(u)
  BY <1>1, DeleteMailsWorth
<1>. PICK gone : gone = {m.item : m \in D} \ {None}  OBVIOUS
<1>3. r = DeleteItems(v, gone)
  BY DEF SaveLetters
<1>4. Counted(r) /\ Worth(r) = Worth(v)
  BY ONLY <1>2, <1>3, DeleteItemsWorth
<1>. QED  BY <1>1, <1>2, <1>4

\* No bid without a bidder, and none that buys the item out; prices on
\* delivery are numbers that Int32 leaves alone.
Bids(rows) ==
  /\ IsFiniteSet(rows)
  /\ \A a \in rows : (a.bidder = None => a.bid = 0) /\ (a.buyout > 0 => a.bid < a.buyout)
Cods(rows) == \A m \in rows : m.cod < Half

\* CHAR_UPD_AUCTION_BID for the row a, which becomes b.
LEMMA BidRow ==
  ASSUME NEW d \in Tables, \A x, y \in d.auctions : x.id = y.id => x = y,
         NEW a \in d.auctions, NEW b, b.id = a.id, BidSaved(a, b) = b, NEW r, r = UpdateBid(d, b)
  PROVE  /\ r.auctions = (d.auctions \ {a}) \cup {b} /\ r.mails = d.mails /\ r.gold = d.gold
         /\ r.spent = d.spent /\ r.earned = d.earned
<1>1. /\ \A x \in d.auctions : x.id # b.id => x \in r.auctions
      /\ \A x \in d.auctions : x.id = b.id => BidSaved(x, b) \in r.auctions
      /\ \A y \in r.auctions : \/ y \in d.auctions /\ y.id # b.id
                               \/ \E x \in d.auctions : x.id = b.id /\ y = BidSaved(x, b)
  BY BidRows
<1>2. \A x \in d.auctions : x.id = b.id <=> x = a
  OBVIOUS
<1>3. \A x : x \in r.auctions <=> x \in (d.auctions \ {a}) \cup {b}
  BY <1>1, <1>2
<1>4. r.mails = d.mails /\ r.gold = d.gold /\ r.spent = d.spent /\ r.earned = d.earned
  BY DEF UpdateBid, Tables
<1>. QED  BY <1>3, <1>4
=============================================================================
