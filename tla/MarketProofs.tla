---------------------------- MODULE MarketProofs ----------------------------
(***************************************************************************)
(* Market keeps its types and never gives a number twice; an item is in    *)
(* one place, and memory agrees with the tables, until the nightly pass    *)
(* crosses a mailbox.                                                      *)
(*                                                                         *)
(* The first invariant, TInv, says of every table a crash may leave that   *)
(* its rows have the types of their columns, that letters of players have  *)
(* a sender and those of the house have none - which types the letter that *)
(* returns one - and that numbers are below the counters, which the next   *)
(* letter needs.  The second, Good, says of the same tables that numbers   *)
(* are used once, that no sum is too large for its column and that every   *)
(* item is in one place; and of memory that purses, bags, open mailboxes   *)
(* and auctions are what the last of the tables says, which is also what   *)
(* whoever waits for a log-in query will be told.                          *)
(***************************************************************************)
EXTENDS Market, CharacterTablesProofs

-----------------------------------------------------------------------------
(* The parts of the type invariant. *)

Tasks == [db : Tables, reader : Players \cup {None}]
Boxes == [Players -> SUBSET [mail : MailRow, state : {"unchanged", "changed", "deleted"}]]
WorldTypes == auctions \subseteq AuctionRow /\ aitems \subseteq Items
PlayerTypes ==
  /\ phase \in [Players -> {"offline", "loading", "loaded", "online", "mailbox"}]
  /\ gold \in [Players -> Nat] /\ bag \in [Players -> SUBSET Items]
  /\ purse \in [Players -> Nat]
CountTypes ==
  /\ nextMail \in Nat /\ nextAuction \in Nat /\ earned \in Nat /\ logins \in Nat
  /\ crashes \in Nat /\ crossed \in BOOLEAN

LEMMA TypeOKParts ==
  TypeOK <=> /\ db \in Tables /\ queue \in Seq(Tasks) /\ WorldTypes /\ PlayerTypes
             /\ box \in Boxes /\ CountTypes
BY DEF TypeOK, Tasks, WorldTypes, PlayerTypes, Boxes, CountTypes

LEMMA TypeOKPartsNext ==
  /\ db' \in Tables /\ queue' \in Seq(Tasks) /\ WorldTypes' /\ PlayerTypes'
  /\ box' \in Boxes /\ CountTypes'
  => TypeOK'
BY DEF TypeOK, Tasks, WorldTypes, PlayerTypes, Boxes, CountTypes

-----------------------------------------------------------------------------
(* The queue. *)

LEMMA TablesOfQueue ==
  ASSUME TypeOK
  PROVE  Goal \in Durable /\ \A d \in Durable : d \in Tables
<1>1. queue \in Seq(Tasks) /\ db \in Tables  BY DEF TypeOK, Tasks
<1>2. \A k \in DOMAIN queue : queue[k].db \in Tables
  <2>1. \A k \in DOMAIN queue : queue[k] \in Tasks  BY <1>1
  <2>2. \A t \in Tasks : t.db \in Tables  BY DEF Tasks
  <2>. QED  BY <2>1, <2>2
<1>3. queue # <<>> => Len(queue) \in DOMAIN queue
  BY <1>1
<1>4. Goal = IF queue = <<>> THEN db ELSE queue[Len(queue)].db
  BY DEF Goal, Last
<1>. QED  BY <1>1, <1>2, <1>3, <1>4 DEF Durable

LEMMA AppendedTask ==
  ASSUME TypeOK, NEW task \in Tasks, queue' = Append(queue, task), db' = db
  PROVE  Goal' = task.db /\ Durable' = Durable \cup {task.db} /\ queue' \in Seq(Tasks)
<1>1. queue \in Seq(Tasks)  BY DEF TypeOK, Tasks
<1>2. /\ queue' \in Seq(Tasks) /\ queue' # <<>> /\ Len(queue') = Len(queue) + 1
      /\ DOMAIN queue' = 1 .. Len(queue) + 1 /\ DOMAIN queue = 1 .. Len(queue)
      /\ queue'[Len(queue) + 1] = task
      /\ \A k \in 1 .. Len(queue) : queue'[k] = queue[k]
  BY <1>1
<1>3. Goal' = task.db
  BY <1>2 DEF Goal, Last
<1>4. Len(queue) \in Nat
  BY <1>1
<1>. QED  BY <1>2, <1>3, <1>4 DEF Durable

LEMMA AppendedTwo ==
  ASSUME TypeOK, NEW t \in Tasks, NEW u \in Tasks, queue' = queue \o <<t, u>>, db' = db
  PROVE  Goal' = u.db /\ Durable' = Durable \cup {t.db, u.db} /\ queue' \in Seq(Tasks)
<1>1. queue \in Seq(Tasks) /\ <<t, u>> \in Seq(Tasks)  BY DEF TypeOK, Tasks
<1>2. PICK n \in Nat : n = Len(queue) /\ DOMAIN queue = 1 .. n
  BY <1>1
<1>3. /\ queue' \in Seq(Tasks) /\ Len(queue') = n + 2 /\ DOMAIN queue' = 1 .. n + 2
      /\ queue'[n + 1] = t /\ queue'[n + 2] = u
      /\ \A k \in 1 .. n : queue'[k] = queue[k]
  BY <1>1, <1>2
<1>4. queue' # <<>>
  BY <1>2, <1>3
<1>5. Goal' = u.db
  BY <1>3, <1>4 DEF Goal, Last
<1>6. \A k \in 1 .. n + 2 : k \in 1 .. n \/ k = n + 1 \/ k = n + 2
  BY <1>2
<1>7. 1 .. n \subseteq 1 .. n + 2 /\ n + 1 \in 1 .. n + 2 /\ n + 2 \in 1 .. n + 2
  BY <1>2
<1>. DEFINE After == {queue'[k].db : k \in 1 .. n + 2}
            Before == {queue[k].db : k \in 1 .. n}
<1>8. After \subseteq Before \cup {t.db, u.db}
  BY <1>3, <1>6
<1>9. Before \subseteq After
  BY <1>3, <1>7
<1>10. t.db \in After /\ u.db \in After
  BY <1>3, <1>7
<1>11. After = Before \cup {t.db, u.db}
  <2>. HIDE DEF After, Before
  <2>. QED  BY <1>8, <1>9, <1>10
<1>. QED  BY <1>2, <1>3, <1>5, <1>11 DEF Durable

LEMMA Enqueued ==
  ASSUME TypeOK, NEW d \in Tables, Enqueue(d), db' = db
  PROVE  Goal' = d /\ Durable' = Durable \cup {d} /\ queue' \in Seq(Tasks)
<1>1. Task(d, None) \in Tasks /\ Task(d, None).db = d
  BY DEF Task, Tasks
<1>2. queue' = Append(queue, Task(d, None))  BY DEF Enqueue
<1>. QED  BY <1>1, <1>2, AppendedTask

-----------------------------------------------------------------------------
(* Money. *)

LEMMA ModifyMoneyNat ==
  ASSUME NEW g \in Nat, NEW n \in Int
  PROVE  ModifyMoney(g, n) \in Nat /\ ModifyMoney(g, -n) \in Nat
<1>1. MaxMoney \in Nat  BY MarketAssumption
<1>. QED  BY <1>1 DEF ModifyMoney

LEMMA CutFacts ==
  ASSUME NEW bid \in Nat
  PROVE  Cut(bid) \in Nat /\ Cut(bid) <= bid
<1>1. CutRate \in Nat /\ CutRate <= 100
  BY MarketAssumption
<1>2. bid * CutRate \in Nat /\ bid * CutRate <= bid * 100
  BY <1>1
<1>3. PICK n \in Nat : n = bid * CutRate /\ n <= bid * 100
  BY <1>2
<1>4. n \div 100 \in Nat /\ n \div 100 <= bid
  BY <1>3
<1>. QED  BY <1>3, <1>4 DEF Cut

LEMMA Int32Facts ==
  \A n \in Nat : Int32(n) \in Int /\ (n < Half => Int32(n) = n)
<1>1. PICK w \in Nat \ {0} : w = 2 * Half /\ Half \in Nat \ {0}
  BY TablesAssumption
<1>2. \A n \in Nat : n % w \in Nat /\ (n < w => n % w = n)
  OBVIOUS
<1>3. \A n \in Nat : n + Half \in Nat /\ (n < Half => n + Half < w)
  BY <1>1
<1>4. \A n \in Nat : (n + Half) % w \in Nat /\ (n < Half => (n + Half) % w = n + Half)
  BY <1>2, <1>3
<1>. QED  BY <1>1, <1>4 DEF Int32

-----------------------------------------------------------------------------
(* Letters: drafts that are all right become rows that are all right.      *)

ProperDraft(m) ==
  m \in MailRow /\ (m.kind = "normal" => m.from \in Players)
                /\ (m.kind = "auction" => m.cod = 0)
ProperDrafts(drafts) ==
  drafts \in Seq(MailRow) /\ \A k \in DOMAIN drafts : ProperDraft(drafts[k])
Kinds == [Nat -> {"normal", "auction"}]
\* The kinds of the numbers below nm stay as they are.
Extends(more, kinds, nm) == \A i \in Nat : i < nm => more[i] = kinds[i]

LEMMA ProperDraftsConcat ==
  ASSUME NEW a, NEW b, ProperDrafts(a), ProperDrafts(b)
  PROVE  ProperDrafts(a \o b)
<1>1. a \in Seq(MailRow) /\ b \in Seq(MailRow)  BY DEF ProperDrafts
<1>2. a \o b \in Seq(MailRow)  BY <1>1
<1>3. ASSUME NEW k \in DOMAIN (a \o b)
      PROVE  ProperDraft((a \o b)[k])
  <2>1. k \in 1 .. Len(a) + Len(b) /\ Len(a) \in Nat /\ Len(b) \in Nat
        /\ (a \o b)[k] = IF k <= Len(a) THEN a[k] ELSE b[k - Len(a)]
    BY <1>1
  <2>2. DOMAIN a = 1 .. Len(a) /\ DOMAIN b = 1 .. Len(b)  BY <1>1
  <2>3. CASE k <= Len(a)
    BY <2>1, <2>2, <2>3 DEF ProperDrafts
  <2>4. CASE ~(k <= Len(a))
    BY <2>1, <2>2, <2>4 DEF ProperDrafts
  <2>. QED  BY <2>3, <2>4
<1>. QED  BY <1>2, <1>3 DEF ProperDrafts

LEMMA ProperDraftsShort ==
  /\ ProperDrafts(<<>>)
  /\ \A m : ProperDraft(m) => ProperDrafts(<<m>>)
<1>1. ProperDrafts(<<>>)  BY DEF ProperDrafts
<1>2. ASSUME NEW m, ProperDraft(m)
      PROVE  ProperDrafts(<<m>>)
  <2>1. m \in MailRow  BY <1>2 DEF ProperDraft
  <2>2. <<m>> \in Seq(MailRow) /\ DOMAIN <<m>> = {1} /\ <<m>>[1] = m  BY <2>1
  <2>. QED  BY <1>2, <2>2 DEF ProperDrafts
<1>. QED  BY <1>1, <1>2

LEMMA HouseProper ==
  ASSUME NEW to \in Players, NEW item \in Items \cup {None}, NEW money \in Nat
  PROVE  ProperDrafts(<<House(to, item, money)>>)
<1>1. ProperDraft(House(to, item, money))
  BY DEF ProperDraft, House, Draft, MailRow
<1>. QED  BY <1>1, ProperDraftsShort

LEMMA LetterProper ==
  ASSUME NEW from \in Players, NEW to \in Players, NEW back \in BOOLEAN,
         NEW item \in Items \cup {None}, NEW money \in Nat, NEW cod \in Nat
  PROVE  ProperDrafts(<<Draft(from, to, "normal", back, item, money, cod)>>)
<1>1. ProperDraft(Draft(from, to, "normal", back, item, money, cod))
  BY DEF ProperDraft, Draft, MailRow
<1>. QED  BY <1>1, ProperDraftsShort

\* What the auction house sends for an auction.
LEMMA AuctionMailProper ==
  ASSUME NEW a \in AuctionRow, NEW p
  PROVE  /\ ProperDrafts(OutbidMail(a, p)) /\ ProperDrafts(SuccessfulMail(a))
         /\ ProperDrafts(ExpiredMail(a))
         /\ a.bidder # None => ProperDrafts(WonMail(a))
<1>1. /\ a.item \in Items /\ a.owner \in Players /\ a.bid \in Nat /\ a.deposit \in Nat
      /\ a.bidder \in Players \cup {None}
  BY DEF AuctionRow
<1>2. a.bid + a.deposit - Cut(a.bid) \in Nat
  BY <1>1, CutFacts
<1>3. ProperDrafts(OutbidMail(a, p))
  BY <1>1, HouseProper, ProperDraftsShort DEF OutbidMail
<1>4. ProperDrafts(SuccessfulMail(a))
  BY <1>1, <1>2, HouseProper, ProperDraftsShort DEF SuccessfulMail
<1>5. ProperDrafts(ExpiredMail(a))
  BY <1>1, HouseProper, ProperDraftsShort DEF ExpiredMail
<1>6. a.bidder # None => ProperDrafts(WonMail(a))
  BY <1>1, HouseProper, ProperDraftsShort DEF WonMail
<1>. QED  BY <1>3, <1>4, <1>5, <1>6

LEMMA StampedProper ==
  ASSUME TypeOK, NEW kinds \in Kinds, NEW drafts, ProperDrafts(drafts)
  PROVE  \E more \in Kinds :
           /\ Extends(more, kinds, nextMail)
           /\ IsFiniteSet(Stamped(drafts))
           /\ \A m \in Stamped(drafts) : ProperMail(m, more, nextMail + Len(drafts))
<1>. DEFINE n == Len(drafts)
            New(k) == [drafts[k] EXCEPT !.id = nextMail + k - 1]
            more == [i \in Nat |-> IF i \in nextMail .. nextMail + n - 1
                                   THEN drafts[i - nextMail + 1].kind ELSE kinds[i]]
<1>1. nextMail \in Nat /\ n \in Nat /\ DOMAIN drafts = 1 .. n
  BY DEF TypeOK, ProperDrafts
<1>2. \A k \in 1 .. n : ProperDraft(drafts[k]) /\ drafts[k] \in MailRow
  BY <1>1 DEF ProperDrafts, ProperDraft
<1>3. more \in Kinds
  <2>1. \A k \in 1 .. n : drafts[k].kind \in {"normal", "auction"}
    BY <1>2 DEF MailRow
  <2>2. \A i \in Nat : i \in nextMail .. nextMail + n - 1 => i - nextMail + 1 \in 1 .. n
    BY <1>1
  <2>. HIDE DEF n
  <2>. QED  BY <2>1, <2>2 DEF Kinds
<1>4. Extends(more, kinds, nextMail)
  BY <1>1 DEF Extends
<1>5. ASSUME NEW k \in 1 .. n
      PROVE  ProperMail(New(k), more, nextMail + n)
  <2>1. PICK i \in Nat : i = nextMail + k - 1 /\ i \in nextMail .. nextMail + n - 1
                         /\ i - nextMail + 1 = k /\ i < nextMail + n
    BY <1>1
  <2>2. more[i] = drafts[k].kind
    BY <2>1
  <2>3. New(k) = [drafts[k] EXCEPT !.id = i]
    BY <2>1
  <2>. HIDE DEF more, New, n
  <2>. QED  BY <1>2, <2>1, <2>2, <2>3 DEF ProperMail, ProperDraft, MailRow
<1>6. Stamped(drafts) = {New(k) : k \in 1 .. n}
  BY <1>1 DEF Stamped
<1>7. IsFiniteSet(Stamped(drafts))
  <2>. HIDE DEF New, n
  <2>. DEFINE f == [k \in 1 .. n |-> New(k)]
  <2>1. Stamped(drafts) = {f[k] : k \in 1 .. n}
    BY <1>6
  <2>2. PICK S : S = 1 .. n /\ IsFiniteSet(S)
    BY <1>1, FS_Interval
  <2>. HIDE DEF f
  <2>3. Stamped(drafts) = {f[k] : k \in S}
    BY <2>1, <2>2
  <2>4. IsFiniteSet(S)  BY <2>2
  <2>5. IsFiniteSet({f[k] : k \in S})
    <3>. HIDE DEF more
    <3>. QED  BY ONLY <2>4, ImageFinite
  <2>. QED  BY <2>3, <2>5
<1>. HIDE DEF more, New
<1>. QED  BY <1>3, <1>4, <1>5, <1>6, <1>7

LEMMA ProperExtends ==
  ASSUME NEW kinds, NEW more, NEW nm \in Nat, NEW nm2 \in Nat, nm <= nm2,
         Extends(more, kinds, nm)
  PROVE  /\ \A m : ProperMail(m, kinds, nm) => ProperMail(m, more, nm2)
         /\ \A na \in Nat, na2 \in Nat : \A d :
              na <= na2 /\ Proper(d, kinds, nm, na) => Proper(d, more, nm2, na2)
<1>1. ASSUME NEW m, ProperMail(m, kinds, nm)
      PROVE  ProperMail(m, more, nm2)
  <2>1. m \in MailRow /\ m.id \in Nat /\ m.id < nm
    BY <1>1 DEF ProperMail, MailRow
  <2>2. more[m.id] = kinds[m.id]
    BY <2>1 DEF Extends
  <2>. QED  BY <1>1, <2>1, <2>2 DEF ProperMail
<1>2. ASSUME NEW na \in Nat, NEW na2 \in Nat, na <= na2, NEW d, Proper(d, kinds, nm, na)
      PROVE  Proper(d, more, nm2, na2)
  <2>1. \A a \in d.auctions : a.id \in Nat
    BY <1>2 DEF Proper, Tables, AuctionRow
  <2>. QED  BY <1>1, <1>2, <2>1 DEF Proper
<1>. QED  BY <1>1, <1>2

-----------------------------------------------------------------------------
(* The invariant: the types, and rows that are all right everywhere.       *)

ProperState(kinds) ==
  /\ kinds \in Kinds
  /\ \A d \in Durable : Proper(d, kinds, nextMail, nextAuction)
  /\ \A p \in Players : \A e \in box[p] : ProperMail(e.mail, kinds, nextMail)
TInv == TypeOK /\ \E kinds : ProperState(kinds)

\* Mailboxes with letters that are all right.
ProperBoxes(boxes, kinds, nm) ==
  boxes \in Boxes /\ \A p \in Players : \A e \in boxes[p] : ProperMail(e.mail, kinds, nm)

LEMMA DeliveredProper ==
  ASSUME NEW kinds, NEW nm, NEW boxes, ProperBoxes(boxes, kinds, nm),
         NEW letters, \A m \in letters : ProperMail(m, kinds, nm)
  PROVE  ProperBoxes(Delivered(boxes, letters), kinds, nm)
<1>1. \A m \in letters : m \in MailRow  BY DEF ProperMail
<1>2. \A m \in letters : InBox(m) \in [mail : MailRow, state : {"unchanged", "changed", "deleted"}]
                         /\ InBox(m).mail = m
  BY <1>1 DEF InBox
<1>. DEFINE New(p) == {InBox(m) : m \in {l \in letters : l.to = p /\ MailsLoaded(p)}}
<1>3. \A p \in Players : New(p) \subseteq [mail : MailRow, state : {"unchanged", "changed", "deleted"}]
                         /\ \A e \in New(p) : ProperMail(e.mail, kinds, nm)
  BY <1>2
<1>4. Delivered(boxes, letters) = [p \in Players |-> boxes[p] \cup New(p)]
  BY DEF Delivered
<1>. HIDE DEF New
<1>. QED  BY <1>3, <1>4 DEF ProperBoxes, Boxes

\* A step that appends one transaction: it suffices that the tables afterwards
\* and the mailboxes are all right.
LEMMA TransactionProper ==
  ASSUME TypeOK, NEW kinds, ProperState(kinds), NEW more \in Kinds,
         Extends(more, kinds, nextMail),
         nextMail' \in Nat, nextMail <= nextMail', nextAuction' \in Nat,
         nextAuction <= nextAuction', db' = db, NEW d, Enqueue(d),
         Proper(d, more, nextMail', nextAuction'), ProperBoxes(box', more, nextMail')
  PROVE  ProperState(more)' /\ queue' \in Seq(Tasks) /\ box' \in Boxes
<1>1. d \in Tables  BY DEF Proper
<1>2. Durable' = Durable \cup {d} /\ queue' \in Seq(Tasks)
  BY <1>1, Enqueued
<1>3. nextMail \in Nat /\ nextAuction \in Nat  BY DEF TypeOK
<1>4. \A e \in Durable : Proper(e, more, nextMail', nextAuction')
  BY <1>3, ProperExtends DEF ProperState
<1>. QED  BY <1>2, <1>4 DEF ProperState, ProperBoxes

LEMMA QuietTransactionProper ==
  ASSUME TypeOK, NEW kinds, ProperState(kinds),
         db' = db, nextMail' = nextMail, nextAuction' = nextAuction, NEW d, Enqueue(d),
         Proper(d, kinds, nextMail, nextAuction), ProperBoxes(box', kinds, nextMail)
  PROVE  ProperState(kinds)' /\ queue' \in Seq(Tasks) /\ box' \in Boxes
<1>1. kinds \in Kinds /\ Extends(kinds, kinds, nextMail)  BY DEF ProperState, Extends
<1>2. nextMail \in Nat /\ nextAuction \in Nat
  BY TypeOKParts DEF CountTypes
<1>3. nextMail' \in Nat /\ nextMail <= nextMail' /\ nextAuction' \in Nat
      /\ nextAuction <= nextAuction'
  BY <1>2
<1>4. Proper(d, kinds, nextMail', nextAuction') /\ ProperBoxes(box', kinds, nextMail')
  OBVIOUS
<1>. QED  BY <1>1, <1>3, <1>4, TransactionProper

LEMMA SaveGoldProper ==
  ASSUME TypeOK, NEW kinds, NEW nm, NEW na, NEW d, Proper(d, kinds, nm, na),
         NEW p \in Players, NEW g \in Nat
  PROVE  Proper(SaveGold(d, p, g), kinds, nm, na)
<1>1. purse[p] \in Nat  BY DEF TypeOK
<1>2. d \in Tables  BY DEF Proper
<1>3. d.earned + purse[p] \in Nat /\ [d.gold EXCEPT ![p] = g] \in [Players -> Nat]
  BY <1>1, <1>2 DEF Tables
<1>4. SaveGold(d, p, g) = [d EXCEPT !.gold = [d.gold EXCEPT ![p] = g],
                                    !.earned = d.earned + purse[p]]
  BY <1>2 DEF SaveGold, Tables
<1>5. SaveGold(d, p, g) \in Tables
  BY <1>2, <1>3, <1>4 DEF Tables
<1>. QED  BY <1>4, <1>5 DEF Proper, Tables

LEMMA ProperNow ==
  ASSUME TypeOK, NEW kinds, ProperState(kinds)
  PROVE  /\ kinds \in Kinds /\ Extends(kinds, kinds, nextMail)
         /\ nextMail \in Nat /\ nextAuction \in Nat
         /\ Proper(Goal, kinds, nextMail, nextAuction)
         /\ Proper(db, kinds, nextMail, nextAuction)
         /\ ProperBoxes(box, kinds, nextMail)
<1>1. Goal \in Durable /\ db \in Durable
  BY TablesOfQueue DEF Durable
<1>. QED  BY <1>1 DEF ProperState, ProperBoxes, Boxes, TypeOK, Extends

LEMMA Constants ==
  /\ Deposit \in Int /\ MailCost \in Nat /\ MaxMoney \in Nat /\ Start \in Nat
  /\ \A n \in Prices : n \in Nat /\ n \in Int
  /\ \A n \in Sums : n \in Nat
BY MarketAssumption

LEMMA PlayerNow ==
  ASSUME TypeOK, NEW p \in Players
  PROVE  gold[p] \in Nat /\ purse[p] \in Nat /\ bag[p] \subseteq Items
BY TypeOKParts DEF PlayerTypes

LEMMA SellItemTInv ==
  ASSUME TypeOK, NEW kinds, ProperState(kinds),
         NEW p \in Players, NEW i \in Items, NEW offer \in Offers, SellItem(p, i, offer)
  PROVE  TInv'
<1>. DEFINE a == [id |-> nextAuction, item |-> i, owner |-> p, startbid |-> offer[1],
                  buyout |-> offer[2], bidder |-> None, bid |-> 0, deposit |-> Deposit]
            g == ModifyMoney(gold[p], -Deposit)
            d == SaveGold(InsertAuction(DeleteFromInventory(Goal, i), a), p, g)
<1>1. /\ auctions' = auctions \cup {a} /\ gold' = [gold EXCEPT ![p] = g] /\ Enqueue(d)
      /\ aitems' = aitems \cup {i} /\ bag' = [bag EXCEPT ![p] = @ \ {i}]
      /\ nextAuction' = nextAuction + 1 /\ purse' = [purse EXCEPT ![p] = 0]
      /\ UNCHANGED <<db, phase, box, nextMail, bounds, crossed>>
  BY DEF SellItem
<1>2. a \in AuctionRow /\ a.id = nextAuction
  BY MarketAssumption DEF AuctionRow, TypeOK
<1>3. g \in Nat
  BY PlayerNow, Constants, ModifyMoneyNat
<1>. HIDE DEF a, g
<1>4. Proper(d, kinds, nextMail, nextAuction + 1)
  <2>1. Proper(Goal, kinds, nextMail, nextAuction + 1)
    BY ProperNow, ProperExtends
  <2>2. nextAuction < nextAuction + 1  BY ProperNow
  <2>. QED  BY <1>2, <1>3, <2>1, <2>2, InventoryProper, InsertAuctionProper, SaveGoldProper
<1>. HIDE DEF d
<1>5. ProperState(kinds)' /\ queue' \in Seq(Tasks) /\ box' \in Boxes
  BY <1>1, <1>4, ProperNow, TransactionProper
<1>6. db' \in Tables /\ WorldTypes' /\ CountTypes'
  BY <1>1, <1>2, TypeOKParts DEF bounds, WorldTypes, CountTypes
<1>7. PlayerTypes'
  BY <1>1, <1>3, TypeOKParts DEF PlayerTypes
<1>. QED  BY <1>5, <1>6, <1>7, TypeOKPartsNext DEF TInv

\* The letters a step sends, and the boxes they are delivered to.
LEMMA SentProper ==
  ASSUME TypeOK, NEW kinds, ProperState(kinds), NEW drafts, ProperDrafts(drafts), Sent(drafts),
         NEW boxes, ProperBoxes(boxes, kinds, nextMail)
  PROVE  /\ nextMail' \in Nat /\ nextMail <= nextMail'
         /\ \E more \in Kinds :
              /\ Extends(more, kinds, nextMail)
              /\ \A d : Proper(d, kinds, nextMail, nextAuction) =>
                   Proper(InsertMails(d, Stamped(drafts)), more, nextMail', nextAuction)
              /\ ProperBoxes(Delivered(boxes, Stamped(drafts)), more, nextMail')
<1>1. nextMail \in Nat /\ Len(drafts) \in Nat /\ nextMail' = nextMail + Len(drafts)
  BY ProperNow DEF Sent, ProperDrafts
<1>2. PICK more \in Kinds :
        /\ Extends(more, kinds, nextMail) /\ IsFiniteSet(Stamped(drafts))
        /\ \A m \in Stamped(drafts) : ProperMail(m, more, nextMail')
  BY <1>1, ProperNow, StampedProper
<1>3. nextMail' \in Nat /\ nextMail <= nextMail' /\ nextAuction \in Nat
  BY <1>1, ProperNow
<1>4. ASSUME NEW d, Proper(d, kinds, nextMail, nextAuction)
      PROVE  Proper(InsertMails(d, Stamped(drafts)), more, nextMail', nextAuction)
  <2>1. Proper(d, more, nextMail', nextAuction)
    BY <1>1, <1>2, <1>3, <1>4, ProperExtends
  <2>. QED  BY <1>2, <2>1, InsertMailsProper
<1>5. ProperBoxes(boxes, more, nextMail')
  <2>1. \A m : ProperMail(m, kinds, nextMail) => ProperMail(m, more, nextMail')
    BY <1>1, <1>2, <1>3, ProperExtends
  <2>. QED  BY <2>1 DEF ProperBoxes
<1>6. ProperBoxes(Delivered(boxes, Stamped(drafts)), more, nextMail')
  BY <1>2, <1>5, DeliveredProper
<1>. QED  BY <1>2, <1>3, <1>4, <1>6

LEMMA BidTInv ==
  ASSUME TypeOK, NEW kinds, ProperState(kinds),
         NEW p \in Players, NEW a \in auctions, NEW n \in Prices, Bid(p, a, n)
  PROVE  TInv'
<1>. DEFINE b == [a EXCEPT !.bidder = p, !.bid = n]
            drafts == OutbidMail(a, p)
            g == Pays(p, a, n)
            d == SaveGold(UpdateBid(InsertMails(Goal, Stamped(drafts)), b), p, g)
<1>1. /\ Sent(drafts) /\ auctions' = (auctions \ {a}) \cup {b}
      /\ gold' = [gold EXCEPT ![p] = g] /\ box' = Delivered(box, Stamped(drafts))
      /\ Enqueue(d) /\ purse' = [purse EXCEPT ![p] = 0]
      /\ UNCHANGED <<db, aitems, phase, bag, nextAuction, bounds, crossed>>
  BY DEF Bid
<1>2. a \in AuctionRow /\ b \in AuctionRow /\ a.bid \in Nat
  BY TypeOKParts, Constants DEF WorldTypes, AuctionRow
<1>3. g \in Nat
  <2>1. n - (IF a.bidder = p THEN a.bid ELSE 0) \in Int
    BY <1>2, Constants
  <2>. QED  BY <2>1, PlayerNow, ModifyMoneyNat DEF Pays
<1>4. ProperDrafts(drafts)
  BY <1>2, AuctionMailProper
<1>. HIDE DEF b, drafts, g
<1>5. PICK more \in Kinds :
        /\ Extends(more, kinds, nextMail) /\ nextMail' \in Nat /\ nextMail <= nextMail'
        /\ Proper(InsertMails(Goal, Stamped(drafts)), more, nextMail', nextAuction)
        /\ ProperBoxes(box', more, nextMail')
  BY <1>1, <1>4, ProperNow, SentProper
<1>6. Proper(d, more, nextMail', nextAuction)
  BY <1>2, <1>3, <1>5, UpdateBidProper, SaveGoldProper
<1>. HIDE DEF d
<1>7. ProperState(more)' /\ queue' \in Seq(Tasks) /\ box' \in Boxes
  BY <1>1, <1>5, <1>6, ProperNow, TransactionProper
<1>8. db' \in Tables /\ WorldTypes' /\ CountTypes'
  BY <1>1, <1>2, <1>5, TypeOKParts DEF bounds, WorldTypes, CountTypes
<1>9. PlayerTypes'
  BY <1>1, <1>3, TypeOKParts DEF PlayerTypes
<1>. QED  BY <1>7, <1>8, <1>9, TypeOKPartsNext DEF TInv

LEMMA BuyOutTInv ==
  ASSUME TypeOK, NEW kinds, ProperState(kinds),
         NEW p \in Players, NEW a \in auctions, NEW n \in Prices, BuyOut(p, a, n)
  PROVE  TInv'
<1>. DEFINE b == [a EXCEPT !.bidder = p, !.bid = a.buyout]
            drafts == OutbidMail(a, p) \o SuccessfulMail(b) \o WonMail(b)
            g == Pays(p, a, a.buyout)
            d == SaveGold(Spend(DeleteAuction(InsertMails(Goal, Stamped(drafts)), a),
                                Cut(b.bid)), p, g)
<1>1. /\ Sent(drafts) /\ gold' = [gold EXCEPT ![p] = g] /\ box' = Delivered(box, Stamped(drafts))
      /\ Enqueue(d) /\ auctions' = auctions \ {a} /\ aitems' = aitems \ {a.item}
      /\ purse' = [purse EXCEPT ![p] = 0]
      /\ UNCHANGED <<db, phase, bag, nextAuction, bounds, crossed>>
  BY DEF BuyOut
<1>2. /\ a \in AuctionRow /\ b \in AuctionRow /\ a.bid \in Nat /\ b.bid \in Nat /\ a.buyout \in Nat
      /\ b.bidder # None
  BY TypeOKParts, Constants, TablesAssumption DEF WorldTypes, AuctionRow
<1>3. g \in Nat
  <2>1. a.buyout - (IF a.bidder = p THEN a.bid ELSE 0) \in Int
    BY <1>2
  <2>. QED  BY <2>1, PlayerNow, ModifyMoneyNat DEF Pays
<1>. HIDE DEF b
<1>4. ProperDrafts(drafts) /\ Cut(b.bid) \in Int
  <2>1. ProperDrafts(OutbidMail(a, p)) /\ ProperDrafts(SuccessfulMail(b)) /\ ProperDrafts(WonMail(b))
    BY <1>2, AuctionMailProper
  <2>2. ProperDrafts(OutbidMail(a, p) \o SuccessfulMail(b))
    BY <2>1, ProperDraftsConcat
  <2>3. ProperDrafts(drafts)
    BY <2>1, <2>2, ProperDraftsConcat
  <2>. QED  BY <2>3, <1>2, CutFacts
<1>. HIDE DEF drafts, g
<1>5. PICK more \in Kinds :
        /\ Extends(more, kinds, nextMail) /\ nextMail' \in Nat /\ nextMail <= nextMail'
        /\ Proper(InsertMails(Goal, Stamped(drafts)), more, nextMail', nextAuction)
        /\ ProperBoxes(box', more, nextMail')
  BY <1>1, <1>4, ProperNow, SentProper
<1>6. Proper(d, more, nextMail', nextAuction)
  BY <1>3, <1>4, <1>5, DeleteAuctionProper, SpendProper, SaveGoldProper
<1>. HIDE DEF d
<1>7. ProperState(more)' /\ queue' \in Seq(Tasks) /\ box' \in Boxes
  BY <1>1, <1>5, <1>6, ProperNow, TransactionProper
<1>8. db' \in Tables /\ WorldTypes' /\ CountTypes'
  BY <1>1, <1>2, <1>5, TypeOKParts DEF bounds, WorldTypes, CountTypes
<1>9. PlayerTypes'
  BY <1>1, <1>3, TypeOKParts DEF PlayerTypes
<1>. QED  BY <1>7, <1>8, <1>9, TypeOKPartsNext DEF TInv

LEMMA CancelTInv ==
  ASSUME TypeOK, NEW kinds, ProperState(kinds),
         NEW p \in Players, NEW a \in auctions, Cancel(p, a)
  PROVE  TInv'
<1>. DEFINE cut == IF a.bidder = None THEN 0 ELSE Cut(a.bid)
            drafts == OutbidMail(a, None) \o <<House(p, a.item, 0)>>
            g == ModifyMoney(gold[p], -cut)
            d == DeleteAuction(SaveGold(Spend(InsertMails(Goal, Stamped(drafts)),
                                              cut + a.deposit), p, g), a)
<1>1. /\ Sent(drafts) /\ gold' = [gold EXCEPT ![p] = g] /\ box' = Delivered(box, Stamped(drafts))
      /\ Enqueue(d) /\ auctions' = auctions \ {a} /\ aitems' = aitems \ {a.item}
      /\ purse' = [purse EXCEPT ![p] = 0]
      /\ UNCHANGED <<db, phase, bag, nextAuction, bounds, crossed>>
  BY DEF Cancel
<1>2. /\ a \in AuctionRow /\ a.item \in Items /\ a.bid \in Nat /\ a.deposit \in Nat
  BY TypeOKParts DEF WorldTypes, AuctionRow
<1>3. cut \in Nat
  BY <1>2, CutFacts
<1>4. ProperDrafts(drafts)
  BY <1>2, AuctionMailProper, HouseProper, ProperDraftsConcat
<1>. HIDE DEF drafts, cut
<1>5. g \in Nat /\ cut + a.deposit \in Int
  <2>1. cut \in Int /\ gold[p] \in Nat  BY <1>3, PlayerNow
  <2>2. g \in Nat  BY <2>1, ModifyMoneyNat
  <2>. QED  BY <1>2, <1>3, <2>2
<1>. HIDE DEF g
<1>6. PICK more \in Kinds :
        /\ Extends(more, kinds, nextMail) /\ nextMail' \in Nat /\ nextMail <= nextMail'
        /\ Proper(InsertMails(Goal, Stamped(drafts)), more, nextMail', nextAuction)
        /\ ProperBoxes(box', more, nextMail')
  BY <1>1, <1>4, ProperNow, SentProper
<1>7. Proper(d, more, nextMail', nextAuction)
  BY <1>5, <1>6, DeleteAuctionProper, SpendProper, SaveGoldProper
<1>. HIDE DEF d
<1>8. ProperState(more)' /\ queue' \in Seq(Tasks) /\ box' \in Boxes
  BY <1>1, <1>6, <1>7, ProperNow, TransactionProper
<1>9. db' \in Tables /\ WorldTypes' /\ CountTypes'
  BY <1>1, <1>2, <1>6, TypeOKParts DEF bounds, WorldTypes, CountTypes
<1>10. PlayerTypes'
  BY <1>1, <1>5, TypeOKParts DEF PlayerTypes
<1>. QED  BY <1>8, <1>9, <1>10, TypeOKPartsNext DEF TInv

LEMMA ExpireTInv ==
  ASSUME TypeOK, NEW kinds, ProperState(kinds),
         NEW r \in db.auctions, NEW a \in auctions, Expire(r, a)
  PROVE  TInv'
<1>. DEFINE drafts == IF a.bidder = None THEN ExpiredMail(a)
                      ELSE SuccessfulMail(a) \o WonMail(a)
            fee == IF a.bidder = None THEN a.deposit ELSE Cut(a.bid)
            d == Spend(DeleteAuction(InsertMails(Goal, Stamped(drafts)), a), fee)
<1>1. /\ Sent(drafts) /\ box' = Delivered(box, Stamped(drafts))
      /\ Enqueue(d) /\ auctions' = auctions \ {a} /\ aitems' \in {aitems, aitems \ {a.item}}
      /\ UNCHANGED <<db, phase, gold, bag, nextAuction, purse, bounds, crossed>>
  BY DEF Expire
<1>2. a \in AuctionRow /\ a.bid \in Nat /\ a.deposit \in Nat
  BY TypeOKParts DEF WorldTypes, AuctionRow
<1>3. fee \in Int
  BY <1>2, CutFacts
<1>4. ProperDrafts(drafts)
  BY <1>2, AuctionMailProper, ProperDraftsConcat
<1>. HIDE DEF drafts, fee
<1>5. PICK more \in Kinds :
        /\ Extends(more, kinds, nextMail) /\ nextMail' \in Nat /\ nextMail <= nextMail'
        /\ Proper(InsertMails(Goal, Stamped(drafts)), more, nextMail', nextAuction)
        /\ ProperBoxes(box', more, nextMail')
  BY <1>1, <1>4, ProperNow, SentProper
<1>6. Proper(d, more, nextMail', nextAuction)
  BY <1>3, <1>5, DeleteAuctionProper, SpendProper
<1>. HIDE DEF d
<1>7. ProperState(more)' /\ queue' \in Seq(Tasks) /\ box' \in Boxes
  BY <1>1, <1>5, <1>6, ProperNow, TransactionProper
<1>8. db' \in Tables /\ WorldTypes' /\ CountTypes'
  BY <1>1, <1>2, <1>5, TypeOKParts DEF bounds, WorldTypes, CountTypes
<1>9. PlayerTypes'
  BY <1>1, TypeOKParts DEF PlayerTypes
<1>. QED  BY <1>7, <1>8, <1>9, TypeOKPartsNext DEF TInv

LEMMA SendMailTInv ==
  ASSUME TypeOK, NEW kinds, ProperState(kinds),
         NEW p \in Players, NEW q \in Players, NEW i \in Items \cup {None},
         NEW n \in Sums, NEW c \in Sums, SendMail(p, q, i, n, c)
  PROVE  TInv'
<1>. DEFINE drafts == <<Draft(p, q, "normal", FALSE, i, n, c)>>
            rest == IF i = None THEN Goal ELSE DeleteFromInventory(Goal, i)
            g == ModifyMoney(gold[p], -(MailCost + n))
            d == SaveGold(Spend(InsertMails(rest, Stamped(drafts)), MailCost), p, g)
<1>1. /\ Sent(drafts) /\ gold' = [gold EXCEPT ![p] = g] /\ box' = Delivered(box, Stamped(drafts))
      /\ Enqueue(d) /\ bag' = [bag EXCEPT ![p] = @ \ {i}] /\ purse' = [purse EXCEPT ![p] = 0]
      /\ UNCHANGED <<db, world, phase, nextAuction, bounds, crossed>>
  BY DEF SendMail
<1>2. g \in Nat /\ MailCost \in Int
  BY PlayerNow, Constants, ModifyMoneyNat
<1>3. ProperDrafts(drafts)
  BY Constants, LetterProper
<1>4. Proper(rest, kinds, nextMail, nextAuction)
  BY ProperNow, InventoryProper
<1>. HIDE DEF drafts, rest, g
<1>5. PICK more \in Kinds :
        /\ Extends(more, kinds, nextMail) /\ nextMail' \in Nat /\ nextMail <= nextMail'
        /\ Proper(InsertMails(rest, Stamped(drafts)), more, nextMail', nextAuction)
        /\ ProperBoxes(box', more, nextMail')
  BY <1>1, <1>3, <1>4, ProperNow, SentProper
<1>6. Proper(d, more, nextMail', nextAuction)
  BY <1>2, <1>5, SpendProper, SaveGoldProper
<1>. HIDE DEF d
<1>7. ProperState(more)' /\ queue' \in Seq(Tasks) /\ box' \in Boxes
  BY <1>1, <1>5, <1>6, ProperNow, TransactionProper
<1>8. db' \in Tables /\ WorldTypes' /\ CountTypes'
  BY <1>1, <1>5, TypeOKParts DEF bounds, world, WorldTypes, CountTypes
<1>9. PlayerTypes'
  BY <1>1, <1>2, TypeOKParts DEF PlayerTypes
<1>. QED  BY <1>7, <1>8, <1>9, TypeOKPartsNext DEF TInv

-----------------------------------------------------------------------------
(* Mailboxes. *)

Entries == [mail : MailRow, state : {"unchanged", "changed", "deleted"}]
ProperBox(b, kinds, nm) == b \subseteq Entries /\ \A e \in b : ProperMail(e.mail, kinds, nm)

LEMMA BoxProper ==
  ASSUME NEW kinds, NEW nm, NEW p \in Players
  PROVE  /\ \A boxes : ProperBoxes(boxes, kinds, nm) => ProperBox(boxes[p], kinds, nm)
         /\ \A boxes, b : ProperBoxes(boxes, kinds, nm) /\ ProperBox(b, kinds, nm)
              => ProperBoxes([boxes EXCEPT ![p] = b], kinds, nm)
BY DEF ProperBoxes, ProperBox, Boxes, Entries

LEMMA ReplaceProper ==
  ASSUME NEW kinds, NEW nm, NEW b, ProperBox(b, kinds, nm), NEW e,
         NEW f \in Entries, ProperMail(f.mail, kinds, nm)
  PROVE  ProperBox(Replace(b, e, f), kinds, nm)
BY DEF ProperBox, Replace

LEMMA SavedProper ==
  ASSUME NEW kinds, NEW nm, NEW b, ProperBox(b, kinds, nm)
  PROVE  ProperBox(Saved(b), kinds, nm)
<1>1. \A e \in Entries : LET f == [e EXCEPT !.state = "unchanged"]
                         IN  f \in Entries /\ f.mail = e.mail
  BY DEF Entries
<1>. QED  BY <1>1 DEF ProperBox, Saved

LEMMA SaveMailsProper ==
  ASSUME NEW kinds, NEW nm, NEW na, NEW d, Proper(d, kinds, nm, na),
         NEW b, ProperBox(b, kinds, nm)
  PROVE  Proper(SaveMails(d, b), kinds, nm, na)
<1>1. \A l \in In(b, "changed") : ProperMail(l, kinds, nm)
  BY DEF ProperBox, In
<1>2. Proper(UpdateMails(d, In(b, "changed")), kinds, nm, na)
  BY <1>1, UpdateMailsProper
<1>. DEFINE ids == {m.id : m \in In(b, "deleted")}
            gone == {m.item : m \in In(b, "deleted")} \ {None}
<1>3. SaveMails(d, b) = DeleteItems(DeleteMails(UpdateMails(d, In(b, "changed")), ids), gone)
  BY DEF SaveMails
<1>. HIDE DEF ids, gone
<1>. QED  BY <1>2, <1>3, DeleteMailsProper, DeleteItemsProper

LEMMA MeetsTypes ==
  ASSUME TypeOK, NEW b \in BOOLEAN, Meets(b)
  PROVE  crossed' \in BOOLEAN
BY TypeOKParts DEF Meets, CountTypes

LEMMA LoadMailTInv ==
  ASSUME TypeOK, NEW kinds, ProperState(kinds), NEW p \in Players, LoadMail(p)
  PROVE  TInv'
<1>. DEFINE mine == {m \in db.mails : m.to = p}
            seen == {IF m.item \in db.items THEN m ELSE [m EXCEPT !.item = None] : m \in mine}
            b == {InBox(m) : m \in seen}
<1>1. /\ box' = [box EXCEPT ![p] = b] /\ phase' = [phase EXCEPT ![p] = "mailbox"]
      /\ UNCHANGED <<db, queue, world, gold, bag, nextMail, nextAuction, purse, bounds>>
      /\ crossed' \in BOOLEAN
  BY MeetsTypes DEF LoadMail
<1>2. \A m \in mine : ProperMail(m, kinds, nextMail)
  BY ProperNow DEF Proper
<1>3. \A m \in mine : ProperMail([m EXCEPT !.item = None], kinds, nextMail)
  BY <1>2 DEF ProperMail, MailRow
<1>4. \A m \in seen : ProperMail(m, kinds, nextMail)
  <2>. HIDE DEF mine
  <2>. QED  BY <1>2, <1>3
<1>5. ProperBox(b, kinds, nextMail)
  <2>. HIDE DEF seen
  <2>. QED  BY <1>4 DEF ProperBox, ProperMail, InBox, Entries
<1>. HIDE DEF b
<1>6. ProperBoxes(box', kinds, nextMail)
  BY <1>1, <1>5, ProperNow, BoxProper
<1>7. ProperState(kinds)' /\ box' \in Boxes
  BY <1>1, <1>6, ProperNow DEF ProperBoxes, ProperState, Durable
<1>8. db' \in Tables /\ queue' \in Seq(Tasks) /\ WorldTypes' /\ CountTypes'
  BY <1>1, TypeOKParts DEF bounds, world, WorldTypes, CountTypes
<1>9. PlayerTypes'
  BY <1>1, TypeOKParts DEF PlayerTypes
<1>. QED  BY <1>7, <1>8, <1>9, TypeOKPartsNext DEF TInv

LEMMA MailDeleteTInv ==
  ASSUME TypeOK, NEW kinds, ProperState(kinds), NEW p \in Players, NEW e \in box[p],
         MailDelete(p, e)
  PROVE  TInv'
<1>. DEFINE f == [e EXCEPT !.state = "deleted"]
<1>1. /\ box' = [box EXCEPT ![p] = Replace(box[p], e, f)]
      /\ UNCHANGED <<db, queue, world, phase, gold, bag, nextMail, nextAuction, purse, bounds,
                     crossed>>
  BY DEF MailDelete
<1>2. e \in Entries /\ ProperMail(e.mail, kinds, nextMail) /\ ProperBox(box[p], kinds, nextMail)
  BY ProperNow, BoxProper DEF ProperBox
<1>3. f \in Entries /\ f.mail = e.mail
  BY <1>2 DEF Entries
<1>. HIDE DEF f
<1>4. ProperBoxes(box', kinds, nextMail)
  BY <1>1, <1>2, <1>3, ReplaceProper, ProperNow, BoxProper
<1>5. ProperState(kinds)' /\ box' \in Boxes
  BY <1>1, <1>4, ProperNow DEF ProperBoxes, ProperState, Durable
<1>6. db' \in Tables /\ queue' \in Seq(Tasks) /\ WorldTypes' /\ CountTypes' /\ PlayerTypes'
  BY <1>1, TypeOKParts DEF bounds, world, WorldTypes, CountTypes, PlayerTypes
<1>. QED  BY <1>5, <1>6, TypeOKPartsNext DEF TInv

LEMMA ReturnToSenderTInv ==
  ASSUME TypeOK, NEW kinds, ProperState(kinds), NEW p \in Players, NEW e \in box[p],
         ReturnToSender(p, e)
  PROVE  TInv'
<1>. DEFINE m == e.mail
            drafts == <<Draft(m.to, m.from, "normal", TRUE, m.item, m.money, 0)>>
            rest == Spend(DeleteMails(Goal, {m.id}), -m.money)
            boxes == [box EXCEPT ![p] = @ \ {e}]
            d == InsertMails(rest, Stamped(drafts))
<1>1. /\ Sent(drafts) /\ box' = Delivered(boxes, Stamped(drafts)) /\ Enqueue(d)
      /\ m.kind = "normal"
      /\ UNCHANGED <<db, world, phase, gold, bag, nextAuction, purse, bounds, crossed>>
  BY DEF ReturnToSender
<1>2. ProperMail(m, kinds, nextMail) /\ ProperBox(box[p], kinds, nextMail)
  BY ProperNow, BoxProper DEF ProperBox
<1>3. /\ m \in MailRow /\ m.from \in Players /\ m.to \in Players /\ m.item \in Items \cup {None}
      /\ m.money \in Nat
  BY <1>1, <1>2 DEF ProperMail, MailRow
<1>. HIDE DEF m
<1>4. ProperDrafts(drafts)
  BY <1>3, LetterProper
<1>5. Proper(rest, kinds, nextMail, nextAuction)
  <2>1. -m.money \in Int  BY <1>3
  <2>. QED  BY <2>1, ProperNow, DeleteMailsProper, SpendProper
<1>6. ProperBoxes(boxes, kinds, nextMail)
  <2>1. ProperBox(box[p] \ {e}, kinds, nextMail)
    BY <1>2 DEF ProperBox
  <2>. QED  BY <2>1, ProperNow, BoxProper
<1>. HIDE DEF drafts, rest, boxes
<1>7. PICK more \in Kinds :
        /\ Extends(more, kinds, nextMail) /\ nextMail' \in Nat /\ nextMail <= nextMail'
        /\ Proper(d, more, nextMail', nextAuction)
        /\ ProperBoxes(box', more, nextMail')
  BY <1>1, <1>4, <1>5, <1>6, SentProper
<1>. HIDE DEF d
<1>8. ProperState(more)' /\ queue' \in Seq(Tasks) /\ box' \in Boxes
  BY <1>1, <1>7, ProperNow, TransactionProper
<1>9. db' \in Tables /\ WorldTypes' /\ CountTypes' /\ PlayerTypes'
  BY <1>1, <1>7, TypeOKParts DEF bounds, world, WorldTypes, CountTypes, PlayerTypes
<1>. QED  BY <1>8, <1>9, TypeOKPartsNext DEF TInv

LEMMA ReturnToHouseTInv ==
  ASSUME TypeOK, NEW kinds, ProperState(kinds), NEW p \in Players, NEW e \in box[p],
         ReturnToHouse(p, e)
  PROVE  TInv'
<1>. DEFINE gone == {e.mail.item} \ {None}
            d == LoseItems(DeleteMails(Goal, {e.mail.id}), gone)
            b == box[p] \ {e}
<1>1. /\ box' = [box EXCEPT ![p] = b] /\ Enqueue(d)
      /\ UNCHANGED <<db, world, phase, gold, bag, nextMail, nextAuction, purse, bounds,
                     crossed>>
  BY DEF ReturnToHouse
<1>2. ProperMail(e.mail, kinds, nextMail) /\ ProperBox(b, kinds, nextMail)
  BY ProperNow, BoxProper DEF ProperBox
<1>3. gone \in SUBSET Items
  BY <1>2 DEF ProperMail, MailRow
<1>. HIDE DEF gone, b
<1>4. ProperBoxes(box', kinds, nextMail)
  BY <1>1, <1>2, ProperNow, BoxProper
<1>5. Proper(d, kinds, nextMail, nextAuction)
  BY <1>3, ProperNow, DeleteMailsProper, LoseItemsProper
<1>. HIDE DEF d
<1>6. ProperState(kinds)' /\ queue' \in Seq(Tasks) /\ box' \in Boxes
  <2>1. nextMail' = nextMail /\ nextAuction' = nextAuction /\ db' = db  BY <1>1
  <2>. QED  BY <2>1, <1>1, <1>4, <1>5, QuietTransactionProper
<1>7. db' \in Tables /\ WorldTypes' /\ CountTypes' /\ PlayerTypes'
  BY <1>1, TypeOKParts DEF bounds, world, WorldTypes, CountTypes, PlayerTypes
<1>. QED  BY <1>6, <1>7, TypeOKPartsNext DEF TInv

LEMMA TakeItemTInv ==
  ASSUME TypeOK, NEW kinds, ProperState(kinds), NEW p \in Players, NEW e \in box[p],
         TakeItem(p, e)
  PROVE  TInv'
<1>. DEFINE m == e.mail
            drafts == Payment(p, m)
            g == ModifyMoney(gold[p], -Int32(m.cod))
            taken == [mail |-> [m EXCEPT !.item = None, !.cod = 0], state |-> "changed"]
            b == Replace(box[p], e, taken)
            boxes == [box EXCEPT ![p] = Saved(b)]
            d == SaveMails(SaveGold(PutInInventory(InsertMails(Goal, Stamped(drafts)), p, m.item),
                                    p, g), b)
<1>1. /\ Sent(drafts) /\ box' = Delivered(boxes, Stamped(drafts)) /\ Enqueue(d)
      /\ m.item # None /\ gold' = [gold EXCEPT ![p] = g] /\ bag' = [bag EXCEPT ![p] = @ \cup {m.item}]
      /\ purse' = [purse EXCEPT ![p] = 0]
      /\ UNCHANGED <<db, world, phase, nextAuction, bounds, crossed>>
  BY DEF TakeItem
<1>2. ProperMail(m, kinds, nextMail) /\ ProperBox(box[p], kinds, nextMail)
  BY ProperNow, BoxProper DEF ProperBox
<1>3. m \in MailRow /\ m.item \in Items /\ m.cod \in Nat /\ (m.cod > 0 => m.from \in Players)
  BY <1>1, <1>2 DEF ProperMail, MailRow
<1>4. taken \in Entries /\ ProperMail(taken.mail, kinds, nextMail)
  BY <1>2 DEF ProperMail, MailRow, Entries
<1>. HIDE DEF m, taken
<1>5. ProperDrafts(drafts)
  BY <1>3, LetterProper, ProperDraftsShort DEF Payment
<1>6. g \in Nat
  <2>1. Int32(m.cod) \in Int  BY <1>3, Int32Facts
  <2>. QED  BY <2>1, PlayerNow, ModifyMoneyNat
<1>7. ProperBox(b, kinds, nextMail)
  BY <1>2, <1>4, ReplaceProper
<1>. HIDE DEF drafts, b, g
<1>8. ProperBoxes(boxes, kinds, nextMail)
  BY <1>7, SavedProper, ProperNow, BoxProper
<1>. HIDE DEF boxes
<1>9. PICK more \in Kinds :
        /\ Extends(more, kinds, nextMail) /\ nextMail' \in Nat /\ nextMail <= nextMail'
        /\ Proper(InsertMails(Goal, Stamped(drafts)), more, nextMail', nextAuction)
        /\ ProperBoxes(box', more, nextMail')
  BY <1>1, <1>5, <1>8, ProperNow, SentProper
<1>10. ProperBox(b, more, nextMail')
  <2>1. \A x : ProperMail(x, kinds, nextMail) => ProperMail(x, more, nextMail')
    BY <1>9, ProperNow, ProperExtends
  <2>. QED  BY <2>1, <1>7 DEF ProperBox
<1>11. Proper(d, more, nextMail', nextAuction)
  BY <1>3, <1>6, <1>9, <1>10, InventoryProper, SaveGoldProper, SaveMailsProper
<1>. HIDE DEF d
<1>12. ProperState(more)' /\ queue' \in Seq(Tasks) /\ box' \in Boxes
  BY <1>1, <1>9, <1>11, ProperNow, TransactionProper
<1>13. db' \in Tables /\ WorldTypes' /\ CountTypes'
  BY <1>1, <1>9, TypeOKParts DEF bounds, world, WorldTypes, CountTypes
<1>14. PlayerTypes'
  BY <1>1, <1>3, <1>6, TypeOKParts DEF PlayerTypes
<1>. QED  BY <1>12, <1>13, <1>14, TypeOKPartsNext DEF TInv

LEMMA TakeMoneyTInv ==
  ASSUME TypeOK, NEW kinds, ProperState(kinds), NEW p \in Players, NEW e \in box[p],
         TakeMoney(p, e)
  PROVE  TInv'
<1>. DEFINE g == ModifyMoney(gold[p], e.mail.money)
            f == [mail |-> [e.mail EXCEPT !.money = 0], state |-> "changed"]
            b == Replace(box[p], e, f)
            d == SaveMails(SaveGold(Goal, p, g), b)
<1>1. /\ box' = [box EXCEPT ![p] = Saved(b)] /\ Enqueue(d)
      /\ gold' = [gold EXCEPT ![p] = g] /\ purse' = [purse EXCEPT ![p] = 0]
      /\ UNCHANGED <<db, world, phase, bag, nextMail, nextAuction, bounds, crossed>>
  BY DEF TakeMoney
<1>2. ProperMail(e.mail, kinds, nextMail) /\ ProperBox(box[p], kinds, nextMail)
  BY ProperNow, BoxProper DEF ProperBox
<1>3. f \in Entries /\ ProperMail(f.mail, kinds, nextMail)
  BY <1>2 DEF ProperMail, MailRow, Entries
<1>4. g \in Nat
  <2>1. e.mail.money \in Int  BY <1>2 DEF ProperMail, MailRow
  <2>. QED  BY <2>1, PlayerNow, ModifyMoneyNat
<1>5. ProperBox(b, kinds, nextMail)
  <2>. HIDE DEF f
  <2>. QED  BY <1>2, <1>3, ReplaceProper
<1>. HIDE DEF f, g, b
<1>6. ProperBoxes(box', kinds, nextMail)
  BY <1>1, <1>5, SavedProper, ProperNow, BoxProper
<1>7. Proper(d, kinds, nextMail, nextAuction)
  BY <1>4, <1>5, ProperNow, SaveGoldProper, SaveMailsProper
<1>. HIDE DEF d
<1>8. ProperState(kinds)' /\ queue' \in Seq(Tasks) /\ box' \in Boxes
  <2>1. nextMail' = nextMail /\ nextAuction' = nextAuction /\ db' = db  BY <1>1
  <2>. QED  BY <2>1, <1>1, <1>6, <1>7, QuietTransactionProper
<1>9. db' \in Tables /\ WorldTypes' /\ CountTypes'
  BY <1>1, TypeOKParts DEF bounds, world, WorldTypes, CountTypes
<1>10. PlayerTypes'
  BY <1>1, <1>4, TypeOKParts DEF PlayerTypes
<1>. QED  BY <1>8, <1>9, <1>10, TypeOKPartsNext DEF TInv

-----------------------------------------------------------------------------
(* The nightly pass, players who come and go, the worker, crashes.         *)

LEMMA ReturnOrDeleteOldMailTInv ==
  ASSUME TypeOK, NEW kinds, ProperState(kinds), NEW m \in db.mails, ReturnOrDeleteOldMail(m)
  PROVE  TInv'
<1>. DEFINE returned == m.item # None /\ m.kind = "normal" /\ ~m.back
            emptied == IF m.item = None THEN Goal ELSE DeleteItems(Goal, {m.item})
            gone == Task(DeleteMails(emptied, {m.id}), None)
            first == Task(emptied, None)
<1>1. /\ \/ m.kind = "normal" /\ Enqueue(ReturnMail(Goal, m))
         \/ queue' = Append(queue, gone)
         \/ queue' = queue \o <<first, gone>>
      /\ UNCHANGED <<db, world, players, nextMail, nextAuction, bounds>>
      /\ crossed' \in BOOLEAN
  BY MeetsTypes DEF ReturnOrDeleteOldMail
<1>2. ProperMail(m, kinds, nextMail)
  BY ProperNow DEF Proper
<1>3. Proper(emptied, kinds, nextMail, nextAuction)
      /\ Proper(DeleteMails(emptied, {m.id}), kinds, nextMail, nextAuction)
  BY ProperNow, DeleteItemsProper, DeleteMailsProper
<1>4. first \in Tasks /\ gone \in Tasks /\ first.db = emptied
      /\ gone.db = DeleteMails(emptied, {m.id})
  BY <1>3 DEF Tasks, Task, Proper
<1>. HIDE DEF emptied, gone, first
<1>5. queue' \in Seq(Tasks) /\ \A d \in Durable' : d \in Durable \/ Proper(d, kinds, nextMail, nextAuction)
  <2>1. CASE m.kind = "normal" /\ Enqueue(ReturnMail(Goal, m))
    <3>1. m \in MailRow /\ m.from \in Players
      BY <1>2, <2>1 DEF ProperMail
    <3>2. Proper(ReturnMail(Goal, m), kinds, nextMail, nextAuction)
      BY <3>1, ProperNow, ReturnMailProper
    <3>3. ReturnMail(Goal, m) \in Tables  BY <3>2 DEF Proper
    <3>. QED  BY <1>1, <2>1, <3>2, <3>3, Enqueued
  <2>2. CASE queue' = Append(queue, gone)
    BY <1>1, <1>3, <1>4, <2>2, AppendedTask
  <2>3. CASE queue' = queue \o <<first, gone>>
    BY <1>1, <1>3, <1>4, <2>3, AppendedTwo
  <2>. QED  BY <1>1, <2>1, <2>2, <2>3
<1>6. ProperState(kinds)'
  BY <1>1, <1>5 DEF ProperState, players
<1>7. db' \in Tables /\ WorldTypes' /\ CountTypes' /\ PlayerTypes' /\ box' \in Boxes
  BY <1>1, TypeOKParts DEF bounds, world, players, WorldTypes, CountTypes, PlayerTypes
<1>. QED  BY <1>5, <1>6, <1>7, TypeOKPartsNext DEF TInv

LEMMA EarnTInv ==
  ASSUME TypeOK, NEW kinds, ProperState(kinds), NEW p \in Players, Earn(p)
  PROVE  TInv'
<1>1. /\ gold' = [gold EXCEPT ![p] = ModifyMoney(@, 1)]
      /\ purse' = [purse EXCEPT ![p] = @ + gold'[p] - gold[p]] /\ earned' = earned + 1
      /\ UNCHANGED <<db, queue, world, phase, bag, box, nextMail, nextAuction, logins, crashes,
                     crossed>>
  BY DEF Earn
<1>2. PICK g \in Nat, n \in Nat : g = gold[p] /\ n = purse[p]
  BY PlayerNow
<1>3. ModifyMoney(g, 1) \in Nat /\ ModifyMoney(g, 1) >= g
  BY <1>2, Constants DEF ModifyMoney
<1>4. gold' = [gold EXCEPT ![p] = ModifyMoney(g, 1)]
      /\ purse' = [purse EXCEPT ![p] = n + ModifyMoney(g, 1) - g]
  BY <1>1, <1>2, TypeOKParts DEF PlayerTypes
<1>5. n + ModifyMoney(g, 1) - g \in Nat
  BY <1>2, <1>3
<1>6. PlayerTypes'
  BY <1>1, <1>3, <1>4, <1>5, TypeOKParts DEF PlayerTypes
<1>7. db' \in Tables /\ queue' \in Seq(Tasks) /\ WorldTypes' /\ CountTypes' /\ box' \in Boxes
  BY <1>1, TypeOKParts DEF world, WorldTypes, CountTypes
<1>8. ProperState(kinds)'
  BY <1>1 DEF ProperState, Durable
<1>. QED  BY <1>6, <1>7, <1>8, TypeOKPartsNext DEF TInv

LEMMA SaveTInv ==
  ASSUME TypeOK, NEW kinds, ProperState(kinds), NEW p \in Players, NEW leaves \in BOOLEAN,
         Save(p, leaves)
  PROVE  TInv'
<1>. DEFINE d == SaveMails(SaveGold(Goal, p, gold[p]), box[p])
            b == IF leaves THEN {} ELSE Saved(box[p])
<1>1. /\ Enqueue(d) /\ box' = [box EXCEPT ![p] = b]
      /\ phase' = [phase EXCEPT ![p] = IF leaves THEN "offline" ELSE @]
      /\ gold' = [gold EXCEPT ![p] = IF leaves THEN 0 ELSE @]
      /\ bag' = [bag EXCEPT ![p] = IF leaves THEN {} ELSE @]
      /\ purse' = [purse EXCEPT ![p] = 0]
      /\ UNCHANGED <<db, world, nextMail, nextAuction, bounds, crossed>>
  BY DEF Save
<1>2. ProperBox(box[p], kinds, nextMail)
  BY ProperNow, BoxProper
<1>3. Proper(d, kinds, nextMail, nextAuction)
  BY <1>2, PlayerNow, ProperNow, SaveGoldProper, SaveMailsProper
<1>. HIDE DEF d
<1>4. ProperBox(b, kinds, nextMail)
  BY <1>2, SavedProper DEF ProperBox
<1>. HIDE DEF b
<1>5. ProperBoxes(box', kinds, nextMail)
  BY <1>1, <1>4, ProperNow, BoxProper
<1>6. ProperState(kinds)' /\ queue' \in Seq(Tasks) /\ box' \in Boxes
  <2>1. nextMail' = nextMail /\ nextAuction' = nextAuction /\ db' = db  BY <1>1
  <2>. QED  BY <2>1, <1>1, <1>3, <1>5, QuietTransactionProper
<1>7. db' \in Tables /\ WorldTypes' /\ CountTypes'
  BY <1>1, TypeOKParts DEF bounds, world, WorldTypes, CountTypes
<1>8. PlayerTypes'
  BY <1>1, TypeOKParts DEF PlayerTypes
<1>. QED  BY <1>6, <1>7, <1>8, TypeOKPartsNext DEF TInv

LEMMA LoginTInv ==
  ASSUME TypeOK, NEW kinds, ProperState(kinds), NEW p \in Players, Login(p)
  PROVE  TInv'
<1>1. /\ queue' = Append(queue, Task(Goal, p)) /\ logins' = logins + 1
      /\ phase' = [phase EXCEPT ![p] = "loading"]
      /\ UNCHANGED <<db, world, gold, bag, box, nextMail, nextAuction, purse, earned, crashes,
                     crossed>>
  BY DEF Login
<1>2. Goal \in Durable /\ Goal \in Tables  BY TablesOfQueue
<1>3. Task(Goal, p) \in Tasks /\ Task(Goal, p).db = Goal
  BY <1>2 DEF Task, Tasks
<1>4. Durable' = Durable /\ queue' \in Seq(Tasks)
  BY <1>1, <1>2, <1>3, AppendedTask
<1>5. ProperState(kinds)'
  BY <1>1, <1>4 DEF ProperState
<1>6. db' \in Tables /\ WorldTypes' /\ CountTypes' /\ PlayerTypes' /\ box' \in Boxes
  BY <1>1, TypeOKParts DEF world, WorldTypes, CountTypes, PlayerTypes
<1>. QED  BY <1>4, <1>5, <1>6, TypeOKPartsNext DEF TInv

\* What is durable after the worker has executed an operation was so before.
LEMMA ExecuteDurable ==
  ASSUME TypeOK, Execute
  PROVE  /\ Head(queue) \in Tasks /\ db' = Head(queue).db /\ queue' = Tail(queue)
         /\ db' \in Tables /\ db' \in Durable
         /\ queue' \in Seq(Tasks) /\ Durable' \subseteq Durable /\ Goal' = Goal
<1>1. queue # <<>> /\ db' = Head(queue).db /\ queue' = Tail(queue)
  BY DEF Execute
<1>2. queue \in Seq(Tasks)  BY TypeOKParts
<1>3. PICK n \in Nat : n = Len(queue) /\ n >= 1 /\ DOMAIN queue = 1 .. n
  BY <1>1, <1>2
<1>4. /\ Head(queue) = queue[1] /\ Head(queue) \in Tasks
      /\ queue' \in Seq(Tasks) /\ DOMAIN queue' = 1 .. n - 1 /\ Len(queue') = n - 1
      /\ \A k \in 1 .. n - 1 : queue'[k] = queue[k + 1]
  BY <1>1, <1>2, <1>3
<1>5. 1 \in 1 .. n /\ \A k \in 1 .. n - 1 : k + 1 \in 1 .. n
  BY <1>3
<1>6. db' \in Durable
  BY <1>1, <1>3, <1>4, <1>5 DEF Durable
<1>7. Durable' \subseteq Durable
  BY <1>3, <1>4, <1>5, <1>6 DEF Durable
<1>8. Goal' = Goal
  <2>1. CASE n = 1
    BY <1>1, <1>3, <1>4, <2>1 DEF Goal, Last
  <2>2. CASE n > 1
    BY <1>1, <1>3, <1>4, <2>2 DEF Goal, Last
  <2>. QED  BY <1>3, <2>1, <2>2
<1>. QED  BY <1>1, <1>4, <1>6, <1>7, <1>8, TablesOfQueue

LEMMA ExecuteTInv ==
  ASSUME TypeOK, NEW kinds, ProperState(kinds), Execute
  PROVE  TInv'
<1>. PICK p : p = Head(queue).reader  OBVIOUS
<1>1. /\ IF p = None THEN UNCHANGED <<phase, gold, bag>>
         ELSE /\ phase' = [phase EXCEPT ![p] = "loaded"]
              /\ gold' = [gold EXCEPT ![p] = db'.gold[p]]
              /\ bag' = [bag EXCEPT ![p] = {i \in db'.items : db'.inv[i] = p}]
      /\ UNCHANGED <<world, box, nextMail, nextAuction, purse, bounds, crossed>>
  BY DEF Execute
<1>2. p # None => p \in Players
  BY ExecuteDurable DEF Tasks
<1>3. p # None => db'.gold[p] \in Nat /\ {i \in db'.items : db'.inv[i] = p} \subseteq Items
  BY <1>2, ExecuteDurable DEF Tables
<1>4. PlayerTypes'
  <2>1. CASE p = None
    BY <1>1, <2>1, TypeOKParts DEF PlayerTypes
  <2>2. CASE p # None
    <3>. PICK g \in Nat, b \in SUBSET Items :
           g = db'.gold[p] /\ b = {i \in db'.items : db'.inv[i] = p}
      BY <1>3, <2>2
    <3>1. /\ phase' = [phase EXCEPT ![p] = "loaded"] /\ gold' = [gold EXCEPT ![p] = g]
          /\ bag' = [bag EXCEPT ![p] = b] /\ purse' = purse
      BY <1>1, <2>2
    <3>. QED  BY <1>2, <2>2, <3>1, TypeOKParts DEF PlayerTypes
  <2>. QED  BY <2>1, <2>2
<1>5. WorldTypes' /\ CountTypes' /\ box' \in Boxes
  BY <1>1, TypeOKParts DEF bounds, world, WorldTypes, CountTypes
<1>6. ProperState(kinds)'
  BY <1>1, ExecuteDurable DEF ProperState
<1>. QED  BY <1>4, <1>5, <1>6, ExecuteDurable, TypeOKPartsNext DEF TInv

LEMMA EnterWorldTInv ==
  ASSUME TypeOK, NEW kinds, ProperState(kinds), NEW p \in Players, EnterWorld(p)
  PROVE  TInv'
<1>1. /\ phase' = [phase EXCEPT ![p] = "online"]
      /\ UNCHANGED <<db, queue, world, gold, bag, box, nextMail, nextAuction, purse, bounds,
                     crossed>>
  BY DEF EnterWorld
<1>2. ProperState(kinds)'
  BY <1>1 DEF ProperState, Durable
<1>3. /\ db' \in Tables /\ queue' \in Seq(Tasks) /\ WorldTypes' /\ CountTypes' /\ PlayerTypes'
      /\ box' \in Boxes
  BY <1>1, TypeOKParts DEF bounds, world, WorldTypes, CountTypes, PlayerTypes
<1>. QED  BY <1>2, <1>3, TypeOKPartsNext DEF TInv

\* The number after the highest is higher than all.
LEMMA NextIdFacts ==
  ASSUME NEW rows, \A r \in rows : r.id \in Nat, NEW n \in Nat, \A r \in rows : r.id < n
  PROVE  NextId(rows) \in Nat /\ \A r \in rows : r.id < NextId(rows)
<1>. DEFINE ids == {r.id : r \in rows}
<1>1. ids \in SUBSET Nat /\ \A k \in ids : k < n
  OBVIOUS
<1>2. rows # {} => ids # {}
  OBVIOUS
<1>3. NextId(rows) = IF rows = {} THEN 1 ELSE Max(ids) + 1
  BY DEF NextId
<1>4. rows # {} => Max(ids) \in Nat /\ \A k \in ids : k <= Max(ids)
  <2>. HIDE DEF ids
  <2>. QED  BY <1>1, <1>2, LargestNumber
<1>. PICK top : top = Max(ids)  OBVIOUS
<1>5. \A r \in rows : r.id \in ids  OBVIOUS
<1>. HIDE DEF ids
<1>. QED  BY <1>1, <1>3, <1>4, <1>5

LEMMA CrashTInv ==
  ASSUME TypeOK, NEW kinds, ProperState(kinds), Crash
  PROVE  TInv'
<1>1. /\ crashes' = crashes + 1 /\ queue' = <<>>
      /\ auctions' = {a \in db.auctions : a.item \in db.items}
      /\ aitems' = {a.item : a \in auctions'}
      /\ phase' = [p \in Players |-> "offline"] /\ gold' = [p \in Players |-> 0]
      /\ bag' = [p \in Players |-> {}] /\ box' = [p \in Players |-> {}]
      /\ purse' = [p \in Players |-> 0]
      /\ nextMail' = NextId(db.mails) /\ nextAuction' = NextId(db.auctions)
      /\ UNCHANGED <<db, earned, logins, crossed>>
  BY DEF Crash
<1>2. Proper(db, kinds, nextMail, nextAuction) /\ kinds \in Kinds
      /\ nextMail \in Nat /\ nextAuction \in Nat
  BY ProperNow
<1>3. /\ \A m \in db.mails : m \in MailRow /\ m.id \in Nat /\ m.id < nextMail
      /\ \A a \in db.auctions : a \in AuctionRow /\ a.id \in Nat /\ a.item \in Items
                                /\ a.id < nextAuction
  BY <1>2 DEF Proper, ProperMail, Tables, MailRow, AuctionRow
<1>4. /\ nextMail' \in Nat /\ \A m \in db.mails : m.id < nextMail'
      /\ nextAuction' \in Nat /\ \A a \in db.auctions : a.id < nextAuction'
  BY <1>1, <1>2, <1>3, NextIdFacts
<1>5. Proper(db, kinds, nextMail', nextAuction')
  BY <1>2, <1>4 DEF Proper, ProperMail
<1>6. Durable' = {db}
  BY <1>1 DEF Durable
<1>7. ProperState(kinds)' /\ box' \in Boxes
  BY <1>1, <1>2, <1>5, <1>6 DEF ProperState, Boxes
<1>8. db' \in Tables /\ queue' \in Seq(Tasks) /\ WorldTypes'
  BY <1>1, <1>3, TypeOKParts DEF WorldTypes
<1>9. PlayerTypes' /\ CountTypes'
  BY <1>1, <1>4, TypeOKParts DEF PlayerTypes, CountTypes
<1>. QED  BY <1>7, <1>8, <1>9, TypeOKPartsNext DEF TInv

\* The server that aborts in AddAItem stops as any other.
LEMMA AbortIsCrash ==
  ASSUME NEW p, NEW i, SellItemAborts(p, i)
  PROVE  Crash
BY DEF SellItemAborts

-----------------------------------------------------------------------------
(* Types and numbers, for every number of players and items and all bounds. *)

LEMMA InitTInv == Init => TInv
<1>. SUFFICES ASSUME Init PROVE TInv  OBVIOUS
<1>. DEFINE kinds == [i \in Nat |-> "normal"]
<1>1. kinds \in Kinds  BY DEF Kinds
<1>2. /\ db = [gold |-> [p \in Players |-> Start], inv |-> Owner, items |-> Items,
               mails |-> {}, auctions |-> {}, earned |-> 0, spent |-> 0, lost |-> {}]
      /\ queue = <<>> /\ box = [p \in Players |-> {}]
  BY DEF Init
<1>3. db \in Tables /\ db.mails = {} /\ db.auctions = {}
  BY <1>2, MarketAssumption DEF Tables
<1>4. Durable = {db}
  BY <1>2 DEF Durable
<1>5. Proper(db, kinds, nextMail, nextAuction)
  BY <1>3, FS_EmptySet DEF Proper
<1>6. ProperState(kinds)
  BY <1>1, <1>2, <1>4, <1>5 DEF ProperState
<1>7. queue \in Seq(Tasks) /\ box \in Boxes
  BY <1>2 DEF Boxes
<1>8. WorldTypes /\ CountTypes
  BY DEF Init, WorldTypes, CountTypes
<1>9. PlayerTypes
  BY MarketAssumption DEF Init, PlayerTypes
<1>. QED  BY <1>3, <1>6, <1>7, <1>8, <1>9, TypeOKParts DEF TInv

LEMMA StutterTInv ==
  ASSUME TInv, UNCHANGED vars
  PROVE  TInv'
BY TypeOKParts, TypeOKPartsNext DEF TInv, ProperState, Durable, vars, world, players, bounds, WorldTypes,
  PlayerTypes, CountTypes

LEMMA NextTInv == TInv /\ [Next]_vars => TInv'
<1>. SUFFICES ASSUME TInv, [Next]_vars PROVE TInv'  OBVIOUS
<1>. PICK kinds : ProperState(kinds)  BY DEF TInv
<1>0. TypeOK  BY DEF TInv
<1>1. ASSUME NEW p \in Players, Trade(p) PROVE TInv'
  BY <1>0, <1>1, SellItemTInv, AbortIsCrash, CrashTInv, BidTInv, BuyOutTInv, CancelTInv DEF Trade
<1>2. ASSUME NEW p \in Players, Post(p) PROVE TInv'
  BY <1>0, <1>2, SendMailTInv, LoadMailTInv, MailDeleteTInv, ReturnToSenderTInv,
     ReturnToHouseTInv, TakeItemTInv, TakeMoneyTInv DEF Post
<1>3. ASSUME NEW p \in Players,
             Earn(p) \/ Login(p) \/ EnterWorld(p) \/ \E leaves \in BOOLEAN : Save(p, leaves)
      PROVE  TInv'
  BY <1>0, <1>3, EarnTInv, LoginTInv, EnterWorldTInv, SaveTInv
<1>4. ASSUME NEW r \in db.auctions, NEW a \in auctions, Expire(r, a) PROVE TInv'
  BY <1>0, <1>4, ExpireTInv
<1>5. ASSUME NEW m \in db.mails, ReturnOrDeleteOldMail(m) PROVE TInv'
  BY <1>0, <1>5, ReturnOrDeleteOldMailTInv
<1>6. Execute \/ Crash => TInv'
  BY <1>0, ExecuteTInv, CrashTInv
<1>7. UNCHANGED vars => TInv'
  BY StutterTInv
<1>. QED  BY <1>1, <1>2, <1>3, <1>4, <1>5, <1>6, <1>7 DEF Next

\* The invariant holds of every state of the specification.
THEOREM TInvAlways == Spec => []TInv
BY InitTInv, NextTInv, PTL DEF Spec

\* Every variable keeps its type: sums of money are never negative, whatever
\* is bid, bought, mailed, returned, saved and lost in a crash.
THEOREM TypeCorrect == Spec => []TypeOK
<1>1. TInv => TypeOK  BY DEF TInv
<1>. QED  BY <1>1, TInvAlways, PTL

\* No number is given twice: not to two letters of one step, not to what is
\* still in the queue, and not after a restart from any prefix of the queue.
THEOREM FreshNumbers == Spec => []IdsFresh
<1>1. TInv => IdsFresh  BY DEF TInv, ProperState, Proper, ProperMail, IdsFresh
<1>. QED  BY <1>1, TInvAlways, PTL

-----------------------------------------------------------------------------
(* What is true of every state in which no crossing has happened.          *)

Carried(d, p) == {i \in d.items : d.inv[i] = p}
\* From the tables d to r the money and the bags of p stay.
PurseKept(d, r, p) == r.gold[p] = d.gold[p] /\ Carried(r, p) = Carried(d, p)
\* The letters to p stay, and their items where there are any.
LettersKept(d, r, p) ==
  \A m \in d.mails : m.to = p => m \in r.mails /\ (m.item \in r.items <=> m.item \in d.items)

\* Phase, money, bags and unsaved earnings of p agree with the tables d.
PurseGood(d, p, ph, g, b, n) ==
  /\ ph \in {"loaded", "online", "mailbox"} => g = d.gold[p] + n /\ b = Carried(d, p)
  /\ ph \notin {"online", "mailbox"} => n = 0
\* The mailbox bx of p has letters of p's that the tables d have too.
BoxGood(d, p, ph, bx) ==
  /\ bx # {} => ph = "mailbox"
  /\ \A e \in bx : /\ e.state \in {"unchanged", "deleted"} /\ e.mail.to = p
                   /\ \E m \in d.mails : e.mail = View(d, m)
  /\ \A e, f \in bx : e.mail.id = f.mail.id => e = f
\* Whoever waits for an answer will be answered once, with what is true until then.
ReadersGood ==
  \A k \in DOMAIN queue : queue[k].reader # None =>
    /\ phase[queue[k].reader] = "loading"
    /\ PurseKept(queue[k].db, Goal, queue[k].reader)
    /\ \A l \in DOMAIN queue : queue[l].reader = queue[k].reader => l = k
Good ==
  /\ \A d \in Durable : /\ GoodTables(d) /\ Goal.items \subseteq d.items
                        /\ \A a \in d.auctions : a.deposit = Deposit
  /\ auctions = Goal.auctions /\ \A a \in auctions : a.item \in aitems
  /\ \A p \in Players : /\ PurseGood(Goal, p, phase[p], gold[p], bag[p], purse[p])
                        /\ BoxGood(Goal, p, phase[p], box[p])
  /\ ReadersGood

LEMMA GoodNow ==
  ASSUME TypeOK, Good
  PROVE  /\ Goal \in Tables /\ GoodTables(Goal) /\ UniqueIds(Goal)
         /\ AuctionsFit(Goal) /\ MailsFit(Goal.mails)
         /\ \A i \in Goal.items : Held(Goal, i)
         /\ auctions = Goal.auctions
         /\ \A a \in auctions : a.item \in aitems /\ a.deposit = Deposit
BY TablesOfQueue DEF Good, GoodTables, GoodBut

\* The mailbox bx after the letters have been delivered to it.
Posted(letters, p, ph, bx) ==
  bx \cup {InBox(m) : m \in {l \in letters : l.to = p /\ ph = "mailbox"}}
NewLetters(letters, d) ==
  /\ \A l \in letters : l \in d.mails /\ l.item \in d.items \cup {None}
  /\ \A l, x \in letters : l.id = x.id => l = x

LEMMA DeliveredIs ==
  ASSUME NEW boxes, NEW letters, NEW p \in Players
  PROVE  /\ Delivered(boxes, letters)[p] = Posted(letters, p, phase[p], boxes[p])
         /\ Posted({}, p, phase[p], boxes[p]) = boxes[p]
BY DEF Delivered, Posted, MailsLoaded

LEMMA BoxKept ==
  ASSUME NEW d \in Tables, NEW r \in Tables, NEW p, NEW ph, NEW bx, BoxGood(d, p, ph, bx),
         LettersKept(d, r, p)
  PROVE  BoxGood(r, p, ph, bx)
<1>1. ASSUME NEW e \in bx
      PROVE  \E m \in r.mails : e.mail = View(r, m)
  <2>1. PICK m \in d.mails : e.mail = View(d, m) /\ e.mail.to = p
    BY DEF BoxGood
  <2>2. m.to = p
    BY <2>1, ViewFacts
  <2>3. m \in r.mails /\ (m.item \in r.items <=> m.item \in d.items)
    BY <2>2 DEF LettersKept
  <2>. QED  BY <2>1, <2>3 DEF View
<1>. QED  BY <1>1 DEF BoxGood

LEMMA BoxPosted ==
  ASSUME NEW d \in Tables, NEW p, NEW ph, NEW bx, BoxGood(d, p, ph, bx),
         NEW letters, NewLetters(letters, d), \A e \in bx, l \in letters : e.mail.id # l.id
  PROVE  BoxGood(d, p, ph, Posted(letters, p, ph, bx))
<1>. DEFINE new == {InBox(m) : m \in {l \in letters : l.to = p /\ ph = "mailbox"}}
<1>1. \A e \in new : /\ e.state = "unchanged" /\ e.mail \in letters /\ e.mail.to = p
                     /\ ph = "mailbox" /\ e = InBox(e.mail)
  BY DEF InBox
<1>2. \A l \in letters : l \in d.mails /\ l = View(d, l)
  <2>1. \A l \in letters : l \in d.mails /\ l.item \in d.items \cup {None} /\ l \in MailRow
    BY DEF NewLetters, Tables
  <2>2. \A l \in MailRow : l.item = None => [l EXCEPT !.item = None] = l
    BY DEF MailRow
  <2>. QED  BY <2>1, <2>2 DEF View
<1>3. \A e, f \in new : e.mail.id = f.mail.id => e = f
  BY <1>1 DEF NewLetters
<1>4. Posted(letters, p, ph, bx) = bx \cup new
  BY DEF Posted
<1>. HIDE DEF new
<1>5. ASSUME NEW e \in bx \cup new
      PROVE  /\ e.state \in {"unchanged", "deleted"} /\ e.mail.to = p
             /\ \E m \in d.mails : e.mail = View(d, m)
  BY <1>1, <1>2 DEF BoxGood
<1>6. ASSUME NEW e \in bx \cup new, NEW f \in bx \cup new, e.mail.id = f.mail.id
      PROVE  e = f
  BY <1>1, <1>3, <1>6 DEF BoxGood
<1>7. bx \cup new # {} => ph = "mailbox"
  BY <1>1 DEF BoxGood
<1>. QED  BY <1>4, <1>5, <1>6, <1>7 DEF BoxGood

LEMMA PurseMoved ==
  ASSUME NEW d, NEW r, NEW p, PurseKept(d, r, p)
  PROVE  /\ \A ph, g, b, n : PurseGood(d, p, ph, g, b, n) => PurseGood(r, p, ph, g, b, n)
         /\ \A c : PurseKept(c, d, p) => PurseKept(c, r, p)
BY DEF PurseKept, PurseGood

\* One or more transactions are appended to the queue, the last of which leaves d.
Transacted(d) ==
  /\ Goal' = d
  /\ \A e \in Durable' : \/ e \in Durable
                         \/ /\ GoodTables(e) /\ d.items \subseteq e.items
                            /\ \A a \in e.auctions : a.deposit = Deposit
  /\ \A k \in DOMAIN queue' : queue'[k].reader # None =>
       k \in DOMAIN queue /\ queue'[k] = queue[k]

\* What a step that leaves d does to its actor p, if p is one.
Acted(p, d) ==
  p \in Players =>
    /\ phase[p] = "loading" => (phase'[p] = "loading" /\ PurseKept(Goal, d, p))
    /\ PurseGood(d, p, phase'[p], gold'[p], bag'[p], purse'[p])
    /\ BoxGood(d, p, phase'[p], box'[p])

\* A step of an actor p, or of none.
LEMMA StepGood ==
  ASSUME TypeOK, Good, NEW p, NEW d \in Tables, Transacted(d),
         d.items \subseteq Goal.items,
         auctions' = d.auctions, \A a \in auctions' : a.item \in aitems',
         NEW letters, NewLetters(letters, d), \A m \in Goal.mails, l \in letters : m.id # l.id,
         \A q \in Players : q # p =>
           /\ phase'[q] = phase[q] /\ gold'[q] = gold[q] /\ bag'[q] = bag[q]
           /\ purse'[q] = purse[q] /\ box'[q] = Posted(letters, q, phase[q], box[q])
           /\ PurseKept(Goal, d, q) /\ LettersKept(Goal, d, q),
         Acted(p, d)
  PROVE  Good'
<1>1. Goal' = d  BY DEF Transacted
<1>2. Goal \in Tables /\ queue \in Seq(Tasks)
  BY TablesOfQueue, TypeOKParts
<1>3. \A e \in Durable' : /\ GoodTables(e) /\ d.items \subseteq e.items
                         /\ \A a \in e.auctions : a.deposit = Deposit
  BY DEF Good, Transacted
<1>4. ASSUME NEW q \in Players
      PROVE  /\ PurseGood(d, q, phase'[q], gold'[q], bag'[q], purse'[q])
             /\ BoxGood(d, q, phase'[q], box'[q])
  <2>1. CASE q = p
    BY <2>1 DEF Acted
  <2>2. CASE q # p
    <3>1. PurseGood(d, q, phase'[q], gold'[q], bag'[q], purse'[q])
      <4>1. PurseGood(Goal, q, phase[q], gold[q], bag[q], purse[q])  BY DEF Good
      <4>2. PurseGood(d, q, phase[q], gold[q], bag[q], purse[q])
        BY <2>2, <4>1, PurseMoved
      <4>. QED  BY <2>2, <4>2
    <3>2. BoxGood(Goal, q, phase[q], box[q])  BY DEF Good
    <3>3. BoxGood(d, q, phase[q], box[q])
      BY <1>2, <2>2, <3>2, BoxKept
    <3>4. \A e \in box[q], l \in letters : e.mail.id # l.id
      <4>1. \A e \in box[q] : \E m \in Goal.mails : e.mail = View(Goal, m)
        BY <3>2 DEF BoxGood
      <4>. QED  BY <1>2, <4>1, ViewFacts
    <3>5. BoxGood(d, q, phase[q], Posted(letters, q, phase[q], box[q]))
      BY <3>3, <3>4, BoxPosted
    <3>. QED  BY <2>2, <3>1, <3>5
  <2>. QED  BY <2>1, <2>2
<1>5. ReadersGood'
  <2>1. \A k \in DOMAIN queue : queue[k].reader \in Players \cup {None}
    <3>1. \A k \in DOMAIN queue : queue[k] \in Tasks  BY <1>2
    <3>2. \A t \in Tasks : t.reader \in Players \cup {None}  BY DEF Tasks
    <3>. QED  BY <3>1, <3>2
  <2>2. \A k \in DOMAIN queue' : queue'[k].reader # None =>
          k \in DOMAIN queue /\ queue'[k] = queue[k]
    BY DEF Transacted
  <2>3. ASSUME NEW k \in DOMAIN queue', queue'[k].reader # None
        PROVE  /\ phase'[queue'[k].reader] = "loading"
               /\ PurseKept(queue'[k].db, d, queue'[k].reader)
               /\ \A l \in DOMAIN queue' : queue'[l].reader = queue'[k].reader => l = k
    <3>. PICK q : q = queue[k].reader  OBVIOUS
    <3>1. k \in DOMAIN queue /\ queue'[k] = queue[k] /\ q \in Players /\ q # None
      BY <2>1, <2>2, <2>3
    <3>2. /\ phase[q] = "loading" /\ PurseKept(queue[k].db, Goal, q)
          /\ \A l \in DOMAIN queue : queue[l].reader = q => l = k
      BY <3>1 DEF Good, ReadersGood
    <3>3. phase'[q] = "loading" /\ PurseKept(Goal, d, q)
      BY <3>1, <3>2 DEF Acted
    <3>4. PurseKept(queue[k].db, d, q)
      BY <3>2, <3>3, PurseMoved
    <3>5. \A l \in DOMAIN queue' : queue'[l].reader = q => l = k
      BY <2>2, <3>1, <3>2
    <3>. QED  BY <3>1, <3>3, <3>4, <3>5
  <2>. QED  BY ONLY <1>1, <2>3 DEF ReadersGood
<1>6. \A a \in auctions' : a.item \in aitems'  OBVIOUS
<1>. QED  BY <1>1, <1>3, <1>4, <1>5, <1>6 DEF Good

\* Transactions have no readers.
LEMMA ReadersOld ==
  ASSUME TypeOK, NEW t \in Tasks, NEW u \in Tasks, t.reader = None, u.reader = None,
         queue' = Append(queue, t) \/ queue' = queue \o <<u, t>>
  PROVE  \A k \in DOMAIN queue' : queue'[k].reader # None =>
           k \in DOMAIN queue /\ queue'[k] = queue[k]
<1>1. queue \in Seq(Tasks) /\ <<u, t>> \in Seq(Tasks)  BY TypeOKParts
<1>2. PICK n \in Nat : n = Len(queue) /\ DOMAIN queue = 1 .. n
  BY <1>1
<1>3. CASE queue' = Append(queue, t)
  BY <1>1, <1>2, <1>3
<1>4. CASE queue' = queue \o <<u, t>>
  <2>1. /\ DOMAIN queue' = 1 .. n + 2 /\ queue'[n + 1] = u /\ queue'[n + 2] = t
        /\ \A k \in 1 .. n : queue'[k] = queue[k]
    BY <1>1, <1>2, <1>4
  <2>2. \A k \in 1 .. n + 2 : k \in 1 .. n \/ k = n + 1 \/ k = n + 2
    BY <1>2
  <2>. QED  BY <1>2, <2>1, <2>2
<1>. QED  BY <1>3, <1>4

LEMMA EnqueuedIsTransacted ==
  ASSUME TypeOK, NEW d \in Tables, Enqueue(d), db' = db, GoodTables(d),
         \A a \in d.auctions : a.deposit = Deposit
  PROVE  Transacted(d)
<1>1. Goal' = d /\ Durable' = Durable \cup {d}
  BY Enqueued
<1>2. queue' = Append(queue, Task(d, None)) /\ Task(d, None).reader = None
      /\ Task(d, None) \in Tasks
  BY DEF Enqueue, Task, Tasks
<1>3. \A k \in DOMAIN queue' : queue'[k].reader # None =>
        k \in DOMAIN queue /\ queue'[k] = queue[k]
  BY <1>2, ReadersOld
<1>. QED  BY <1>1, <1>3 DEF Transacted

\* A transaction, with an actor p or none.
LEMMA TransactionGood ==
  ASSUME TypeOK, Good, NEW p, NEW d \in Tables, Enqueue(d), db' = db,
         GoodTables(d), d.items \subseteq Goal.items,
         auctions' = d.auctions, \A a \in auctions' : a.item \in aitems' /\ a.deposit = Deposit,
         NEW letters, NewLetters(letters, d), \A m \in Goal.mails, l \in letters : m.id # l.id,
         \A q \in Players : q # p =>
           /\ phase'[q] = phase[q] /\ gold'[q] = gold[q] /\ bag'[q] = bag[q]
           /\ purse'[q] = purse[q] /\ box'[q] = Posted(letters, q, phase[q], box[q])
           /\ PurseKept(Goal, d, q) /\ LettersKept(Goal, d, q),
         p \in Players =>
           /\ phase[p] # "loading" /\ PurseGood(d, p, phase'[p], gold'[p], bag'[p], purse'[p])
           /\ BoxGood(d, p, phase'[p], box'[p])
  PROVE  Good'
<1>1. Transacted(d)
  <2>1. \A a \in d.auctions : a.deposit = Deposit  OBVIOUS
  <2>. QED  BY <2>1, EnqueuedIsTransacted
<1>2. Acted(p, d)
  BY DEF Acted
<1>3. \A a \in auctions' : a.item \in aitems'
  OBVIOUS
<1>. QED  BY <1>1, <1>2, <1>3, StepGood

-----------------------------------------------------------------------------
(* Letters that carry one item, or none.                                   *)

Carries(drafts, i) ==
  /\ \A k \in DOMAIN drafts : /\ Fits(drafts[k].money) /\ Fits(drafts[k].cod)
                              /\ drafts[k].item \in {i, None}
  /\ i # None => \E k \in DOMAIN drafts :
                   drafts[k].item = i /\ \A l \in DOMAIN drafts : drafts[l].item = i => l = k

LEMMA CarriesShort ==
  /\ Carries(<<>>, None)
  /\ \A m : Fits(m.money) /\ Fits(m.cod) => Carries(<<m>>, m.item)
<1>1. Carries(<<>>, None)  BY DEF Carries
<1>2. ASSUME NEW m, Fits(m.money), Fits(m.cod)
      PROVE  Carries(<<m>>, m.item)
  <2>1. DOMAIN <<m>> = {1} /\ <<m>>[1] = m  OBVIOUS
  <2>. QED  BY <1>2, <2>1 DEF Carries
<1>. QED  BY <1>1, <1>2

LEMMA CarriesConcat ==
  ASSUME NEW a, NEW b, ProperDrafts(a), ProperDrafts(b), NEW i, Carries(a, None), Carries(b, i)
  PROVE  Carries(a \o b, i)
<1>1. a \in Seq(MailRow) /\ b \in Seq(MailRow)  BY DEF ProperDrafts
<1>. DEFINE c == a \o b
<1>2. PICK n \in Nat, j \in Nat : n = Len(a) /\ j = Len(b) /\ DOMAIN a = 1 .. n /\ DOMAIN b = 1 .. j
  BY <1>1
<1>3. /\ DOMAIN c = 1 .. n + j
      /\ \A k \in 1 .. n : c[k] = a[k]
      /\ \A k \in 1 .. j : c[n + k] = b[k]
  BY <1>1, <1>2
<1>4. \A k \in 1 .. n + j : k \in 1 .. n \/ (k - n \in 1 .. j /\ n + (k - n) = k)
  BY <1>2
<1>5. /\ \A k \in 1 .. n : Fits(a[k].money) /\ Fits(a[k].cod) /\ a[k].item = None
      /\ \A k \in 1 .. j : Fits(b[k].money) /\ Fits(b[k].cod) /\ b[k].item \in {i, None}
  BY <1>2 DEF Carries
<1>. HIDE DEF c
<1>6. ASSUME NEW k \in 1 .. n + j
      PROVE  Fits(c[k].money) /\ Fits(c[k].cod) /\ c[k].item \in {i, None}
  <2>1. CASE k \in 1 .. n
    BY <1>3, <1>5, <2>1
  <2>2. CASE k - n \in 1 .. j /\ n + (k - n) = k
    <3>1. c[k] = b[k - n]  BY <1>3, <2>2
    <3>. QED  BY <1>5, <2>2, <3>1
  <2>. QED  BY <1>4, <2>1, <2>2
<1>7. ASSUME i # None
      PROVE  \E k \in 1 .. n + j : c[k].item = i /\ \A l \in 1 .. n + j : c[l].item = i => l = k
  <2>0. \E k \in DOMAIN b : b[k].item = i /\ \A l \in DOMAIN b : b[l].item = i => l = k
    BY <1>7 DEF Carries
  <2>1. PICK k \in 1 .. j : b[k].item = i /\ \A l \in 1 .. j : b[l].item = i => l = k
    BY ONLY <1>2, <2>0
  <2>2. n + k \in 1 .. n + j /\ c[n + k].item = i
    BY <1>2, <1>3, <2>1
  <2>3. ASSUME NEW l \in 1 .. n + j, c[l].item = i
        PROVE  l = n + k
    <3>1. CASE l \in 1 .. n
      BY <1>3, <1>5, <1>7, <2>3, <3>1
    <3>2. CASE l - n \in 1 .. j /\ n + (l - n) = l
      <4>1. c[l] = b[l - n]  BY <1>3, <3>2
      <4>2. l - n = k  BY <2>1, <2>3, <3>2, <4>1
      <4>. QED  BY <3>2, <4>2
    <3>. QED  BY <1>4, <3>1, <3>2
  <2>. QED  BY <2>2, <2>3
<1>. QED  BY <1>3, <1>6, <1>7 DEF Carries, c

LEMMA StampedCarry ==
  ASSUME TypeOK, IdsFresh, NEW drafts, ProperDrafts(drafts), NEW i, Carries(drafts, i)
  PROVE  /\ CarryOnly(Stamped(drafts), i)
         /\ \A m \in Goal.mails, l \in Stamped(drafts) : m.id # l.id
         /\ \A l \in Stamped(drafts) : l \in MailRow
         /\ i \in Items => i \in {l.item : l \in Stamped(drafts)}
<1>. PICK n \in Nat : n = nextMail
  BY TypeOKParts DEF CountTypes
<1>. PICK j \in Nat : j = Len(drafts) /\ DOMAIN drafts = 1 .. j
  BY DEF ProperDrafts
<1>. DEFINE New(k) == [drafts[k] EXCEPT !.id = n + k - 1]
<1>1. Stamped(drafts) = {New(k) : k \in 1 .. j}
  BY DEF Stamped
<1>2. \A k \in 1 .. j : drafts[k] \in MailRow
  BY DEF ProperDrafts
<1>3. \A k \in 1 .. j : n + k - 1 \in Nat /\ n + k - 1 >= n
  OBVIOUS
<1>4. \A k \in 1 .. j : /\ New(k) \in MailRow /\ New(k).id = n + k - 1
                        /\ New(k).item = drafts[k].item /\ New(k).money = drafts[k].money
                        /\ New(k).cod = drafts[k].cod
  BY <1>2, <1>3 DEF MailRow
<1>. HIDE DEF New
<1>5. \A k, l \in 1 .. j : New(k).id = New(l).id => k = l
  BY <1>4
<1>6. \A m \in Goal.mails : m.id \in Nat /\ m.id < n
  <2>1. Goal \in Durable /\ Goal \in Tables  BY TablesOfQueue
  <2>2. \A m \in Goal.mails : m.id \in Nat  BY <2>1 DEF Tables, MailRow
  <2>. QED  BY <2>1, <2>2 DEF IdsFresh
<1>7. \A m \in Goal.mails, l \in Stamped(drafts) : m.id # l.id
  <2>1. ASSUME NEW m \in Goal.mails, NEW k \in 1 .. j PROVE m.id # New(k).id
    <3>1. m.id \in Nat /\ m.id < n /\ n + k - 1 >= n  BY <1>3, <1>6
    <3>. QED  BY <1>4, <3>1
  <2>. QED  BY <1>1, <2>1
<1>8. MailsFit(Stamped(drafts)) /\ \A l \in Stamped(drafts) : l.item \in {i, None}
  <2>1. \A k \in 1 .. j : /\ Fits(drafts[k].money) /\ Fits(drafts[k].cod)
                          /\ drafts[k].item \in {i, None}
    BY DEF Carries
  <2>2. \A k \in 1 .. j : /\ Fits(New(k).money) /\ Fits(New(k).cod) /\ New(k).item \in {i, None}
    BY <1>4, <2>1
  <2>. QED  BY <1>1, <2>2 DEF MailsFit
<1>9. ASSUME i # None
      PROVE  \E k \in 1 .. j : Ids(Stamped(drafts), i) = {New(k).id} /\ New(k).item = i
  <2>0. \E k \in DOMAIN drafts :
          drafts[k].item = i /\ \A l \in DOMAIN drafts : drafts[l].item = i => l = k
    BY <1>9 DEF Carries
  <2>. PICK S : S = DOMAIN drafts /\ S = 1 .. j  OBVIOUS
  <2>1. PICK k \in 1 .. j : drafts[k].item = i /\ \A l \in 1 .. j : drafts[l].item = i => l = k
    BY <2>0
  <2>2. New(k).item = i /\ \A l \in 1 .. j : New(l).item = i => l = k
    BY <1>4, <2>1
  <2>3. New(k) \in Stamped(drafts) /\ \A m \in Stamped(drafts) : m.item = i => m = New(k)
    BY <1>1, <2>2
  <2>4. Ids(Stamped(drafts), i) = {New(k).id}
    BY <2>2, <2>3 DEF Ids
  <2>. QED  BY <2>2, <2>4
<1>10. CarryOnly(Stamped(drafts), i)
  BY <1>1, <1>5, <1>8, <1>9 DEF CarryOnly
<1>11. i \in Items => i # None  BY TablesAssumption
<1>. QED  BY <1>1, <1>4, <1>7, <1>9, <1>10, <1>11

-----------------------------------------------------------------------------
(* Handlers of players who trade. *)

LEMMA EnqueuedTables ==
  ASSUME TypeOK, TypeOK', NEW d, Enqueue(d)
  PROVE  d \in Tables
<1>1. queue \in Seq(Tasks) /\ queue' \in Seq(Tasks)
  BY TypeOKParts DEF TypeOK, Tasks
<1>2. queue' = Append(queue, Task(d, None))  BY DEF Enqueue
<1>3. Len(queue) + 1 \in DOMAIN queue' /\ queue'[Len(queue) + 1] = Task(d, None)
  BY <1>1, <1>2
<1>4. Task(d, None) \in Tasks  BY <1>1, <1>3
<1>. QED  BY <1>4 DEF Task, Tasks

LEMMA SaveGoldColumns ==
  ASSUME NEW d \in Tables, NEW p, NEW g, NEW r, r = SaveGold(d, p, g)
  PROVE  /\ r.gold = [d.gold EXCEPT ![p] = g] /\ r.inv = d.inv /\ r.items = d.items
         /\ r.mails = d.mails /\ r.auctions = d.auctions /\ r.lost = d.lost
BY DEF SaveGold, Tables

\* The bags of p differ by items that change hands between p and the house.
LEMMA CarriedKept ==
  ASSUME NEW d \in Tables, NEW r, NEW i, r.items = d.items, NEW q,
         \A j \in d.items : j # i => r.inv[j] = d.inv[j],
         i \in d.items => r.inv[i] # q /\ d.inv[i] # q
  PROVE  Carried(r, q) = Carried(d, q)
BY DEF Carried

\* What the handlers of p have in common: p pays or gets money, and the letters
\* that are sent carry the item i, or nothing.
Handled(p, d, drafts, i, g) ==
  /\ Online(p) /\ Enqueue(d) /\ db' = db /\ phase' = phase
  /\ gold' = [gold EXCEPT ![p] = g] /\ purse' = [purse EXCEPT ![p] = 0]
  /\ d.gold = [Goal.gold EXCEPT ![p] = g]
  /\ \A q \in Players : q # p => Carried(d, q) = Carried(Goal, q) /\ bag'[q] = bag[q]
  /\ bag'[p] = Carried(d, p)
  /\ box' = Delivered(box, Stamped(drafts)) /\ i \in d.items \cup {None}
HandledTables(d, letters) ==
  /\ GoodTables(d) /\ d.items = Goal.items
  /\ Goal.mails \subseteq d.mails /\ letters \subseteq d.mails
  /\ auctions' = d.auctions
  /\ \A a \in auctions' : a.item \in aitems' /\ a.deposit = Deposit

LEMMA HandlerGood ==
  ASSUME TypeOK, IdsFresh, TypeOK', Good, NEW p \in Players,
         NEW d, NEW drafts, NEW i, NEW g, Handled(p, d, drafts, i, g),
         HandledTables(d, Stamped(drafts)), ProperDrafts(drafts), Carries(drafts, i)
  PROVE  Good'
<1>0. /\ Online(p) /\ Enqueue(d) /\ db' = db /\ phase' = phase
      /\ gold' = [gold EXCEPT ![p] = g] /\ purse' = [purse EXCEPT ![p] = 0]
      /\ d.gold = [Goal.gold EXCEPT ![p] = g]
      /\ \A q \in Players : q # p => Carried(d, q) = Carried(Goal, q) /\ bag'[q] = bag[q]
      /\ bag'[p] = Carried(d, p)
      /\ box' = Delivered(box, Stamped(drafts)) /\ i \in d.items \cup {None}
      /\ GoodTables(d) /\ d.items = Goal.items
      /\ Goal.mails \subseteq d.mails /\ Stamped(drafts) \subseteq d.mails
      /\ auctions' = d.auctions
      /\ \A a \in auctions' : a.item \in aitems' /\ a.deposit = Deposit
  BY DEF Handled, HandledTables
<1>. DEFINE letters == Stamped(drafts)
<1>1. d \in Tables /\ Goal \in Tables
  BY <1>0, EnqueuedTables, TablesOfQueue
<1>2. /\ CarryOnly(letters, i) /\ \A m \in Goal.mails, l \in letters : m.id # l.id
  BY StampedCarry
<1>3. NewLetters(letters, d)
  BY <1>0, <1>2 DEF NewLetters, CarryOnly
<1>4. \A q \in Players : LettersKept(Goal, d, q)
  BY <1>0 DEF LettersKept
<1>. HIDE DEF letters
<1>5. \A q \in Players : box'[q] = Posted(letters, q, phase[q], box[q])
  BY <1>0, DeliveredIs DEF letters
<1>6. ASSUME NEW q \in Players, q # p
      PROVE  PurseKept(Goal, d, q) /\ gold'[q] = gold[q] /\ purse'[q] = purse[q] /\ bag'[q] = bag[q]
  BY <1>0, <1>1, <1>6, TypeOKParts DEF PurseKept, Tables, PlayerTypes
<1>7. PurseGood(d, p, phase'[p], gold'[p], bag'[p], purse'[p])
  <2>1. gold'[p] = g /\ purse'[p] = 0 /\ d.gold[p] = g
    BY <1>0, <1>1, TypeOKParts DEF Tables, PlayerTypes
  <2>2. g \in Nat  BY <1>1, <2>1 DEF Tables
  <2>. QED  BY <1>0, <2>1, <2>2 DEF PurseGood
<1>8. BoxGood(d, p, phase'[p], box'[p])
  <2>1. BoxGood(Goal, p, phase[p], box[p])  BY DEF Good
  <2>2. BoxGood(d, p, phase[p], box[p])
    BY <1>1, <1>4, <2>1, BoxKept
  <2>3. \A e \in box[p], l \in letters : e.mail.id # l.id
    <3>1. \A e \in box[p] : \E m \in Goal.mails : e.mail = View(Goal, m)
      BY <2>1 DEF BoxGood
    <3>. QED  BY <1>1, <1>2, <3>1, ViewFacts
  <2>4. BoxGood(d, p, phase[p], Posted(letters, p, phase[p], box[p]))
    BY <1>1, <1>3, <2>2, <2>3, BoxPosted
  <2>. QED  BY <1>0, <1>5, <2>4
<1>9. phase[p] # "loading"
  BY <1>0 DEF Online
<1>10. \A q \in Players : q # p => phase'[q] = phase[q]
  BY <1>0
<1>11. /\ Enqueue(d) /\ db' = db /\ GoodTables(d) /\ d.items \subseteq Goal.items
       /\ auctions' = d.auctions /\ \A a \in auctions' : a.item \in aitems' /\ a.deposit = Deposit
  BY <1>0
<1>. QED  BY <1>1, <1>2, <1>3, <1>4, <1>5, <1>6, <1>7, <1>8, <1>9, <1>10, <1>11, TransactionGood

LEMMA OnlineGood ==
  ASSUME TypeOK, Good, NEW p \in Players, Online(p)
  PROVE  bag[p] = Carried(Goal, p) /\ bag[p] \subseteq Goal.items
BY DEF Good, PurseGood, Online, Carried

\* Sums of money that columns of 32 bits can hold.
Narrow ==
  /\ Fits(Deposit)
  /\ \A n \in Prices \cup Sums : Fits(n + Deposit)
  /\ \A offer \in Offers : Fits(offer[2] + Deposit)

LEMMA SellItemGood ==
  ASSUME Narrow, TypeOK, IdsFresh, TypeOK', Good,
         NEW p \in Players, NEW i \in Items, NEW offer \in Offers, SellItem(p, i, offer)
  PROVE  Good'
<1>. DEFINE a == [id |-> nextAuction, item |-> i, owner |-> p, startbid |-> offer[1],
                  buyout |-> offer[2], bidder |-> None, bid |-> 0, deposit |-> Deposit]
            g == ModifyMoney(gold[p], -Deposit)
            d == SaveGold(InsertAuction(DeleteFromInventory(Goal, i), a), p, g)
<1>1. /\ auctions' = auctions \cup {a} /\ gold' = [gold EXCEPT ![p] = g] /\ Enqueue(d)
      /\ aitems' = aitems \cup {i} /\ bag' = [bag EXCEPT ![p] = @ \ {i}]
      /\ purse' = [purse EXCEPT ![p] = 0] /\ Online(p) /\ i \in bag[p]
      /\ db' = db /\ phase' = phase /\ box' = box
  BY DEF SellItem
<1>2. a.id = nextAuction /\ a.item = i /\ a.bid = 0 /\ a.deposit = Deposit /\ a.buyout = offer[2]
  OBVIOUS
<1>. HIDE DEF a, g
<1>3. Goal \in Tables /\ Goal \in Durable /\ d \in Tables
  <2>. HIDE DEF d
  <2>. QED  BY <1>1, TablesOfQueue, EnqueuedTables
<1>4. /\ d.gold = [Goal.gold EXCEPT ![p] = g] /\ d.inv = [Goal.inv EXCEPT ![i] = None]
      /\ d.items = Goal.items /\ d.mails = Goal.mails /\ d.auctions = Goal.auctions \cup {a}
      /\ d.lost = Goal.lost
  BY <1>3 DEF SaveGold, InsertAuction, DeleteFromInventory, Tables
<1>. HIDE DEF d
<1>5. i \in Goal.items /\ Goal.inv[i] = p /\ p # None
  BY <1>1, OnlineGood, TablesAssumption DEF Carried
<1>6. \A x \in Goal.auctions : x.id # a.id
  <2>1. nextAuction \in Nat  BY TypeOKParts DEF CountTypes
  <2>2. \A x \in Goal.auctions : x.id < nextAuction  BY <1>3 DEF IdsFresh
  <2>3. \A x \in Goal.auctions : x.id # nextAuction  BY <2>1, <2>2
  <2>. QED  BY <1>2, <2>3
<1>7. GoodTables(d)
  <2>1. Fits(a.bid + a.deposit) /\ Fits(a.buyout + a.deposit)
    BY <1>2, Constants DEF Narrow
  <2>. QED  BY <1>2, <1>3, <1>4, <1>5, <1>6, <2>1, GoodNow, SoldGood
<1>8. \A j \in Goal.items : d.inv[j] = IF j = i THEN None ELSE Goal.inv[j]
  BY <1>3, <1>4 DEF Tables
<1>9. \A q \in Players : q # p => Carried(d, q) = Carried(Goal, q) /\ bag'[q] = bag[q]
  BY <1>1, <1>4, <1>5, <1>8, TablesAssumption, TypeOKParts DEF Carried, PlayerTypes
<1>10. bag'[p] = Carried(d, p)
  <2>1. bag'[p] = bag[p] \ {i}  BY <1>1, TypeOKParts DEF PlayerTypes
  <2>. QED  BY <1>1, <1>4, <1>5, <1>8, <2>1, OnlineGood DEF Carried
<1>11. auctions' = d.auctions /\ \A x \in auctions' : x.item \in aitems' /\ x.deposit = Deposit
  BY <1>1, <1>2, <1>4, GoodNow
<1>. PICK drafts : drafts = <<>>  OBVIOUS
<1>12. /\ ProperDrafts(drafts) /\ Carries(drafts, None) /\ Stamped(drafts) = {}
       /\ box' = Delivered(box, Stamped(drafts))
  <2>1. Stamped(drafts) = {}  BY DEF Stamped
  <2>2. Delivered(box, {}) = box
    <3>1. box = [q \in Players |-> box[q]]  BY TypeOKParts DEF Boxes
    <3>2. Delivered(box, {}) = [q \in Players |-> box[q]]  BY DEF Delivered
    <3>. QED  BY <3>1, <3>2
  <2>. QED  BY <1>1, <2>1, <2>2, ProperDraftsShort, CarriesShort
<1>13. HandledTables(d, Stamped(drafts))
  BY <1>4, <1>7, <1>11, <1>12 DEF HandledTables
<1>14. Handled(p, d, drafts, None, g)
  BY <1>1, <1>4, <1>9, <1>10, <1>12 DEF Handled
<1>. QED  BY <1>12, <1>13, <1>14, HandlerGood

\* The letters of an auction carry its item, if the winner's is sent.
LEMMA AuctionMailCarries ==
  ASSUME NEW a \in AuctionRow, NEW p, Fits(a.bid + a.deposit), a.item \in aitems
  PROVE  /\ Carries(OutbidMail(a, p), None) /\ Carries(SuccessfulMail(a), None)
         /\ Carries(ExpiredMail(a), a.item)
         /\ LogTrade => Carries(WonMail(a), a.item)
<1>1. a.bid \in Nat /\ a.deposit \in Nat /\ Cut(a.bid) \in Nat
  BY CutFacts DEF AuctionRow
<1>2. Half \in Nat /\ Fits(0) /\ Fits(a.bid) /\ Fits(a.bid + a.deposit - Cut(a.bid))
  BY <1>1, TablesAssumption DEF Fits
<1>3. \A to, item, money : /\ House(to, item, money).money = money
                           /\ House(to, item, money).cod = 0
                           /\ House(to, item, money).item = item
  BY DEF House, Draft
<1>4. \A to, item, money : Fits(money) => Carries(<<House(to, item, money)>>, item)
  BY <1>2, <1>3, CarriesShort
<1>. QED  BY <1>2, <1>4, CarriesShort DEF OutbidMail, SuccessfulMail, WonMail, ExpiredMail

LEMMA AuctionNow ==
  ASSUME TypeOK, Good, NEW a \in auctions
  PROVE  /\ a \in AuctionRow /\ a \in Goal.auctions /\ a.item \in Goal.items /\ a.item \in aitems
         /\ a.deposit = Deposit /\ Fits(a.bid + a.deposit) /\ Fits(a.buyout + a.deposit)
         /\ a.item \in Items /\ a.item # None
<1>1. a \in Goal.auctions /\ a \in AuctionRow
  BY GoodNow, TypeOKParts DEF WorldTypes
<1>. QED  BY <1>1, GoodNow, TablesAssumption DEF AuctionsFit, AuctionRow

\* d is Goal after the auction a is over and its letters are sent.
Ended(d, a, letters) ==
  /\ d \in Tables /\ d.items = Goal.items /\ d.inv = Goal.inv /\ d.lost = Goal.lost
  /\ d.mails = Goal.mails \cup letters /\ d.auctions = {x \in Goal.auctions : x.id # a.id}
  /\ CarryOnly(letters, a.item) /\ \A m \in Goal.mails, l \in letters : m.id # l.id

LEMMA EndedGood ==
  ASSUME TypeOK, Good, NEW a \in auctions, NEW letters, NEW d, Ended(d, a, letters)
  PROVE  /\ GoodTables(d) /\ d.auctions = auctions \ {a}
         /\ \A x \in d.auctions : x.item \in aitems \ {a.item} /\ x.deposit = Deposit
<1>0. /\ d \in Tables /\ d.items = Goal.items /\ d.inv = Goal.inv /\ d.lost = Goal.lost
      /\ d.mails = Goal.mails \cup letters /\ d.auctions = {x \in Goal.auctions : x.id # a.id}
      /\ CarryOnly(letters, a.item) /\ \A m \in Goal.mails, l \in letters : m.id # l.id
  BY DEF Ended
<1>1. /\ a \in Goal.auctions /\ Goal \in Tables /\ GoodTables(Goal) /\ UniqueIds(Goal)
      /\ auctions = Goal.auctions /\ a.item \in Goal.items /\ Held(Goal, a.item)
      /\ AuctionsFit(Goal) /\ \A x \in auctions : x.item \in aitems /\ x.deposit = Deposit
  BY GoodNow, AuctionNow
<1>2. d.auctions = auctions \ {a}
  BY <1>0, <1>1 DEF UniqueIds
<1>3. a.id \in Ids(Goal.auctions, a.item)
  BY <1>1, IdsFacts
<1>4. /\ Goal.inv[a.item] = None /\ Ids(Goal.mails, a.item) = {}
      /\ Ids(Goal.auctions, a.item) = {a.id} /\ a.item \notin Goal.lost
  BY <1>1, <1>3 DEF Held
<1>5. \A x \in d.auctions : x.item # a.item
  <2>1. \A x \in Goal.auctions : x.item = a.item => x.id \in Ids(Goal.auctions, a.item)
    BY IdsFacts
  <2>. QED  BY <1>0, <1>4, <2>1
<1>6. Ids(d.auctions, a.item) = {}
  BY <1>5 DEF Ids
<1>7. \A j \in Goal.items \ {a.item} : Ids(d.auctions, j) = Ids(Goal.auctions, j)
  BY <1>0, <1>1, <1>2 DEF Ids
<1>8. AuctionsFit(d) /\ \A x, y \in d.auctions : x.id = y.id => x = y
  BY <1>0, <1>1 DEF AuctionsFit, UniqueIds
<1>9. GoodBut(Goal, {a.item})
  BY <1>1, GoodButMore
<1>10. GoodTables(d)
  BY <1>0, <1>1, <1>4, <1>6, <1>7, <1>8, <1>9, PostedGood
<1>. QED  BY <1>0, <1>1, <1>2, <1>5, <1>10

LEMMA BuyOutGood ==
  ASSUME Narrow, LogTrade, TypeOK, IdsFresh, TypeOK', Good,
         NEW p \in Players, NEW a \in auctions, NEW n \in Prices, BuyOut(p, a, n)
  PROVE  Good'
<1>. DEFINE b == [a EXCEPT !.bidder = p, !.bid = a.buyout]
            drafts == OutbidMail(a, p) \o SuccessfulMail(b) \o WonMail(b)
            letters == Stamped(drafts)
            g == Pays(p, a, a.buyout)
            d == SaveGold(Spend(DeleteAuction(InsertMails(Goal, letters), a), Cut(b.bid)), p, g)
<1>1. /\ gold' = [gold EXCEPT ![p] = g] /\ box' = Delivered(box, letters)
      /\ Enqueue(d) /\ auctions' = auctions \ {a} /\ aitems' = aitems \ {a.item}
      /\ purse' = [purse EXCEPT ![p] = 0] /\ Online(p)
      /\ db' = db /\ phase' = phase /\ bag' = bag
  BY DEF BuyOut
<1>2. /\ b \in AuctionRow /\ b.bidder # None /\ b.item = a.item
      /\ Fits(b.bid + b.deposit) /\ a \in AuctionRow /\ Fits(a.bid + a.deposit)
      /\ a.item \in Goal.items /\ a.item \in aitems
  BY AuctionNow, TablesAssumption DEF AuctionRow
<1>. HIDE DEF b
<1>3. ProperDrafts(drafts) /\ Carries(drafts, a.item)
  <2>1. /\ ProperDrafts(OutbidMail(a, p)) /\ ProperDrafts(SuccessfulMail(b))
        /\ ProperDrafts(WonMail(b))
    BY <1>2, AuctionMailProper
  <2>2. /\ Carries(OutbidMail(a, p), None) /\ Carries(SuccessfulMail(b), None)
        /\ Carries(WonMail(b), a.item)
    BY <1>2, AuctionMailCarries
  <2>3. /\ ProperDrafts(OutbidMail(a, p) \o SuccessfulMail(b))
        /\ Carries(OutbidMail(a, p) \o SuccessfulMail(b), None)
    BY <2>1, <2>2, ProperDraftsConcat, CarriesConcat
  <2>. QED  BY <2>1, <2>2, <2>3, ProperDraftsConcat, CarriesConcat
<1>. HIDE DEF drafts, g
<1>4. Goal \in Tables /\ d \in Tables
  <2>. HIDE DEF d
  <2>. QED  BY <1>1, TablesOfQueue, EnqueuedTables
<1>5. CarryOnly(letters, a.item) /\ \A m \in Goal.mails, l \in letters : m.id # l.id
  BY <1>3, StampedCarry
<1>. HIDE DEF letters
<1>6. /\ d.gold = [Goal.gold EXCEPT ![p] = g] /\ d.inv = Goal.inv /\ d.items = Goal.items
      /\ d.mails = Goal.mails \cup letters
      /\ d.auctions = {x \in Goal.auctions : x.id # a.id} /\ d.lost = Goal.lost
  BY <1>4 DEF SaveGold, Spend, DeleteAuction, InsertMails, Tables
<1>. HIDE DEF d
<1>7. /\ GoodTables(d) /\ d.auctions = auctions \ {a}
      /\ \A x \in d.auctions : x.item \in aitems \ {a.item} /\ x.deposit = Deposit
  <2>1. Ended(d, a, letters)  BY <1>4, <1>5, <1>6 DEF Ended
  <2>. QED  BY <2>1, EndedGood
<1>8. \A q \in Players : Carried(d, q) = Carried(Goal, q)
  BY <1>6 DEF Carried
<1>9. bag'[p] = Carried(d, p) /\ \A q \in Players : bag'[q] = bag[q]
  BY <1>1, <1>8, OnlineGood
<1>10. HandledTables(d, letters)
  BY <1>1, <1>6, <1>7 DEF HandledTables
<1>11. Handled(p, d, drafts, a.item, g)
  BY <1>1, <1>2, <1>6, <1>8, <1>9 DEF Handled, letters
<1>. QED  BY <1>3, <1>10, <1>11, HandlerGood DEF letters

LEMMA CancelGood ==
  ASSUME Narrow, TypeOK, IdsFresh, TypeOK', Good,
         NEW p \in Players, NEW a \in auctions, Cancel(p, a)
  PROVE  Good'
<1>. DEFINE cut == IF a.bidder = None THEN 0 ELSE Cut(a.bid)
            drafts == OutbidMail(a, None) \o <<House(p, a.item, 0)>>
            letters == Stamped(drafts)
            g == ModifyMoney(gold[p], -cut)
            d == DeleteAuction(SaveGold(Spend(InsertMails(Goal, letters), cut + a.deposit), p, g), a)
<1>1. /\ gold' = [gold EXCEPT ![p] = g] /\ box' = Delivered(box, letters)
      /\ Enqueue(d) /\ auctions' = auctions \ {a} /\ aitems' = aitems \ {a.item}
      /\ purse' = [purse EXCEPT ![p] = 0] /\ Online(p)
      /\ db' = db /\ phase' = phase /\ bag' = bag
  BY DEF Cancel
<1>2. /\ a \in AuctionRow /\ Fits(a.bid + a.deposit) /\ a.item \in Items
      /\ a.item \in Goal.items /\ a.item \in aitems
  BY AuctionNow
<1>3. ProperDrafts(drafts) /\ Carries(drafts, a.item)
  <2>1. /\ ProperDrafts(OutbidMail(a, None)) /\ Carries(OutbidMail(a, None), None)
    BY <1>2, AuctionMailProper, AuctionMailCarries
  <2>2. Fits(0)  BY TablesAssumption DEF Fits
  <2>3. ProperDrafts(<<House(p, a.item, 0)>>) /\ Carries(<<House(p, a.item, 0)>>, a.item)
    <3>1. LET m == House(p, a.item, 0) IN m.item = a.item /\ m.money = 0 /\ m.cod = 0
      BY DEF House, Draft
    <3>. QED  BY <1>2, <2>2, <3>1, HouseProper, CarriesShort
  <2>. QED  BY <2>1, <2>3, ProperDraftsConcat, CarriesConcat
<1>. HIDE DEF drafts, cut, g
<1>4. Goal \in Tables /\ d \in Tables
  <2>. HIDE DEF d
  <2>. QED  BY <1>1, TablesOfQueue, EnqueuedTables
<1>5. CarryOnly(letters, a.item) /\ \A m \in Goal.mails, l \in letters : m.id # l.id
  BY <1>3, StampedCarry
<1>. HIDE DEF letters
<1>6. /\ d.gold = [Goal.gold EXCEPT ![p] = g] /\ d.inv = Goal.inv /\ d.items = Goal.items
      /\ d.mails = Goal.mails \cup letters
      /\ d.auctions = {x \in Goal.auctions : x.id # a.id} /\ d.lost = Goal.lost
  BY <1>4 DEF SaveGold, Spend, DeleteAuction, InsertMails, Tables
<1>. HIDE DEF d
<1>7. /\ GoodTables(d) /\ d.auctions = auctions \ {a}
      /\ \A x \in d.auctions : x.item \in aitems \ {a.item} /\ x.deposit = Deposit
  <2>1. Ended(d, a, letters)  BY <1>4, <1>5, <1>6 DEF Ended
  <2>. QED  BY <2>1, EndedGood
<1>8. \A q \in Players : Carried(d, q) = Carried(Goal, q)
  BY <1>6 DEF Carried
<1>9. bag'[p] = Carried(d, p) /\ \A q \in Players : bag'[q] = bag[q]
  BY <1>1, <1>8, OnlineGood
<1>10. HandledTables(d, letters)
  BY <1>1, <1>6, <1>7 DEF HandledTables
<1>11. Handled(p, d, drafts, a.item, g)
  BY <1>1, <1>2, <1>6, <1>8, <1>9 DEF Handled, letters
<1>. QED  BY <1>3, <1>10, <1>11, HandlerGood DEF letters

LEMMA ExpireGood ==
  ASSUME Narrow, LogTrade, TypeOK, IdsFresh, TypeOK', Good,
         NEW r \in db.auctions, NEW a \in auctions, Expire(r, a)
  PROVE  Good'
<1>. DEFINE drafts == IF a.bidder = None THEN ExpiredMail(a)
                      ELSE SuccessfulMail(a) \o WonMail(a)
            fee == IF a.bidder = None THEN a.deposit ELSE Cut(a.bid)
            letters == Stamped(drafts)
            d == Spend(DeleteAuction(InsertMails(Goal, letters), a), fee)
<1>1. /\ box' = Delivered(box, letters)
      /\ Enqueue(d) /\ auctions' = auctions \ {a} /\ aitems' \in {aitems, aitems \ {a.item}}
      /\ db' = db /\ phase' = phase /\ gold' = gold /\ bag' = bag /\ purse' = purse
  BY DEF Expire
<1>2. /\ a \in AuctionRow /\ Fits(a.bid + a.deposit) /\ a.item \in Items
      /\ a.item \in Goal.items /\ a.item \in aitems
  BY AuctionNow
<1>3. ProperDrafts(drafts) /\ Carries(drafts, a.item)
  BY <1>2, AuctionMailProper, AuctionMailCarries, ProperDraftsConcat, CarriesConcat
<1>. HIDE DEF drafts, fee
<1>4. Goal \in Tables /\ d \in Tables
  <2>. HIDE DEF d
  <2>. QED  BY <1>1, TablesOfQueue, EnqueuedTables
<1>5. CarryOnly(letters, a.item) /\ \A m \in Goal.mails, l \in letters : m.id # l.id
  BY <1>3, StampedCarry
<1>. HIDE DEF letters
<1>6. /\ d.gold = Goal.gold /\ d.inv = Goal.inv /\ d.items = Goal.items
      /\ d.mails = Goal.mails \cup letters
      /\ d.auctions = {x \in Goal.auctions : x.id # a.id} /\ d.lost = Goal.lost
  BY <1>4 DEF Spend, DeleteAuction, InsertMails, Tables
<1>. HIDE DEF d
<1>7. /\ GoodTables(d) /\ d.auctions = auctions \ {a}
      /\ \A x \in d.auctions : x.item \in aitems \ {a.item} /\ x.deposit = Deposit
  <2>1. Ended(d, a, letters)  BY <1>4, <1>5, <1>6 DEF Ended
  <2>. QED  BY <2>1, EndedGood
<1>8. \A q \in Players : PurseKept(Goal, d, q) /\ LettersKept(Goal, d, q)
  BY <1>6 DEF PurseKept, LettersKept, Carried
<1>9. auctions' = d.auctions /\ \A x \in auctions' : x.item \in aitems' /\ x.deposit = Deposit
  BY <1>1, <1>7
<1>10. NewLetters(letters, d)
  BY <1>2, <1>5, <1>6 DEF NewLetters, CarryOnly
<1>11. \A q \in Players :
         /\ phase'[q] = phase[q] /\ gold'[q] = gold[q] /\ bag'[q] = bag[q]
         /\ purse'[q] = purse[q] /\ box'[q] = Posted(letters, q, phase[q], box[q])
         /\ PurseKept(Goal, d, q) /\ LettersKept(Goal, d, q)
  BY <1>1, <1>8, DeliveredIs
<1>12. /\ d \in Tables /\ Enqueue(d) /\ db' = db /\ GoodTables(d) /\ d.items \subseteq Goal.items
  BY <1>1, <1>4, <1>6, <1>7
<1>13. None \notin Players  BY TablesAssumption
<1>. PICK p : p = None  OBVIOUS
<1>. QED  BY <1>5, <1>9, <1>10, <1>11, <1>12, <1>13, TransactionGood

LEMMA BidGood ==
  ASSUME Narrow, TypeOK, IdsFresh, TypeOK', Good,
         NEW p \in Players, NEW a \in auctions, NEW n \in Prices, Bid(p, a, n)
  PROVE  Good'
<1>. DEFINE b == [a EXCEPT !.bidder = p, !.bid = n]
            drafts == OutbidMail(a, p)
            letters == Stamped(drafts)
            g == Pays(p, a, n)
            d1 == InsertMails(Goal, letters)
            d2 == UpdateBid(d1, b)
            d == SaveGold(d2, p, g)
<1>1. /\ auctions' = (auctions \ {a}) \cup {b} /\ aitems' = aitems
      /\ gold' = [gold EXCEPT ![p] = g] /\ box' = Delivered(box, letters)
      /\ Enqueue(d) /\ purse' = [purse EXCEPT ![p] = 0] /\ Online(p)
      /\ db' = db /\ phase' = phase /\ bag' = bag
  BY DEF Bid
<1>2. /\ a \in AuctionRow /\ Fits(a.bid + a.deposit) /\ a \in Goal.auctions
      /\ a.item \in Goal.items /\ a.item \in aitems /\ a.deposit = Deposit
      /\ Fits(a.buyout + a.deposit)
  BY AuctionNow
<1>3. /\ n \in Nat /\ Fits(n) /\ Fits(n + Deposit)
  BY Constants, MarketAssumption, TablesAssumption DEF Narrow, Fits
<1>4. /\ b \in AuctionRow /\ b.id = a.id /\ b.item = a.item /\ b.deposit = Deposit /\ b.bid = n
      /\ b.buyout = a.buyout /\ BidSaved(a, b) = b
  <2>1. UInt32(n) = n  BY <1>3, UInt32Facts DEF Fits
  <2>. QED  BY <1>2, <1>3, <2>1 DEF AuctionRow, BidSaved
<1>. HIDE DEF b
<1>5. ProperDrafts(drafts) /\ Carries(drafts, None)
  BY <1>2, AuctionMailProper, AuctionMailCarries
<1>. HIDE DEF drafts, g
<1>6. Goal \in Tables /\ d \in Tables
  <2>. HIDE DEF d
  <2>. QED  BY <1>1, TablesOfQueue, EnqueuedTables
<1>7. /\ CarryOnly(letters, None) /\ \A m \in Goal.mails, l \in letters : m.id # l.id
      /\ letters \subseteq MailRow
  BY <1>5, StampedCarry
<1>. HIDE DEF letters
<1>8. /\ d1 \in Tables /\ d1.mails = Goal.mails \cup letters /\ d1.auctions = Goal.auctions
      /\ d1.gold = Goal.gold /\ d1.inv = Goal.inv /\ d1.items = Goal.items
      /\ d1.lost = Goal.lost
  BY <1>6, <1>7 DEF InsertMails, Tables
<1>. HIDE DEF d1
<1>9. /\ d2 = [d1 EXCEPT !.auctions = d2.auctions]
      /\ d2.mails = d1.mails /\ d2.gold = d1.gold /\ d2.inv = d1.inv /\ d2.items = d1.items
      /\ d2.lost = d1.lost
  BY <1>8 DEF UpdateBid, Tables
<1>10. /\ \A x \in d1.auctions : x.id # b.id => x \in d2.auctions
       /\ \A x \in d1.auctions : x.id = b.id => BidSaved(x, b) \in d2.auctions
       /\ \A y \in d2.auctions : \/ y \in d1.auctions /\ y.id # b.id
                                 \/ \E x \in d1.auctions : x.id = b.id /\ y = BidSaved(x, b)
  BY <1>8, BidRows
<1>11. UniqueIds(Goal) /\ auctions = Goal.auctions /\ AuctionsFit(Goal) /\ GoodBut(Goal, {None})
       /\ GoodTables(Goal) /\ \A x \in auctions : x.item \in aitems /\ x.deposit = Deposit
  BY <1>6, GoodNow, GoodButMore
<1>12. \A x \in Goal.auctions : x.id = b.id <=> x = a
  BY <1>2, <1>4, <1>11 DEF UniqueIds
<1>13. d2.auctions = auctions'
  <2>1. \A x : x \in d2.auctions => x \in auctions'
    BY <1>1, <1>4, <1>8, <1>10, <1>11, <1>12
  <2>2. \A x : x \in auctions' => x \in d2.auctions
    BY <1>1, <1>2, <1>4, <1>8, <1>10, <1>11, <1>12
  <2>. QED  BY <2>1, <2>2
<1>14. /\ d.gold = [Goal.gold EXCEPT ![p] = g] /\ d.inv = Goal.inv /\ d.items = Goal.items
       /\ d.mails = Goal.mails \cup letters /\ d.auctions = auctions' /\ d.lost = Goal.lost
  BY <1>8, <1>9, <1>13 DEF SaveGold, Tables
<1>. HIDE DEF d2, d
<1>15. \A x, y \in d.auctions : x.id = y.id => x = y
  BY <1>1, <1>4, <1>11, <1>12, <1>14 DEF UniqueIds
<1>16. \A j : Ids(d.auctions, j) = Ids(Goal.auctions, j)
  BY <1>1, <1>2, <1>4, <1>11, <1>14 DEF Ids
<1>17. AuctionsFit(d) /\ \A x \in auctions' : x.item \in aitems' /\ x.deposit = Deposit
  BY <1>1, <1>2, <1>3, <1>4, <1>11, <1>14 DEF AuctionsFit
<1>18. GoodTables(d)
  <2>1. None \notin Goal.items  BY <1>6, TablesAssumption DEF Tables
  <2>. QED  BY <1>6, <1>7, <1>11, <1>14, <1>15, <1>16, <1>17, <2>1, PostedGood
<1>19. \A q \in Players : Carried(d, q) = Carried(Goal, q)
  BY <1>14 DEF Carried
<1>20. bag'[p] = Carried(d, p) /\ \A q \in Players : bag'[q] = bag[q]
  BY <1>1, <1>19, OnlineGood
<1>21. HandledTables(d, letters)
  BY <1>1, <1>14, <1>17, <1>18 DEF HandledTables
<1>22. Handled(p, d, drafts, None, g)
  BY <1>1, <1>14, <1>19, <1>20 DEF Handled, letters
<1>. QED  BY <1>5, <1>21, <1>22, HandlerGood DEF letters

-----------------------------------------------------------------------------
(* Handlers of players who write and read letters. *)

LEMMA SendMailGood ==
  ASSUME Narrow, TypeOK, IdsFresh, TypeOK', Good,
         NEW p \in Players, NEW q \in Players, NEW i \in Items \cup {None},
         NEW n \in Sums, NEW c \in Sums, SendMail(p, q, i, n, c)
  PROVE  Good'
<1>. DEFINE m == Draft(p, q, "normal", FALSE, i, n, c)
            drafts == <<m>>
            letters == Stamped(drafts)
            rest == IF i = None THEN Goal ELSE DeleteFromInventory(Goal, i)
            g == ModifyMoney(gold[p], -(MailCost + n))
            d == SaveGold(Spend(InsertMails(rest, letters), MailCost), p, g)
<1>1. /\ gold' = [gold EXCEPT ![p] = g] /\ box' = Delivered(box, letters)
      /\ Enqueue(d) /\ bag' = [bag EXCEPT ![p] = @ \ {i}] /\ purse' = [purse EXCEPT ![p] = 0]
      /\ Online(p) /\ i \in bag[p] \cup {None}
      /\ db' = db /\ phase' = phase /\ auctions' = auctions /\ aitems' = aitems
  BY DEF SendMail, world
<1>2. ProperDrafts(drafts) /\ Carries(drafts, i)
  <2>1. m.item = i /\ m.money = n /\ m.cod = c  BY DEF Draft
  <2>2. Fits(n) /\ Fits(c)
    BY Constants, MarketAssumption, TablesAssumption DEF Narrow, Fits
  <2>3. Carries(drafts, i)
    <3>. HIDE DEF m
    <3>. QED  BY <2>1, <2>2, CarriesShort
  <2>. QED  BY <2>3, Constants, LetterProper
<1>. HIDE DEF drafts, g
<1>3. Goal \in Tables /\ d \in Tables
  <2>. HIDE DEF d
  <2>. QED  BY <1>1, TablesOfQueue, EnqueuedTables
<1>4. CarryOnly(letters, i) /\ \A l \in Goal.mails, x \in letters : l.id # x.id
  BY <1>2, StampedCarry
<1>. HIDE DEF letters
<1>5. /\ rest.gold = Goal.gold /\ rest.items = Goal.items /\ rest.mails = Goal.mails
      /\ rest.auctions = Goal.auctions /\ rest = [Goal EXCEPT !.inv = rest.inv]
      /\ rest.lost = Goal.lost
      /\ rest.inv = IF i = None THEN Goal.inv ELSE [Goal.inv EXCEPT ![i] = None]
  BY <1>3 DEF DeleteFromInventory, Tables
<1>. HIDE DEF rest
<1>6. /\ d.gold = [Goal.gold EXCEPT ![p] = g] /\ d.inv = rest.inv /\ d.items = Goal.items
      /\ d.mails = Goal.mails \cup letters /\ d.auctions = Goal.auctions /\ d.lost = Goal.lost
  BY <1>3, <1>5 DEF SaveGold, Spend, InsertMails, Tables
<1>. HIDE DEF d
<1>7. /\ i # None => i \in Goal.items /\ Goal.inv[i] = p
      /\ p # None /\ None \notin Goal.items
  BY <1>1, <1>3, OnlineGood, TablesAssumption DEF Carried, Tables
<1>8. \A j \in Goal.items : d.inv[j] = IF j = i THEN None ELSE Goal.inv[j]
  BY <1>3, <1>5, <1>6, <1>7 DEF Tables
<1>9. GoodTables(d)
  <2>1. /\ GoodBut(Goal, {i}) /\ UniqueIds(Goal) /\ AuctionsFit(Goal) /\ GoodTables(Goal)
        /\ \A j \in Goal.items : Held(Goal, j)
    BY <1>3, GoodNow, GoodButMore
  <2>2. i \in Goal.items => /\ Ids(Goal.auctions, i) = {} /\ Ids(Goal.mails, i) = {}
                             /\ i \notin Goal.lost
    BY <1>7, <2>1 DEF Held
  <2>3. AuctionsFit(d) /\ \A a, b \in d.auctions : a.id = b.id => a = b
    BY <1>6, <2>1 DEF AuctionsFit, UniqueIds
  <2>. QED  BY <1>3, <1>4, <1>6, <1>8, <2>1, <2>2, <2>3, PostedGood
<1>10. \A x \in Players : x # p => Carried(d, x) = Carried(Goal, x) /\ bag'[x] = bag[x]
  <2>1. \A x \in Players : x # p => bag'[x] = bag[x]
    BY <1>1, TypeOKParts DEF PlayerTypes
  <2>2. \A x \in Players : x # None  BY TablesAssumption
  <2>. HIDE DEF m
  <2>3. ASSUME NEW x \in Players, x # p
        PROVE  Carried(d, x) = Carried(Goal, x)
    BY <1>6, <1>7, <1>8, <2>2, <2>3 DEF Carried
  <2>. QED  BY <2>1, <2>3
<1>11. bag'[p] = Carried(d, p)
  <2>1. bag'[p] = bag[p] \ {i}  BY <1>1, TypeOKParts DEF PlayerTypes
  <2>. QED  BY <1>1, <1>6, <1>7, <1>8, <2>1, OnlineGood DEF Carried
<1>12. HandledTables(d, letters)
  BY <1>1, <1>6, <1>9, GoodNow DEF HandledTables
<1>13. Handled(p, d, drafts, i, g)
  BY <1>1, <1>6, <1>7, <1>10, <1>11 DEF Handled, letters
<1>. QED  BY <1>2, <1>12, <1>13, HandlerGood DEF letters

\* A step that leaves the tables alone.
LEMMA QuietGood ==
  ASSUME TypeOK, Good, db' = db, queue' = queue, auctions' = auctions, aitems' = aitems,
         \A p \in Players :
           /\ PurseGood(Goal, p, phase'[p], gold'[p], bag'[p], purse'[p])
           /\ BoxGood(Goal, p, phase'[p], box'[p])
           /\ phase[p] = "loading" => phase'[p] = "loading"
  PROVE  Good'
<1>1. Goal' = Goal /\ Durable' = Durable
  BY DEF Goal, Durable
<1>2. ReadersGood'
  <2>1. \A k \in DOMAIN queue : queue[k].reader \in Players \cup {None}
    <3>1. \A k \in DOMAIN queue : queue[k] \in Tasks  BY TypeOKParts
    <3>2. \A t \in Tasks : t.reader \in Players \cup {None}  BY DEF Tasks
    <3>. QED  BY <3>1, <3>2
  <2>2. ReadersGood  BY DEF Good
  <2>. QED  BY <1>1, <2>1, <2>2 DEF ReadersGood
<1>. QED  BY <1>1, <1>2 DEF Good

LEMMA EarnGood ==
  ASSUME TypeOK, Good, NEW p \in Players, Earn(p)
  PROVE  Good'
<1>1. /\ gold' = [gold EXCEPT ![p] = ModifyMoney(gold[p], 1)]
      /\ purse' = [purse EXCEPT ![p] = purse[p] + gold'[p] - gold[p]] /\ Online(p)
      /\ db' = db /\ queue' = queue /\ auctions' = auctions /\ aitems' = aitems
      /\ phase' = phase /\ bag' = bag /\ box' = box
  BY DEF Earn, world
<1>2. ModifyMoney(gold[p], 1) \in Int /\ gold[p] \in Int /\ purse[p] \in Int
      /\ Goal.gold[p] \in Int
  <2>1. gold[p] \in Nat /\ purse[p] \in Nat  BY PlayerNow
  <2>2. Goal \in Tables  BY TablesOfQueue
  <2>3. Goal.gold[p] \in Nat  BY <2>2 DEF Tables
  <2>4. 1 \in Int  OBVIOUS
  <2>5. ModifyMoney(gold[p], 1) \in Nat  BY ONLY <2>1, <2>4, ModifyMoneyNat
  <2>. QED  BY <2>1, <2>3, <2>5
<1>3. gold'[p] = ModifyMoney(gold[p], 1) /\ purse'[p] = purse[p] + gold'[p] - gold[p]
  BY <1>1, TypeOKParts DEF PlayerTypes
<1>4. gold[p] = Goal.gold[p] + purse[p] /\ bag[p] = Carried(Goal, p)
  BY <1>1 DEF Online, Good, PurseGood
<1>5. gold'[p] = Goal.gold[p] + purse'[p]
  BY <1>2, <1>3, <1>4
<1>6. PurseGood(Goal, p, phase'[p], gold'[p], bag'[p], purse'[p])
  BY <1>1, <1>4, <1>5 DEF PurseGood, Online
<1>7. \A q \in Players : q # p => gold'[q] = gold[q] /\ purse'[q] = purse[q]
  BY <1>1, TypeOKParts DEF PlayerTypes
<1>8. \A q \in Players : /\ PurseGood(Goal, q, phase'[q], gold'[q], bag'[q], purse'[q])
                         /\ BoxGood(Goal, q, phase'[q], box'[q])
  BY <1>1, <1>6, <1>7 DEF Good
<1>. QED  BY <1>1, <1>8, QuietGood

LEMMA EnterWorldGood ==
  ASSUME TypeOK, Good, NEW p \in Players, EnterWorld(p)
  PROVE  Good'
<1>1. /\ phase' = [phase EXCEPT ![p] = "online"] /\ phase[p] = "loaded"
      /\ db' = db /\ queue' = queue /\ auctions' = auctions /\ aitems' = aitems
      /\ gold' = gold /\ bag' = bag /\ box' = box /\ purse' = purse
  BY DEF EnterWorld, world
<1>2. phase'[p] = "online" /\ \A q \in Players : q # p => phase'[q] = phase[q]
  BY <1>1, TypeOKParts DEF PlayerTypes
<1>3. ASSUME NEW q \in Players
      PROVE  /\ PurseGood(Goal, q, phase'[q], gold'[q], bag'[q], purse'[q])
             /\ BoxGood(Goal, q, phase'[q], box'[q])
             /\ phase[q] = "loading" => phase'[q] = "loading"
  <2>1. PurseGood(Goal, q, phase[q], gold[q], bag[q], purse[q]) /\ BoxGood(Goal, q, phase[q], box[q])
    BY DEF Good
  <2>. QED  BY <1>1, <1>2, <2>1 DEF PurseGood, BoxGood
<1>. QED  BY <1>1, <1>3, QuietGood

LEMMA MailDeleteGood ==
  ASSUME TypeOK, Good, NEW p \in Players, NEW e \in box[p], MailDelete(p, e)
  PROVE  Good'
<1>. DEFINE f == [e EXCEPT !.state = "deleted"]
<1>1. /\ box' = [box EXCEPT ![p] = Replace(box[p], e, f)]
      /\ db' = db /\ queue' = queue /\ auctions' = auctions /\ aitems' = aitems
      /\ phase' = phase /\ gold' = gold /\ bag' = bag /\ purse' = purse
  BY DEF MailDelete, world
<1>2. e \in Entries
  BY TypeOKParts DEF Boxes, Entries
<1>3. f.mail = e.mail /\ f.state = "deleted"
  BY <1>2 DEF Entries
<1>. HIDE DEF f
<1>4. box'[p] = (box[p] \ {e}) \cup {f} /\ \A q \in Players : q # p => box'[q] = box[q]
  BY <1>1, TypeOKParts DEF Boxes, Replace
<1>5. BoxGood(Goal, p, phase[p], box[p])  BY DEF Good
<1>6. BoxGood(Goal, p, phase[p], box'[p])
  <2>1. \A x \in box'[p] : \E y \in box[p] : /\ x.mail = y.mail /\ (x = y \/ (x = f /\ y = e))
                                             /\ (x # f => x # e) /\ x.state \in {y.state, "deleted"}
    BY <1>3, <1>4
  <2>2. \A x, y \in box'[p] : x.mail.id = y.mail.id => x = y
    BY <1>3, <1>4, <1>5 DEF BoxGood
  <2>. QED  BY <1>5, <2>1, <2>2 DEF BoxGood
<1>7. \A q \in Players : /\ PurseGood(Goal, q, phase'[q], gold'[q], bag'[q], purse'[q])
                         /\ BoxGood(Goal, q, phase'[q], box'[q])
  BY <1>1, <1>4, <1>6 DEF Good
<1>. QED  BY <1>1, <1>7, QuietGood

LEMMA LoadMailGood ==
  ASSUME TypeOK, Good, NEW p \in Players, LoadMail(p), ~crossed'
  PROVE  Good'
<1>. DEFINE mine == {m \in db.mails : m.to = p}
            b == {InBox(m) : m \in {View(db, l) : l \in mine}}
<1>1. /\ box' = [box EXCEPT ![p] = b] /\ phase' = [phase EXCEPT ![p] = "mailbox"]
      /\ phase[p] = "online"
      /\ db' = db /\ queue' = queue /\ auctions' = auctions /\ aitems' = aitems
      /\ gold' = gold /\ bag' = bag /\ purse' = purse
      /\ mine \subseteq Goal.mails /\ \A m \in mine : m.item \notin db.items \ Goal.items
  BY DEF LoadMail, Meets, world, View
<1>2. /\ db \in Tables /\ Goal \in Tables /\ Goal.items \subseteq db.items /\ UniqueIds(db)
  BY TablesOfQueue DEF Good, Durable, GoodTables, GoodBut
<1>3. \A l \in mine : View(db, l) = View(Goal, l)
  BY <1>1, <1>2 DEF View
<1>4. \A x \in b : \E l \in mine : x.mail = View(db, l) /\ x.state = "unchanged" /\ x = InBox(View(db, l))
  BY DEF InBox
<1>5. \A l \in mine : l \in db.mails /\ l.to = p /\ View(db, l).id = l.id /\ View(db, l).to = p
  BY <1>2, ViewFacts
<1>. HIDE DEF b
<1>6. BoxGood(Goal, p, "mailbox", b)
  <2>1. \A x \in b : x.state \in {"unchanged", "deleted"} /\ x.mail.to = p
                     /\ \E m \in Goal.mails : x.mail = View(Goal, m)
    <3>. HIDE DEF mine
    <3>. QED  BY <1>1, <1>3, <1>4, <1>5
  <2>2. ASSUME NEW x \in b, NEW y \in b, x.mail.id = y.mail.id
        PROVE  x = y
    <3>1. PICK l \in mine : x.mail = View(db, l) /\ x = InBox(View(db, l))  BY <1>4
    <3>2. PICK m \in mine : y.mail = View(db, m) /\ y = InBox(View(db, m))  BY <1>4
    <3>3. l.id = m.id /\ l \in db.mails /\ m \in db.mails  BY <1>5, <2>2, <3>1, <3>2
    <3>4. l = m  BY <1>2, <3>3 DEF UniqueIds
    <3>. QED  BY <3>1, <3>2, <3>4
  <2>. QED  BY <2>1, <2>2 DEF BoxGood
<1>7. /\ phase'[p] = "mailbox" /\ box'[p] = b
      /\ \A q \in Players : q # p => phase'[q] = phase[q] /\ box'[q] = box[q]
  BY <1>1, TypeOKParts DEF PlayerTypes, Boxes
<1>8. ASSUME NEW q \in Players
      PROVE  /\ PurseGood(Goal, q, phase'[q], gold'[q], bag'[q], purse'[q])
             /\ BoxGood(Goal, q, phase'[q], box'[q])
             /\ phase[q] = "loading" => phase'[q] = "loading"
  <2>1. PurseGood(Goal, q, phase[q], gold[q], bag[q], purse[q]) /\ BoxGood(Goal, q, phase[q], box[q])
    BY DEF Good
  <2>2. CASE q = p
    BY <1>1, <1>6, <1>7, <2>1, <2>2 DEF PurseGood
  <2>3. CASE q # p
    BY <1>1, <1>7, <2>1, <2>3
  <2>. QED  BY <2>2, <2>3
<1>. HIDE DEF mine
<1>. QED  BY <1>1, <1>8, QuietGood

\* Some letters of a mailbox, whose rows stay.
LEMMA BoxRest ==
  ASSUME NEW d \in Tables, NEW r \in Tables, NEW p, NEW ph, NEW bx, BoxGood(d, p, ph, bx),
         NEW b \in SUBSET bx,
         \A e \in b, m \in d.mails : m.id = e.mail.id =>
           m \in r.mails /\ (m.item \in r.items <=> m.item \in d.items)
  PROVE  BoxGood(r, p, ph, b)
<1>1. ASSUME NEW e \in b
      PROVE  \E m \in r.mails : e.mail = View(r, m)
  <2>1. PICK m \in d.mails : e.mail = View(d, m)
    BY DEF BoxGood
  <2>2. m.id = e.mail.id
    BY <2>1, ViewFacts
  <2>3. m \in r.mails /\ (m.item \in r.items <=> m.item \in d.items)
    BY <2>2
  <2>. QED  BY <2>1, <2>3 DEF View
<1>. QED  BY <1>1 DEF BoxGood

\* An entry of a mailbox, and the row it shows.
LEMMA EntryRow ==
  ASSUME TypeOK, Good, NEW p \in Players, NEW e \in box[p]
  PROVE  \E m \in Goal.mails :
           /\ e.mail = View(Goal, m) /\ m.id = e.mail.id /\ m.to = p /\ e.mail.to = p
           /\ m \in MailRow /\ Fits(m.money) /\ Fits(m.cod)
           /\ e.mail.money = m.money /\ e.mail.cod = m.cod
           /\ e.mail.item # None => /\ e.mail.item = m.item /\ m.item \in Goal.items
                                    /\ Goal.inv[m.item] = None /\ Ids(Goal.auctions, m.item) = {}
                                    /\ Ids(Goal.mails, m.item) = {m.id}
                                    /\ m.item \notin Goal.lost
           /\ m.item \in Goal.items => e.mail.item = m.item
<1>1. /\ Goal \in Tables /\ MailsFit(Goal.mails) /\ \A i \in Goal.items : Held(Goal, i)
  BY GoodNow
<1>2. BoxGood(Goal, p, phase[p], box[p])  BY DEF Good
<1>3. PICK m \in Goal.mails : e.mail = View(Goal, m) /\ e.mail.to = p
  BY <1>2 DEF BoxGood
<1>4. /\ m \in MailRow /\ View(Goal, m).id = m.id /\ View(Goal, m).to = m.to
      /\ View(Goal, m).item = IF m.item \in Goal.items THEN m.item ELSE None
      /\ View(Goal, m) = [m EXCEPT !.item = View(Goal, m).item]
      /\ None \notin Goal.items
  BY <1>1, ViewFacts
<1>5. e.mail.money = m.money /\ e.mail.cod = m.cod
  BY <1>3, <1>4 DEF MailRow
<1>6. m.id \in Ids(Goal.mails, m.item)
  BY IdsFacts
<1>7. e.mail.item # None => /\ e.mail.item = m.item /\ m.item \in Goal.items
                            /\ Goal.inv[m.item] = None /\ Ids(Goal.auctions, m.item) = {}
                            /\ Ids(Goal.mails, m.item) = {m.id} /\ m.item \notin Goal.lost
  BY <1>1, <1>3, <1>4, <1>6 DEF Held
<1>8. Fits(m.money) /\ Fits(m.cod)
  BY <1>1 DEF MailsFit
<1>. QED  BY <1>3, <1>4, <1>5, <1>7, <1>8

\* The row of a letter that brings an item.
LEMMA AttachedRow ==
  ASSUME TypeOK, Good, NEW p \in Players, NEW e \in box[p], e.mail.item # None
  PROVE  \E row \in Goal.mails :
           /\ e.mail = View(Goal, row) /\ row.id = e.mail.id /\ row.to = p /\ row \in MailRow
           /\ Fits(row.money) /\ e.mail.money = row.money
           /\ Fits(row.cod) /\ e.mail.cod = row.cod
           /\ e.mail.item = row.item /\ e.mail.item \in Goal.items
           /\ Goal.inv[e.mail.item] = None /\ Ids(Goal.auctions, e.mail.item) = {}
           /\ Ids(Goal.mails, e.mail.item) = {row.id} /\ e.mail.item \notin Goal.lost
<1>. PICK m \in Goal.mails :
       /\ e.mail = View(Goal, m) /\ m.id = e.mail.id /\ m.to = p
       /\ m \in MailRow /\ Fits(m.money) /\ Fits(m.cod)
       /\ e.mail.money = m.money /\ e.mail.cod = m.cod
       /\ e.mail.item = m.item /\ m.item \in Goal.items
       /\ Goal.inv[m.item] = None /\ Ids(Goal.auctions, m.item) = {}
       /\ Ids(Goal.mails, m.item) = {m.id} /\ m.item \notin Goal.lost
  BY EntryRow
<1>. QED  OBVIOUS

LEMMA ReturnToSenderGood ==
  ASSUME TypeOK, IdsFresh, NEW kinds, ProperState(kinds), TypeOK', Good,
         NEW p \in Players, NEW e \in box[p], ReturnToSender(p, e)
  PROVE  Good'
<1>. DEFINE m == e.mail
            drafts == <<Draft(m.to, m.from, "normal", TRUE, m.item, m.money, 0)>>
            letters == Stamped(drafts)
            d0 == DeleteMails(Goal, {m.id})
            rest == Spend(d0, -m.money)
            boxes == [box EXCEPT ![p] = @ \ {e}]
            d == InsertMails(rest, letters)
<1>1. /\ box' = Delivered(boxes, letters) /\ Enqueue(d) /\ m.kind = "normal" /\ MailsLoaded(p)
      /\ db' = db /\ auctions' = auctions /\ aitems' = aitems /\ phase' = phase /\ gold' = gold
      /\ bag' = bag /\ purse' = purse
  BY DEF ReturnToSender, world
<1>2. ProperMail(m, kinds, nextMail)
  BY ProperNow, BoxProper DEF ProperBox
<1>3. /\ m \in MailRow /\ m.from \in Players /\ m.to \in Players /\ m.item \in Items \cup {None}
      /\ m.money \in Nat
  BY <1>1, <1>2 DEF ProperMail, MailRow
<1>4. PICK row \in Goal.mails :
        /\ m = View(Goal, row) /\ row.id = m.id /\ row.to = p
        /\ Fits(row.money) /\ m.money = row.money
        /\ m.item # None => /\ m.item = row.item /\ row.item \in Goal.items
                            /\ Goal.inv[row.item] = None /\ Ids(Goal.auctions, row.item) = {}
                            /\ Ids(Goal.mails, row.item) = {row.id}
                            /\ row.item \notin Goal.lost
        /\ row.item \in Goal.items => m.item = row.item
  BY EntryRow
<1>. HIDE DEF m
<1>5. ProperDrafts(drafts) /\ Carries(drafts, m.item)
  <2>. DEFINE x == Draft(m.to, m.from, "normal", TRUE, m.item, m.money, 0)
  <2>1. x.item = m.item /\ x.money = m.money /\ x.cod = 0  BY DEF Draft
  <2>2. Fits(m.money) /\ Fits(0)  BY <1>4, TablesAssumption DEF Fits
  <2>. HIDE DEF x
  <2>3. Carries(<<x>>, m.item)
    BY <2>1, <2>2, CarriesShort
  <2>. QED  BY <1>3, <2>3, LetterProper DEF x
<1>. HIDE DEF drafts, boxes
<1>6. d0 \in Tables
  BY ProperNow, DeleteMailsProper DEF Proper
<1>7. d \in Tables
  <2>. HIDE DEF d
  <2>. QED  BY <1>1, EnqueuedTables
<1>8. CarryOnly(letters, m.item) /\ \A x \in Goal.mails, l \in letters : x.id # l.id
  BY <1>5, StampedCarry
<1>. HIDE DEF letters
<1>9. /\ Goal \in Tables /\ GoodTables(Goal) /\ UniqueIds(Goal) /\ auctions = Goal.auctions
      /\ AuctionsFit(Goal) /\ \A x \in auctions : x.item \in aitems /\ x.deposit = Deposit
  BY GoodNow
<1>10. /\ d0.gold = Goal.gold /\ d0.inv = Goal.inv /\ d0.items = Goal.items
       /\ d0.auctions = Goal.auctions /\ d0.mails = {x \in Goal.mails : x.id \notin {m.id}}
       /\ d0.lost = Goal.lost
  BY <1>9, Columns DEF Same
<1>11. GoodBut(d0, {m.item})
  <2>1. GoodBut(Goal, {m.item})  BY <1>9, GoodButMore
  <2>2. d0 = DeleteMails(Goal, {row.id})  BY <1>4
  <2>. HIDE DEF d0
  <2>. QED  BY <1>4, <1>9, <2>1, <2>2, RemovedGood
<1>12. \A j : Ids(d0.mails, j) = Ids(Goal.mails, j) \ {m.id}
  BY <1>9, DeletedIds
<1>. HIDE DEF d0
<1>13. /\ d.gold = d0.gold /\ d.inv = d0.inv /\ d.items = d0.items /\ d.auctions = d0.auctions
       /\ d.mails = d0.mails \cup letters /\ d.lost = d0.lost
  BY <1>6 DEF InsertMails, Spend, Tables
<1>. HIDE DEF d, rest
<1>14. None \notin Goal.items  BY <1>9, TablesAssumption DEF Tables
<1>15. GoodTables(d)
  <2>1. m.item \in d0.items =>
          /\ d.inv[m.item] = None /\ Ids(d.auctions, m.item) = {} /\ Ids(d0.mails, m.item) = {}
          /\ m.item \notin d0.lost
    BY <1>4, <1>10, <1>12, <1>13, <1>14
  <2>2. AuctionsFit(d) /\ \A a, b \in d.auctions : a.id = b.id => a = b
    BY <1>9, <1>10, <1>13 DEF AuctionsFit, UniqueIds
  <2>3. \A x \in d0.mails, l \in letters : x.id # l.id
    BY <1>8, <1>10
  <2>. QED  BY <1>6, <1>7, <1>8, <1>11, <1>13, <2>1, <2>2, <2>3, PostedGood
<1>16. \A x \in Goal.mails : x.id # m.id => x \in d.mails
  BY <1>10, <1>13
<1>17. \A q \in Players : PurseKept(Goal, d, q) /\ (q # p => LettersKept(Goal, d, q))
  BY <1>4, <1>9, <1>10, <1>13, <1>16 DEF PurseKept, LettersKept, Carried, UniqueIds
<1>18. NewLetters(letters, d)
  BY <1>4, <1>8, <1>10, <1>13 DEF NewLetters, CarryOnly
<1>19. boxes[p] = box[p] \ {e} /\ \A q \in Players : q # p => boxes[q] = box[q]
  BY TypeOKParts DEF boxes, Boxes
<1>20. \A q \in Players : box'[q] = Posted(letters, q, phase[q], boxes[q])
  BY <1>1, DeliveredIs
<1>21. BoxGood(d, p, phase[p], box'[p])
  <2>1. BoxGood(Goal, p, phase[p], box[p])  BY DEF Good
  <2>2. \A x \in box[p] \ {e} : x.mail.id # m.id
    BY <2>1 DEF BoxGood, m
  <2>3. BoxGood(d, p, phase[p], box[p] \ {e})
    BY <1>7, <1>9, <1>10, <1>13, <1>16, <2>1, <2>2, BoxRest
  <2>4. \A x \in box[p] \ {e}, l \in letters : x.mail.id # l.id
    <3>1. \A x \in box[p] : \E y \in Goal.mails : x.mail = View(Goal, y)
      BY <2>1 DEF BoxGood
    <3>. QED  BY <1>8, <1>9, <3>1, ViewFacts
  <2>5. BoxGood(d, p, phase[p], Posted(letters, p, phase[p], box[p] \ {e}))
    BY <1>7, <1>18, <2>3, <2>4, BoxPosted
  <2>. QED  BY <1>19, <1>20, <2>5
<1>22. PurseGood(d, p, phase'[p], gold'[p], bag'[p], purse'[p])
  <2>1. PurseGood(Goal, p, phase[p], gold[p], bag[p], purse[p])  BY DEF Good
  <2>2. PurseGood(d, p, phase[p], gold[p], bag[p], purse[p])
    BY <1>17, <2>1, PurseMoved
  <2>. QED  BY <1>1, <2>2
<1>23. \A q \in Players : q # p =>
         /\ phase'[q] = phase[q] /\ gold'[q] = gold[q] /\ bag'[q] = bag[q]
         /\ purse'[q] = purse[q] /\ box'[q] = Posted(letters, q, phase[q], box[q])
         /\ PurseKept(Goal, d, q) /\ LettersKept(Goal, d, q)
  BY <1>1, <1>17, <1>19, <1>20
<1>24. p \in Players =>
         /\ phase[p] # "loading" /\ PurseGood(d, p, phase'[p], gold'[p], bag'[p], purse'[p])
         /\ BoxGood(d, p, phase'[p], box'[p])
  BY <1>1, <1>21, <1>22 DEF MailsLoaded
<1>25. /\ Enqueue(d) /\ db' = db /\ d.items \subseteq Goal.items /\ auctions' = d.auctions
       /\ \A a \in auctions' : a.item \in aitems' /\ a.deposit = Deposit
  BY <1>1, <1>9, <1>10, <1>13
<1>. QED  BY <1>7, <1>8, <1>15, <1>18, <1>23, <1>24, <1>25, TransactionGood

LEMMA ReturnToHouseGood ==
  ASSUME TypeOK, NEW kinds, ProperState(kinds), Good,
         NEW p \in Players, NEW e \in box[p], ReturnToHouse(p, e)
  PROVE  Good'
<1>. DEFINE m == e.mail
            d0 == DeleteMails(Goal, {m.id})
            d == LoseItems(d0, {m.item} \ {None})
<1>1. /\ box' = [box EXCEPT ![p] = box[p] \ {e}] /\ Enqueue(d) /\ MailsLoaded(p)
      /\ db' = db /\ auctions' = auctions /\ aitems' = aitems /\ phase' = phase /\ gold' = gold
      /\ bag' = bag /\ purse' = purse
  BY DEF ReturnToHouse, world
<1>2. ProperMail(m, kinds, nextMail)
  BY ProperNow, BoxProper DEF ProperBox
<1>3. PICK row \in Goal.mails : m = View(Goal, row) /\ row.id = m.id /\ row.to = p
  BY EntryRow
<1>. HIDE DEF m
<1>4. /\ Goal \in Tables /\ GoodTables(Goal) /\ UniqueIds(Goal) /\ auctions = Goal.auctions
      /\ \A x \in auctions : x.item \in aitems /\ x.deposit = Deposit
  BY GoodNow
<1>5. GoodTables(d)
  <2>1. d = LoseItems(DeleteMails(Goal, {row.id}), {View(Goal, row).item} \ {None})
    BY <1>3
  <2>. HIDE DEF d, d0
  <2>. QED  BY <1>4, <2>1, LostGood
<1>6. d \in Tables
  <2>1. {m.item} \ {None} \in SUBSET Items
    BY <1>2 DEF ProperMail, MailRow
  <2>2. Proper(d0, kinds, nextMail, nextAuction)
    BY ProperNow, DeleteMailsProper
  <2>. HIDE DEF d0
  <2>3. Proper(d, kinds, nextMail, nextAuction)
    BY <2>1, <2>2, LoseItemsProper
  <2>. HIDE DEF d
  <2>. QED  BY <2>3 DEF Proper
<1>7. /\ d0 = [Goal EXCEPT !.mails = d0.mails, !.spent = d0.spent]
      /\ d0.mails = {x \in Goal.mails : x.id \notin {m.id}}
  BY <1>4 DEF DeleteMails, Tables
<1>. HIDE DEF d0
<1>8. /\ d.gold = Goal.gold /\ d.inv = Goal.inv /\ d.items = Goal.items
      /\ d.auctions = Goal.auctions /\ d.mails = d0.mails
  BY <1>4, <1>7 DEF LoseItems, Tables
<1>. HIDE DEF d
<1>9. \A x \in Goal.mails : x.id # m.id => x \in d.mails
  BY <1>7, <1>8
<1>10. \A q \in Players : PurseKept(Goal, d, q) /\ (q # p => LettersKept(Goal, d, q))
  BY <1>3, <1>4, <1>8, <1>9 DEF PurseKept, LettersKept, Carried, UniqueIds
<1>11. box'[p] = box[p] \ {e} /\ \A q \in Players : q # p => box'[q] = box[q]
  BY <1>1, TypeOKParts DEF Boxes
<1>12. BoxGood(d, p, phase[p], box'[p])
  <2>1. BoxGood(Goal, p, phase[p], box[p])  BY DEF Good
  <2>2. \A x \in box[p] \ {e} : x.mail.id # m.id
    BY <2>1 DEF BoxGood, m
  <2>3. BoxGood(d, p, phase[p], box[p] \ {e})
    BY <1>4, <1>6, <1>8, <1>9, <2>1, <2>2, BoxRest
  <2>. QED  BY <1>11, <2>3
<1>13. PurseGood(d, p, phase'[p], gold'[p], bag'[p], purse'[p])
  <2>1. PurseGood(Goal, p, phase[p], gold[p], bag[p], purse[p])  BY DEF Good
  <2>2. PurseGood(d, p, phase[p], gold[p], bag[p], purse[p])
    BY <1>10, <2>1, PurseMoved
  <2>. QED  BY <1>1, <2>2
<1>14. NewLetters({}, d)
  BY DEF NewLetters
<1>15. \A q \in Players : q # p =>
         /\ phase'[q] = phase[q] /\ gold'[q] = gold[q] /\ bag'[q] = bag[q]
         /\ purse'[q] = purse[q] /\ box'[q] = Posted({}, q, phase[q], box[q])
         /\ PurseKept(Goal, d, q) /\ LettersKept(Goal, d, q)
  BY <1>1, <1>10, <1>11, DeliveredIs
<1>16. p \in Players =>
         /\ phase[p] # "loading" /\ PurseGood(d, p, phase'[p], gold'[p], bag'[p], purse'[p])
         /\ BoxGood(d, p, phase'[p], box'[p])
  BY <1>1, <1>12, <1>13 DEF MailsLoaded
<1>17. /\ Enqueue(d) /\ db' = db /\ d.items \subseteq Goal.items /\ auctions' = d.auctions
       /\ \A a \in auctions' : a.item \in aitems' /\ a.deposit = Deposit
  BY <1>1, <1>4, <1>8
<1>18. \A x \in Goal.mails, l \in {} : x.id # l.id
  OBVIOUS
<1>. QED  BY <1>5, <1>6, <1>14, <1>15, <1>16, <1>17, <1>18, TransactionGood

-----------------------------------------------------------------------------
(* Saving the mailbox of a player.                                         *)

\* The mailbox b of p as _SaveMail finds it: entries of old, and one that may
\* have been changed, whose item i, if it had one, has been taken.
Edited(b, p, i) ==
  /\ b \subseteq Entries
  /\ \A x \in b : \/ x.state # "changed" /\ x \in box[p]
                  \/ /\ x.state = "changed" /\ Fits(x.mail.money) /\ Fits(x.mail.cod)
                     /\ \E m \in Goal.mails : m.to = p /\ Changed(Goal, m, x.mail, i)
  /\ \A x, y \in b : x.mail.id = y.mail.id => x = y
\* The tables r are the latest with the letters added, and only i may be astray.
Based(r, letters, i) ==
  /\ r \in Tables /\ GoodBut(r, {i})
  /\ r.mails = Goal.mails \cup letters /\ r.items = Goal.items /\ r.auctions = Goal.auctions
  /\ r.lost = Goal.lost
  /\ \A m \in Goal.mails, l \in letters : m.id # l.id

LEMMA EditedRow ==
  ASSUME TypeOK, Good, NEW p \in Players, NEW i, NEW b, Edited(b, p, i), NEW x \in b
  PROVE  \E m \in Goal.mails :
           /\ m.id = x.mail.id /\ m.to = p /\ x.mail.to = p /\ x.mail \in MailRow
           /\ x.state \in {"unchanged", "deleted"} => x.mail = View(Goal, m)
           /\ x.state = "changed" =>
                Changed(Goal, m, x.mail, i) /\ Fits(x.mail.money) /\ Fits(x.mail.cod)
           /\ x.state \in {"unchanged", "deleted", "changed"}
<1>1. x \in Entries /\ x.mail \in MailRow /\ x.state \in {"unchanged", "deleted", "changed"}
  BY DEF Edited, Entries
<1>2. CASE x.state # "changed" /\ x \in box[p]
  BY <1>1, <1>2, EntryRow
<1>3. CASE x.state = "changed" /\ x.state \notin {"unchanged", "deleted"}
  <2>1. PICK m \in Goal.mails : m.to = p /\ Changed(Goal, m, x.mail, i)
    BY <1>3 DEF Edited
  <2>2. m \in MailRow  BY GoodNow DEF Tables
  <2>3. x.mail.id = m.id /\ x.mail.to = m.to
    BY <2>1, <2>2 DEF Changed, MailRow
  <2>. QED  BY <1>1, <1>3, <2>1, <2>3 DEF Edited
<1>. QED  BY <1>2, <1>3 DEF Edited

LEMMA EditedLetters ==
  ASSUME TypeOK, Good, NEW p \in Players, NEW i, NEW b, Edited(b, p, i),
         NEW letters, NEW r, Based(r, letters, i)
  PROVE  /\ LettersOf(r, In(b, "changed"), In(b, "deleted"), i)
         /\ \A m \in Goal.mails : m.to # p =>
              \A l \in In(b, "changed") \cup In(b, "deleted") : l.id # m.id
         /\ \A m \in letters :
              \A l \in In(b, "changed") \cup In(b, "deleted") : l.id # m.id
         /\ \A x \in b : x.state = "unchanged" =>
              \A l \in In(b, "changed") \cup In(b, "deleted") : l.id # x.mail.id
<1>. DEFINE U == In(b, "changed")
            D == In(b, "deleted")
<1>1. /\ \A l \in U : \E x \in b : x.state = "changed" /\ l = x.mail
      /\ \A l \in D : \E x \in b : x.state = "deleted" /\ l = x.mail
  BY DEF In
<1>. HIDE DEF U, D
<1>2. /\ UniqueIds(Goal) /\ Goal \in Tables  BY GoodNow
<1>3. \A m : View(r, m) = View(Goal, m)
  BY DEF View, Based
<1>4. \A m, l : Changed(Goal, m, l, i) => Changed(r, m, l, i)
  BY <1>3 DEF Changed
<1>5. \A l \in D : \E m \in Goal.mails : m.id = l.id /\ m.to = p /\ l = View(Goal, m)
  BY <1>1, EditedRow
<1>6. \A l \in U : \E m \in Goal.mails : /\ m.id = l.id /\ m.to = p /\ l \in MailRow
                                         /\ Changed(Goal, m, l, i) /\ Fits(l.money) /\ Fits(l.cod)
  BY <1>1, EditedRow
<1>7. \A l, y \in U \cup D : l.id = y.id => l = y
  BY <1>1 DEF Edited
<1>8. U \cap D = {}
  <2>1. SUFFICES ASSUME NEW l \in U, l \in D PROVE FALSE  OBVIOUS
  <2>2. PICK x \in b, y \in b : x.state = "changed" /\ y.state = "deleted" /\ x.mail = y.mail
    BY <1>1, <2>1
  <2>3. x = y  BY <2>2 DEF Edited
  <2>. QED  BY <2>2, <2>3
<1>9. \A m \in Goal.mails : m \in r.mails
  BY DEF Based
<1>10. MailsFit(U)
  BY <1>6 DEF MailsFit
<1>11. LettersOf(r, U, D, i)
  <2>1. \A l \in D : \E m \in r.mails : l = View(r, m)
    BY <1>3, <1>5, <1>9
  <2>2. \A l \in U : l \in MailRow /\ \E m \in r.mails : Changed(r, m, l, i)
    BY <1>4, <1>6, <1>9
  <2>. QED  BY <1>7, <1>8, <1>10, <2>1, <2>2 DEF LettersOf
<1>12. \A l \in U \cup D : \E m \in Goal.mails : m.id = l.id /\ m.to = p
  BY <1>5, <1>6
<1>13. \A m \in Goal.mails : m.to # p => \A l \in U \cup D : l.id # m.id
  BY <1>2, <1>12 DEF UniqueIds
<1>14. \A m \in letters : \A l \in U \cup D : l.id # m.id
  BY <1>12 DEF Based
<1>15. \A x \in b : x.state = "unchanged" => \A l \in U \cup D : l.id # x.mail.id
  <2>1. ASSUME NEW x \in b, x.state = "unchanged", NEW l \in U \cup D, l.id = x.mail.id
        PROVE  FALSE
    <3>1. PICK y \in b : y.state \in {"changed", "deleted"} /\ l = y.mail
      BY <1>1
    <3>2. x = y  BY <2>1, <3>1 DEF Edited
    <3>. QED  BY <2>1, <3>1, <3>2
  <2>. QED  BY <2>1
<1>. QED  BY <1>11, <1>13, <1>14, <1>15 DEF U, D

LEMMA SavedBoxGood ==
  ASSUME TypeOK, Good, NEW p \in Players, NEW i, NEW b, Edited(b, p, i),
         NEW letters, NEW r, Based(r, letters, i), TakenFrom(r, In(b, "changed"), i),
         NEW d \in Tables, d = SaveMails(r, b)
  PROVE  /\ GoodTables(d) /\ d.items \subseteq Goal.items
         /\ d.gold = r.gold /\ d.inv = r.inv /\ d.auctions = Goal.auctions
         /\ \A j \in Goal.items \ d.items : r.inv[j] = None
         /\ \A q \in Players : q # p => LettersKept(Goal, d, q)
         /\ \A l \in letters : l \in d.mails /\ (l.item \in d.items <=> l.item \in Goal.items)
         /\ BoxGood(d, p, "mailbox", Saved(b))
<1>. DEFINE U == In(b, "changed")
            D == In(b, "deleted")
<1>1. /\ LettersOf(r, U, D, i)
      /\ \A m \in Goal.mails : m.to # p => \A l \in U \cup D : l.id # m.id
      /\ \A m \in letters : \A l \in U \cup D : l.id # m.id
      /\ \A x \in b : x.state = "unchanged" => \A l \in U \cup D : l.id # x.mail.id
  BY EditedLetters
<1>2. d = SaveLetters(r, U, D)
  BY DEF SaveMails, SaveLetters
<1>3. \A x \in b : x.state = "changed" => x.mail \in U
  BY DEF In
<1>4. TakenFrom(r, U, i)  OBVIOUS
<1>. HIDE DEF U, D
<1>5. /\ r \in Tables /\ GoodBut(r, {i}) /\ UniqueIds(r)
      /\ r.mails = Goal.mails \cup letters /\ r.items = Goal.items /\ r.auctions = Goal.auctions
  BY DEF Based, GoodBut
<1>6. /\ \A m \in r.mails : (\A l \in U \cup D : l.id # m.id) => m \in d.mails
      /\ d.gold = r.gold /\ d.inv = r.inv /\ d.auctions = r.auctions
  BY <1>1, <1>2, <1>5, SavedRows
<1>7. /\ GoodTables(d)
      /\ \A m \in r.mails : (\A l \in U \cup D : l.id # m.id) =>
           (m.item \in d.items <=> m.item \in r.items)
      /\ \A l \in U : l \in d.mails /\ View(d, l) = l
      /\ d.items \subseteq r.items /\ \A j \in r.items \ d.items : r.inv[j] = None
  <2>1. r \in Tables /\ GoodBut(r, {i}) /\ LettersOf(r, U, D, i) /\ TakenFrom(r, U, i)
    BY <1>1, <1>4, <1>5
  <2>2. SavedTo(r, d, U, D)
    BY ONLY <1>2, <2>1, SavedGood
  <2>. QED  BY <2>2 DEF SavedTo
<1>8. \A q \in Players : q # p => LettersKept(Goal, d, q)
  BY <1>1, <1>5, <1>6, <1>7 DEF LettersKept
<1>9. \A l \in letters : l \in d.mails /\ (l.item \in d.items <=> l.item \in Goal.items)
  BY <1>1, <1>5, <1>6, <1>7
<1>10. ASSUME NEW y \in Saved(b)
       PROVE  \E x \in b : x.state \in {"unchanged", "changed"} /\ y.mail = x.mail
                           /\ y.state = "unchanged" /\ y = [mail |-> x.mail, state |-> "unchanged"]
  <2>1. PICK x \in b : x.state # "deleted" /\ y = [x EXCEPT !.state = "unchanged"]
    BY DEF Saved
  <2>2. x \in Entries  BY DEF Edited
  <2>. QED  BY <2>1, <2>2 DEF Entries
<1>11. ASSUME NEW x \in b, x.state \in {"unchanged", "changed"}
       PROVE  x.mail.to = p /\ \E m \in d.mails : x.mail = View(d, m)
  <2>1. PICK m \in Goal.mails :
          /\ m.id = x.mail.id /\ x.mail.to = p
          /\ x.state = "unchanged" => x.mail = View(Goal, m)
    BY EditedRow
  <2>2. CASE x.state = "changed"
    BY <1>3, <1>7, <2>1, <2>2
  <2>3. CASE x.state = "unchanged"
    <3>1. \A l \in U \cup D : l.id # m.id  BY <1>1, <2>1, <2>3
    <3>2. m \in d.mails /\ (m.item \in d.items <=> m.item \in Goal.items)
      BY <1>5, <1>6, <1>7, <3>1
    <3>. QED  BY <2>1, <2>3, <3>2 DEF View
  <2>. QED  BY <1>11, <2>2, <2>3
<1>12. \A x, y \in b : x.mail.id = y.mail.id => x = y
  BY DEF Edited
<1>13. BoxGood(d, p, "mailbox", Saved(b))
  <2>1. \A y \in Saved(b) : /\ y.state \in {"unchanged", "deleted"} /\ y.mail.to = p
                            /\ \E m \in d.mails : y.mail = View(d, m)
    BY <1>10, <1>11
  <2>2. \A y, z \in Saved(b) : y.mail.id = z.mail.id => y = z
    BY <1>10, <1>12
  <2>. QED  BY <2>1, <2>2 DEF BoxGood
<1>. QED  BY <1>5, <1>6, <1>7, <1>8, <1>9, <1>13

\* What the actions that save a mailbox have in common.
Saving(p, b, letters, r, d) ==
  /\ Enqueue(d) /\ d = SaveMails(r, b) /\ db' = db /\ auctions' = auctions /\ aitems' = aitems
  /\ CarryOnly(letters, None)
  /\ \A q \in Players : q # p =>
       /\ phase'[q] = phase[q] /\ gold'[q] = gold[q] /\ bag'[q] = bag[q]
       /\ purse'[q] = purse[q] /\ box'[q] = Posted(letters, q, phase[q], box[q])
       /\ PurseKept(Goal, r, q)
  /\ phase[p] # "loading" /\ PurseGood(r, p, phase'[p], gold'[p], bag'[p], purse'[p])
  /\ \/ box'[p] = {}
     \/ phase'[p] = "mailbox" /\ box'[p] = Posted(letters, p, "mailbox", Saved(b))

LEMMA SavingGood ==
  ASSUME TypeOK, TypeOK', Good, NEW p \in Players, NEW i, NEW b, Edited(b, p, i),
         NEW letters, NEW r, Based(r, letters, i), TakenFrom(r, In(b, "changed"), i),
         NEW d, Saving(p, b, letters, r, d)
  PROVE  Good'
<1>1. /\ Enqueue(d) /\ d = SaveMails(r, b) /\ db' = db /\ auctions' = auctions /\ aitems' = aitems
      /\ CarryOnly(letters, None)
      /\ \A q \in Players : q # p =>
           /\ phase'[q] = phase[q] /\ gold'[q] = gold[q] /\ bag'[q] = bag[q]
           /\ purse'[q] = purse[q] /\ box'[q] = Posted(letters, q, phase[q], box[q])
           /\ PurseKept(Goal, r, q)
      /\ phase[p] # "loading" /\ PurseGood(r, p, phase'[p], gold'[p], bag'[p], purse'[p])
      /\ \/ box'[p] = {}
         \/ phase'[p] = "mailbox" /\ box'[p] = Posted(letters, p, "mailbox", Saved(b))
  BY DEF Saving
<1>2. d \in Tables
  BY <1>1, EnqueuedTables
<1>3. /\ GoodTables(d) /\ d.items \subseteq Goal.items
      /\ d.gold = r.gold /\ d.inv = r.inv /\ d.auctions = Goal.auctions
      /\ \A j \in Goal.items \ d.items : r.inv[j] = None
      /\ \A q \in Players : q # p => LettersKept(Goal, d, q)
      /\ \A l \in letters : l \in d.mails /\ (l.item \in d.items <=> l.item \in Goal.items)
      /\ BoxGood(d, p, "mailbox", Saved(b))
  BY <1>1, <1>2, SavedBoxGood
<1>4. \A q \in Players : PurseKept(r, d, q)
  <2>1. r.items = Goal.items  BY DEF Based
  <2>2. None \notin Players  BY TablesAssumption
  <2>. QED  BY <1>3, <2>1, <2>2 DEF PurseKept, Carried
<1>5. \A q \in Players : q # p => PurseKept(Goal, d, q)
  BY <1>1, <1>4 DEF PurseKept
<1>6. NewLetters(letters, d)
  BY <1>1, <1>3 DEF NewLetters, CarryOnly
<1>7. \A m \in Goal.mails, l \in letters : m.id # l.id
  BY DEF Based
<1>8. PurseGood(d, p, phase'[p], gold'[p], bag'[p], purse'[p])
  BY <1>1, <1>4, PurseMoved
<1>9. BoxGood(d, p, phase'[p], box'[p])
  <2>1. CASE box'[p] = {}
    BY <2>1 DEF BoxGood
  <2>2. CASE phase'[p] = "mailbox" /\ box'[p] = Posted(letters, p, "mailbox", Saved(b))
    <3>1. ASSUME NEW y \in Saved(b), NEW l \in letters
          PROVE  y.mail.id # l.id
      <4>1. PICK x \in b : y = [x EXCEPT !.state = "unchanged"]  BY DEF Saved
      <4>2. x \in Entries  BY DEF Edited
      <4>3. y.mail = x.mail  BY <4>1, <4>2 DEF Entries
      <4>4. \E m \in Goal.mails : m.id = x.mail.id  BY EditedRow
      <4>. QED  BY <1>7, <4>3, <4>4
    <3>. QED  BY <1>2, <1>3, <1>6, <2>2, <3>1, BoxPosted
  <2>. QED  BY <1>1, <2>1, <2>2
<1>10. auctions' = d.auctions /\ \A a \in auctions' : a.item \in aitems' /\ a.deposit = Deposit
  BY <1>1, <1>3, GoodNow
<1>11. \A q \in Players : q # p =>
         /\ phase'[q] = phase[q] /\ gold'[q] = gold[q] /\ bag'[q] = bag[q]
         /\ purse'[q] = purse[q] /\ box'[q] = Posted(letters, q, phase[q], box[q])
         /\ PurseKept(Goal, d, q) /\ LettersKept(Goal, d, q)
  BY <1>1, <1>3, <1>5
<1>12. p \in Players =>
         /\ phase[p] # "loading" /\ PurseGood(d, p, phase'[p], gold'[p], bag'[p], purse'[p])
         /\ BoxGood(d, p, phase'[p], box'[p])
  BY <1>1, <1>8, <1>9
<1>13. Enqueue(d) /\ db' = db /\ GoodTables(d) /\ d.items \subseteq Goal.items
  BY <1>1, <1>3
<1>. QED  BY <1>2, <1>6, <1>7, <1>10, <1>11, <1>12, <1>13, TransactionGood

\* The mailbox of p as it is, and with the entry e replaced by a changed one.
LEMMA EditedNow ==
  ASSUME TypeOK, Good, NEW p \in Players
  PROVE  /\ \A i : Edited(box[p], p, i)
         /\ \A e \in box[p] : \A f \in Entries : \A i :
              /\ f.state = "changed" /\ Fits(f.mail.money) /\ Fits(f.mail.cod)
              /\ f.mail.id = e.mail.id
              /\ \E m \in Goal.mails : m.to = p /\ Changed(Goal, m, f.mail, i)
              => Edited(Replace(box[p], e, f), p, i)
<1>1. box[p] \subseteq Entries  BY TypeOKParts DEF Boxes, Entries
<1>2. BoxGood(Goal, p, phase[p], box[p])  BY DEF Good
<1>3. \A x \in box[p] : x.state # "changed"
  BY <1>2 DEF BoxGood
<1>4. \A x, y \in box[p] : x.mail.id = y.mail.id => x = y
  BY <1>2 DEF BoxGood
<1>5. ASSUME NEW e \in box[p], NEW f \in Entries, NEW i,
             f.state = "changed", Fits(f.mail.money), Fits(f.mail.cod), f.mail.id = e.mail.id,
             \E m \in Goal.mails : m.to = p /\ Changed(Goal, m, f.mail, i)
      PROVE  Edited(Replace(box[p], e, f), p, i)
  <2>. PICK b : b = Replace(box[p], e, f)  OBVIOUS
  <2>1. b \subseteq Entries /\ \A x \in b : (x \in box[p] /\ x # e) \/ x = f
    BY <1>1 DEF Replace
  <2>2. \A x, y \in b : x.mail.id = y.mail.id => x = y
    BY <1>4, <1>5, <2>1
  <2>. QED  BY <1>3, <1>5, <2>1, <2>2 DEF Edited
<1>6. \A i : Edited(box[p], p, i)
  BY <1>1, <1>3, <1>4 DEF Edited
<1>. QED  BY <1>5, <1>6

\* The money of p is saved.
LEMMA GoldSaved ==
  ASSUME TypeOK, NEW kinds, ProperState(kinds), Good, NEW p \in Players, NEW g \in Nat,
         NEW r, r = SaveGold(Goal, p, g)
  PROVE  /\ Based(r, {}, None) /\ \A U : TakenFrom(r, U, None)
         /\ \A q \in Players : q # p => PurseKept(Goal, r, q)
         /\ r.gold[p] = g /\ Carried(r, p) = Carried(Goal, p)
<1>1. r \in Tables
  BY ProperNow, SaveGoldProper DEF Proper
<1>2. Goal \in Tables /\ GoodTables(Goal)
  BY GoodNow
<1>3. /\ r.gold = [Goal.gold EXCEPT ![p] = g] /\ r.inv = Goal.inv /\ r.items = Goal.items
      /\ r.mails = Goal.mails /\ r.auctions = Goal.auctions /\ r.lost = Goal.lost
  BY <1>2, SaveGoldColumns
<1>4. GoodBut(r, {None})
  <2>1. GoodBut(Goal, {None})  BY <1>2, GoodButMore
  <2>2. \A j \in Goal.items : Held(Goal, j) => Held(r, j)
    BY <1>3 DEF Held
  <2>. QED  BY <1>3, <2>1, <2>2 DEF GoodBut, UniqueIds, AuctionsFit
<1>5. None \notin r.items
  BY <1>1, TablesAssumption DEF Tables
<1>. QED  BY <1>1, <1>2, <1>3, <1>4, <1>5 DEF Based, TakenFrom, PurseKept, Carried, Tables

LEMMA SaveGoldTables ==
  ASSUME TypeOK, NEW d \in Tables, NEW p \in Players, NEW g \in Nat
  PROVE  SaveGold(d, p, g) \in Tables
<1>1. purse[p] \in Nat  BY DEF TypeOK
<1>2. d.earned + purse[p] \in Nat /\ [d.gold EXCEPT ![p] = g] \in [Players -> Nat]
  BY <1>1 DEF Tables
<1>3. SaveGold(d, p, g) = [d EXCEPT !.gold = [d.gold EXCEPT ![p] = g],
                                    !.earned = d.earned + purse[p]]
  BY DEF SaveGold, Tables
<1>. QED  BY <1>2, <1>3 DEF Tables

LEMMA CarryNone == CarryOnly({}, None)
BY DEF CarryOnly, MailsFit

LEMMA TakeMoneyGood ==
  ASSUME TypeOK, NEW kinds, ProperState(kinds), TypeOK', Good,
         NEW p \in Players, NEW e \in box[p], TakeMoney(p, e)
  PROVE  Good'
<1>. DEFINE g == ModifyMoney(gold[p], e.mail.money)
            f == [mail |-> [e.mail EXCEPT !.money = 0], state |-> "changed"]
            b == Replace(box[p], e, f)
            r == SaveGold(Goal, p, g)
            d == SaveMails(r, b)
<1>1. /\ box' = [box EXCEPT ![p] = Saved(b)] /\ Enqueue(d) /\ MailsLoaded(p)
      /\ gold' = [gold EXCEPT ![p] = g] /\ purse' = [purse EXCEPT ![p] = 0]
      /\ db' = db /\ auctions' = auctions /\ aitems' = aitems /\ phase' = phase /\ bag' = bag
  BY DEF TakeMoney, world
<1>2. PICK row \in Goal.mails :
        /\ e.mail = View(Goal, row) /\ row.id = e.mail.id /\ row.to = p /\ row \in MailRow
        /\ Fits(row.cod) /\ e.mail.cod = row.cod
  BY EntryRow
<1>3. Goal \in Tables /\ e.mail = [row EXCEPT !.item = e.mail.item] /\ e.mail.item \in Items \cup {None}
  <2>1. Goal \in Tables  BY GoodNow
  <2>. QED  BY <1>2, <2>1, ViewFacts DEF MailRow
<1>4. /\ f \in Entries /\ f.state = "changed" /\ f.mail.id = e.mail.id
      /\ f.mail.money = 0 /\ f.mail.cod = row.cod /\ Changed(Goal, row, f.mail, None)
  BY <1>2, <1>3 DEF Entries, MailRow, Changed
<1>5. g \in Nat
  <2>1. e.mail.money \in Int  BY <1>2, <1>3 DEF MailRow
  <2>. QED  BY <2>1, PlayerNow, ModifyMoneyNat
<1>. HIDE DEF f, g
<1>6. Edited(b, p, None)
  <2>1. Fits(0)  BY TablesAssumption DEF Fits
  <2>. QED  BY <1>2, <1>4, <2>1, EditedNow
<1>. HIDE DEF b
<1>7. /\ Based(r, {}, None) /\ \A U : TakenFrom(r, U, None)
      /\ \A q \in Players : q # p => PurseKept(Goal, r, q)
      /\ r.gold[p] = g /\ Carried(r, p) = Carried(Goal, p)
  BY <1>5, GoldSaved
<1>. HIDE DEF r
<1>8. gold'[p] = g /\ purse'[p] = 0 /\ box'[p] = Saved(b)
      /\ \A q \in Players : q # p => gold'[q] = gold[q] /\ purse'[q] = purse[q] /\ box'[q] = box[q]
  BY <1>1, TypeOKParts DEF PlayerTypes, Boxes
<1>9. PurseGood(r, p, phase'[p], gold'[p], bag'[p], purse'[p])
  <2>1. bag[p] = Carried(Goal, p)  BY <1>1, OnlineGood DEF MailsLoaded, Online
  <2>. QED  BY <1>1, <1>5, <1>7, <1>8, <2>1 DEF PurseGood
<1>10. \A q, ph, x : Posted({}, q, ph, x) = x
  BY DEF Posted
<1>11. Saving(p, b, {}, r, d)
  BY <1>1, <1>7, <1>8, <1>9, <1>10, CarryNone DEF Saving, MailsLoaded
<1>. HIDE DEF d
<1>. QED  BY <1>6, <1>7, <1>11, SavingGood

LEMMA SaveGood ==
  ASSUME TypeOK, NEW kinds, ProperState(kinds), TypeOK', Good,
         NEW p \in Players, NEW leaves \in BOOLEAN, Save(p, leaves)
  PROVE  Good'
<1>. DEFINE b == box[p]
            r == SaveGold(Goal, p, gold[p])
            d == SaveMails(r, b)
<1>1. /\ Enqueue(d) /\ Online(p)
      /\ box' = [box EXCEPT ![p] = IF leaves THEN {} ELSE Saved(b)]
      /\ phase' = [phase EXCEPT ![p] = IF leaves THEN "offline" ELSE phase[p]]
      /\ gold' = [gold EXCEPT ![p] = IF leaves THEN 0 ELSE gold[p]]
      /\ bag' = [bag EXCEPT ![p] = IF leaves THEN {} ELSE bag[p]]
      /\ purse' = [purse EXCEPT ![p] = 0]
      /\ db' = db /\ auctions' = auctions /\ aitems' = aitems
  BY DEF Save, world
<1>2. gold[p] \in Nat  BY PlayerNow
<1>3. Edited(b, p, None)
  BY EditedNow
<1>4. /\ Based(r, {}, None) /\ \A U : TakenFrom(r, U, None)
      /\ \A q \in Players : q # p => PurseKept(Goal, r, q)
      /\ r.gold[p] = gold[p] /\ Carried(r, p) = Carried(Goal, p)
  BY <1>2, GoldSaved
<1>. HIDE DEF r
<1>5. /\ phase'[p] = IF leaves THEN "offline" ELSE phase[p]
      /\ gold'[p] = IF leaves THEN 0 ELSE gold[p]
      /\ bag'[p] = IF leaves THEN {} ELSE bag[p]
      /\ purse'[p] = 0 /\ box'[p] = IF leaves THEN {} ELSE Saved(b)
      /\ \A q \in Players : q # p =>
           /\ phase'[q] = phase[q] /\ gold'[q] = gold[q] /\ bag'[q] = bag[q]
           /\ purse'[q] = purse[q] /\ box'[q] = box[q]
  BY <1>1, TypeOKParts DEF PlayerTypes, Boxes
<1>6. PurseGood(r, p, phase'[p], gold'[p], bag'[p], purse'[p])
  <2>1. bag[p] = Carried(Goal, p)  BY <1>1, OnlineGood
  <2>. QED  BY <1>2, <1>4, <1>5, <2>1 DEF PurseGood
<1>7. \A q, ph, x : Posted({}, q, ph, x) = x
  BY DEF Posted
<1>8. box'[p] = {} \/ (phase'[p] = "mailbox" /\ box'[p] = Saved(b))
  <2>1. BoxGood(Goal, p, phase[p], b)  BY DEF Good
  <2>2. b # {} => phase[p] = "mailbox"  BY <2>1 DEF BoxGood
  <2>3. b = {} => Saved(b) = {}  BY DEF Saved
  <2>. HIDE DEF b
  <2>. QED  BY <1>5, <2>2, <2>3
<1>. HIDE DEF b
<1>9. Saving(p, b, {}, r, d)
  <2>1. phase[p] # "loading"  BY <1>1 DEF Online
  <2>. QED  BY <1>1, <1>4, <1>5, <1>6, <1>7, <1>8, <2>1, CarryNone DEF Saving
<1>. HIDE DEF d
<1>. QED  BY <1>3, <1>4, <1>9, SavingGood

\* The tables r and the mailbox b before _SaveMail, when p has taken the item i.
TakenTo(p, i, g, letters, r, b) ==
  /\ Edited(b, p, i) /\ Based(r, letters, i) /\ CarryOnly(letters, None)
  /\ r.gold = [Goal.gold EXCEPT ![p] = g] /\ r.inv = [Goal.inv EXCEPT ![i] = p]
  /\ r.mails = Goal.mails \cup letters /\ r \in Tables
  /\ r.spent = Goal.spent /\ r.earned = Goal.earned + purse[p]

LEMMA TakenTables ==
  ASSUME TypeOK, IdsFresh, NEW kinds, ProperState(kinds), Good,
         NEW p \in Players, NEW e \in box[p], e.mail.item # None, NEW i, i = e.mail.item,
         NEW letters, letters = Stamped(Payment(p, e.mail)), NEW g \in Nat,
         NEW r, r = SaveGold(PutInInventory(InsertMails(Goal, letters), p, i), p, g),
         NEW b, b = Replace(box[p], e, [mail |-> [e.mail EXCEPT !.item = None, !.cod = 0],
                                        state |-> "changed"])
  PROVE  TakenTo(p, i, g, letters, r, b)
<1>. DEFINE m == e.mail
            drafts == Payment(p, m)
            taken == [mail |-> [m EXCEPT !.item = None, !.cod = 0], state |-> "changed"]
            d1 == InsertMails(Goal, letters)
            d2 == PutInInventory(d1, p, i)
<1>2. PICK row \in Goal.mails :
        /\ m = View(Goal, row) /\ row.id = m.id /\ row.to = p /\ row \in MailRow
        /\ Fits(row.money) /\ m.money = row.money /\ Fits(row.cod) /\ m.cod = row.cod
        /\ i = row.item /\ i \in Goal.items
        /\ Goal.inv[i] = None /\ Ids(Goal.auctions, i) = {} /\ Ids(Goal.mails, i) = {row.id}
        /\ i \notin Goal.lost
  BY AttachedRow
<1>3. /\ Goal \in Tables /\ GoodTables(Goal) /\ UniqueIds(Goal) /\ AuctionsFit(Goal)
      /\ m = [row EXCEPT !.item = i] /\ m \in MailRow /\ i \in Items
  <2>1. Goal \in Tables /\ GoodTables(Goal) /\ UniqueIds(Goal) /\ AuctionsFit(Goal)  BY GoodNow
  <2>2. m = row  BY <1>2 DEF View
  <2>. HIDE DEF m
  <2>3. i \in Items  BY <1>2, <2>1 DEF Tables
  <2>. QED  BY <1>2, <2>1, <2>2, <2>3 DEF MailRow
<1>4. ProperMail(m, kinds, nextMail)
  BY ProperNow, BoxProper DEF ProperBox
<1>. HIDE DEF m
<1>5. /\ taken \in Entries /\ taken.state = "changed" /\ taken.mail.id = m.id
      /\ taken.mail.money = row.money /\ taken.mail.cod = 0 /\ taken.mail.item = None
      /\ Changed(Goal, row, taken.mail, i)
  BY <1>2, <1>3 DEF Entries, MailRow, Changed
<1>6. b = Replace(box[p], e, taken)  BY DEF m
<1>. HIDE DEF taken
<1>7. Edited(b, p, i)
  <2>1. Fits(0)  BY TablesAssumption DEF Fits
  <2>. QED  BY <1>2, <1>5, <1>6, <2>1, EditedNow DEF m
<1>8. ProperDrafts(drafts) /\ Carries(drafts, None)
  <2>1. m.cod \in Nat /\ (m.cod > 0 => m.from \in Players)
    BY <1>3, <1>4 DEF ProperMail, MailRow
  <2>2. CASE m.cod > 0
    <3>. DEFINE x == Draft(p, m.from, "normal", TRUE, None, m.cod, 0)
    <3>1. x.item = None /\ x.money = m.cod /\ x.cod = 0  BY DEF Draft
    <3>2. Fits(m.cod) /\ Fits(0)  BY <1>2, TablesAssumption DEF Fits
    <3>3. ProperDrafts(<<x>>)
      BY <2>1, <2>2, LetterProper
    <3>. HIDE DEF x
    <3>4. Carries(<<x>>, None)
      BY <3>1, <3>2, CarriesShort
    <3>. QED  BY <2>2, <3>3, <3>4 DEF Payment, x
  <2>3. CASE ~(m.cod > 0)
    BY <2>3, ProperDraftsShort, CarriesShort DEF Payment
  <2>. QED  BY <2>2, <2>3
<1>. HIDE DEF drafts
<1>9. /\ CarryOnly(letters, None) /\ \A x \in Goal.mails, l \in letters : x.id # l.id
      /\ \A l \in letters : l \in MailRow
  <2>1. letters = Stamped(drafts)  BY DEF drafts, m
  <2>. QED  BY <1>8, <2>1, StampedCarry
<1>10. /\ d1 \in Tables /\ d1.mails = Goal.mails \cup letters /\ d1.auctions = Goal.auctions
       /\ d1.gold = Goal.gold /\ d1.inv = Goal.inv /\ d1.items = Goal.items
       /\ d1.spent = Goal.spent /\ d1.earned = Goal.earned /\ d1.lost = Goal.lost
  BY <1>3, <1>9 DEF InsertMails, Tables
<1>11. GoodTables(d1)
  <2>1. GoodBut(Goal, {None})  BY <1>3, GoodButMore
  <2>2. AuctionsFit(d1) /\ \A x, y \in d1.auctions : x.id = y.id => x = y
    BY <1>3, <1>10 DEF AuctionsFit, UniqueIds
  <2>3. None \notin Goal.items  BY <1>3, TablesAssumption DEF Tables
  <2>. HIDE DEF d1
  <2>. QED  BY <1>3, <1>9, <1>10, <2>1, <2>2, <2>3, PostedGood
<1>. HIDE DEF d1
<1>12. d2 \in Tables /\ d2 = [d1 EXCEPT !.inv = [d1.inv EXCEPT ![i] = p]]
  BY <1>3, <1>10 DEF PutInInventory, Tables
<1>13. /\ d2.gold = Goal.gold /\ d2.items = Goal.items /\ d2.mails = Goal.mails \cup letters
       /\ d2.auctions = Goal.auctions /\ d2.inv = [Goal.inv EXCEPT ![i] = p]
       /\ d2.spent = Goal.spent /\ d2.earned = Goal.earned /\ d2.lost = Goal.lost
  <2>. HIDE DEF d2
  <2>. QED  BY <1>10, <1>12 DEF Tables
<1>14. /\ r.gold = [Goal.gold EXCEPT ![p] = g] /\ r.inv = [Goal.inv EXCEPT ![i] = p]
       /\ r.items = Goal.items /\ r.mails = Goal.mails \cup letters /\ r.auctions = Goal.auctions
       /\ r \in Tables /\ r.lost = Goal.lost
  <2>0. r = SaveGold(d2, p, g)  BY DEF d1
  <2>. HIDE DEF d2
  <2>1. d2 \in Tables  BY <1>12
  <2>2. r \in Tables
    BY <2>0, <2>1, SaveGoldTables
  <2>3. /\ r.gold = [d2.gold EXCEPT ![p] = g] /\ r.inv = d2.inv /\ r.items = d2.items
        /\ r.mails = d2.mails /\ r.auctions = d2.auctions /\ r.lost = d2.lost
    BY <2>0, <2>1, SaveGoldColumns
  <2>. QED  BY <1>13, <2>2, <2>3
<1>15. r.spent = Goal.spent /\ r.earned = Goal.earned + purse[p]
  <2>0. r = SaveGold(d2, p, g)  BY DEF d1
  <2>. HIDE DEF d2
  <2>1. d2 \in Tables  BY <1>12
  <2>2. r.spent = d2.spent /\ r.earned = d2.earned + purse[p]
    BY <2>0, <2>1 DEF SaveGold, Tables
  <2>. QED  BY <1>13, <2>2
<1>16. \A j \in Goal.items : r.inv[j] = IF j = i THEN p ELSE Goal.inv[j]
  BY <1>3, <1>14 DEF Tables
<1>17. GoodBut(r, {i})
  <2>1. \A j \in Goal.items : Held(d1, j)  BY <1>10, <1>11 DEF GoodTables, GoodBut
  <2>2. ASSUME NEW j \in Goal.items, j # i
        PROVE  Held(r, j)
    <3>1. /\ r.inv[j] = d1.inv[j] /\ r.mails = d1.mails /\ r.auctions = d1.auctions
          /\ r.lost = d1.lost
      BY <1>10, <1>14, <1>16, <2>2
    <3>. QED  BY <2>1, <3>1, HeldSame
  <2>. QED  BY <1>10, <1>11, <1>14, <2>2 DEF GoodTables, GoodBut, UniqueIds, AuctionsFit
<1>18. Based(r, letters, i)
  BY <1>9, <1>14, <1>17 DEF Based
<1>. QED  BY <1>7, <1>9, <1>14, <1>15, <1>18 DEF TakenTo


LEMMA TakeItemGood ==
  ASSUME TypeOK, IdsFresh, NEW kinds, ProperState(kinds), TypeOK', Good,
         NEW p \in Players, NEW e \in box[p], TakeItem(p, e)
  PROVE  Good'
<1>. DEFINE m == e.mail
            i == m.item
            letters == Stamped(Payment(p, m))
            g == ModifyMoney(gold[p], -Int32(m.cod))
            taken == [mail |-> [m EXCEPT !.item = None, !.cod = 0], state |-> "changed"]
            b == Replace(box[p], e, taken)
            r == SaveGold(PutInInventory(InsertMails(Goal, letters), p, i), p, g)
            d == SaveMails(r, b)
<1>1. /\ box' = Delivered([box EXCEPT ![p] = Saved(b)], letters) /\ Enqueue(d)
      /\ MailsLoaded(p) /\ i # None
      /\ gold' = [gold EXCEPT ![p] = g] /\ purse' = [purse EXCEPT ![p] = 0]
      /\ bag' = [bag EXCEPT ![p] = @ \cup {i}]
      /\ db' = db /\ auctions' = auctions /\ aitems' = aitems /\ phase' = phase
  BY DEF TakeItem, world
<1>2. PICK row \in Goal.mails :
        /\ m = View(Goal, row) /\ row.id = m.id /\ row.to = p /\ row \in MailRow
        /\ Fits(row.money) /\ m.money = row.money /\ Fits(row.cod) /\ m.cod = row.cod
        /\ i = row.item /\ i \in Goal.items
        /\ Goal.inv[i] = None /\ Ids(Goal.auctions, i) = {} /\ Ids(Goal.mails, i) = {row.id}
        /\ i \notin Goal.lost
  <2>1. i # None  BY <1>1
  <2>. QED  BY ONLY TypeOK, Good, p \in Players, e \in box[p], <2>1, AttachedRow
<1>3. Goal \in Tables /\ m \in MailRow /\ m.id = row.id
  <2>1. m = row  BY <1>2 DEF View
  <2>. QED  BY <1>2, <2>1, GoodNow
<1>4. g \in Nat
  <2>1. Int32(m.cod) \in Int  BY <1>3, Int32Facts DEF MailRow
  <2>. QED  BY <2>1, PlayerNow, ModifyMoneyNat
<1>. HIDE DEF g
<1>5. TakenTo(p, i, g, letters, r, b)
  <2>1. /\ letters = Stamped(Payment(p, e.mail)) /\ e.mail.item # None /\ i = e.mail.item
        /\ r = SaveGold(PutInInventory(InsertMails(Goal, letters), p, i), p, g)
        /\ b = Replace(box[p], e, [mail |-> [e.mail EXCEPT !.item = None, !.cod = 0],
                                   state |-> "changed"])
    BY <1>1
  <2>. HIDE DEF letters, r, b, i
  <2>. QED  BY <1>4, <2>1, TakenTables
<1>6. /\ taken.state = "changed" /\ taken.mail.id = row.id /\ taken.mail.item = None
  BY <1>3 DEF MailRow
<1>. HIDE DEF taken
<1>7. taken.mail \in In(b, "changed")
  BY <1>6 DEF In, Replace
<1>. HIDE DEF m, i, letters, b, r
<1>8. /\ Edited(b, p, i) /\ Based(r, letters, i) /\ CarryOnly(letters, None)
      /\ r.gold = [Goal.gold EXCEPT ![p] = g] /\ r.inv = [Goal.inv EXCEPT ![i] = p]
      /\ r.mails = Goal.mails \cup letters
  BY <1>5 DEF TakenTo
<1>9. r.items = Goal.items /\ r.auctions = Goal.auctions /\ r.lost = Goal.lost
  BY <1>8 DEF Based
<1>10. \A j \in Goal.items : r.inv[j] = IF j = i THEN p ELSE Goal.inv[j]
  BY <1>3, <1>8 DEF Tables
<1>11. TakenFrom(r, In(b, "changed"), i)
  <2>1. \A l \in letters : l.item = None  BY <1>8 DEF CarryOnly
  <2>2. Ids(letters, i) = {}
    BY <1>1, <2>1 DEF Ids
  <2>3. Ids(r.mails, i) = {row.id}
    BY <1>2, <1>8, <2>2, IdsFacts
  <2>4. p # None  BY TablesAssumption
  <2>5. r.inv[i] = p /\ Ids(r.auctions, i) = {} /\ i \notin r.lost
    BY <1>2, <1>9, <1>10
  <2>. QED  BY <1>6, <1>7, <2>3, <2>4, <2>5 DEF TakenFrom
<1>12. /\ gold'[p] = g /\ purse'[p] = 0 /\ bag'[p] = bag[p] \cup {i}
       /\ \A q \in Players : q # p => gold'[q] = gold[q] /\ purse'[q] = purse[q] /\ bag'[q] = bag[q]
  BY <1>1, TypeOKParts DEF PlayerTypes
<1>13. /\ box'[p] = Posted(letters, p, phase[p], Saved(b))
       /\ \A q \in Players : q # p => box'[q] = Posted(letters, q, phase[q], box[q])
  <2>. DEFINE boxes == [box EXCEPT ![p] = Saved(b)]
  <2>1. boxes[p] = Saved(b) /\ \A q \in Players : q # p => boxes[q] = box[q]
    BY TypeOKParts DEF Boxes
  <2>. HIDE DEF boxes
  <2>2. \A q \in Players : Delivered(boxes, letters)[q] = Posted(letters, q, phase[q], boxes[q])
    BY DeliveredIs
  <2>. QED  BY <1>1, <2>1, <2>2 DEF boxes
<1>14. PurseGood(r, p, phase'[p], gold'[p], bag'[p], purse'[p])
  <2>1. bag[p] = Carried(Goal, p)  BY <1>1, OnlineGood DEF MailsLoaded, Online
  <2>2. bag'[p] = Carried(r, p)
    BY <1>2, <1>9, <1>10, <1>12, <2>1 DEF Carried
  <2>3. r.gold[p] = g  BY <1>3, <1>8 DEF Tables
  <2>. QED  BY <1>1, <1>4, <1>12, <2>2, <2>3 DEF PurseGood, MailsLoaded
<1>15. \A q \in Players : q # p => PurseKept(Goal, r, q)
  <2>1. \A q \in Players : q # None  BY TablesAssumption
  <2>2. ASSUME NEW q \in Players, q # p
        PROVE  r.gold[q] = Goal.gold[q] /\ Carried(r, q) = Carried(Goal, q)
    BY <1>2, <1>3, <1>8, <1>9, <1>10, <2>1, <2>2 DEF Carried, Tables
  <2>. QED  BY <2>2 DEF PurseKept
<1>16. Saving(p, b, letters, r, d)
  BY <1>1, <1>8, <1>12, <1>13, <1>14, <1>15 DEF Saving, MailsLoaded
<1>. HIDE DEF d
<1>. QED  BY <1>8, <1>11, <1>16, SavingGood

\* A letter of a player whose mailbox is not open is returned or deleted.
LEMMA PassedGood ==
  ASSUME TypeOK, Good, NEW p \in Players, box[p] = {}, NEW d \in Tables, Transacted(d),
         d.items \subseteq Goal.items, d.auctions = Goal.auctions,
         UNCHANGED <<world, players>>,
         \A q \in Players : PurseKept(Goal, d, q),
         \A q \in Players : q # p => LettersKept(Goal, d, q)
  PROVE  Good'
<1>1. /\ auctions' = auctions /\ aitems' = aitems /\ phase' = phase /\ gold' = gold
      /\ bag' = bag /\ purse' = purse /\ box' = box
  BY DEF world, players
<1>2. auctions = Goal.auctions /\ \A a \in auctions : a.item \in aitems
  BY DEF Good
<1>3. NewLetters({}, d) /\ \A m \in Goal.mails, l \in {} : m.id # l.id
  BY DEF NewLetters
<1>4. Acted(p, d)
  <2>1. PurseGood(Goal, p, phase[p], gold[p], bag[p], purse[p])
    BY DEF Good
  <2>2. PurseGood(d, p, phase[p], gold[p], bag[p], purse[p])
    BY <2>1, PurseMoved
  <2>3. BoxGood(d, p, phase[p], box[p])
    BY DEF BoxGood
  <2>. QED  BY <1>1, <2>2, <2>3 DEF Acted
<1>5. \A q \in Players : box[q] = Posted({}, q, phase[q], box[q])
  BY DeliveredIs
<1>6. \A q \in Players : q # p =>
        /\ phase'[q] = phase[q] /\ gold'[q] = gold[q] /\ bag'[q] = bag[q]
        /\ purse'[q] = purse[q] /\ box'[q] = Posted({}, q, phase[q], box[q])
        /\ PurseKept(Goal, d, q) /\ LettersKept(Goal, d, q)
  BY <1>1, <1>5
<1>7. auctions' = d.auctions /\ \A a \in auctions' : a.item \in aitems'
  BY <1>1, <1>2
<1>. QED  BY <1>3, <1>4, <1>6, <1>7, StepGood

\* The statement that deletes a letter without an item.
LEMMA RemovedNow ==
  ASSUME NEW d \in Tables, GoodTables(d), NEW m \in d.mails, m.item \notin d.items,
         NEW r, r = DeleteMails(d, {m.id})
  PROVE  /\ GoodTables(r) /\ Same(d, r) /\ r.auctions = d.auctions
         /\ \A n \in d.mails : n # m => n \in r.mails
<1>1. GoodBut(d, {None})  BY GoodButMore
<1>2. GoodBut(r, {None})
  BY <1>1, RemovedGood
<1>3. Same(d, r) /\ r.auctions = d.auctions /\ r.mails = {n \in d.mails : n.id \notin {m.id}}
  BY Columns
<1>4. None \notin d.items  BY TablesAssumption DEF Tables
<1>5. GoodTables(r)
  BY <1>2, <1>3, <1>4 DEF GoodTables, GoodBut, Same
<1>6. UniqueIds(d)  BY <1>1 DEF GoodBut
<1>. QED  BY <1>3, <1>5, <1>6 DEF UniqueIds

LEMMA KeptSame ==
  ASSUME NEW d, NEW r, r.gold = d.gold, r.inv = d.inv, NEW q \in Players, r.items \subseteq d.items,
         \A j \in d.items \ r.items : d.inv[j] = None
  PROVE  PurseKept(d, r, q)
<1>1. q # None  BY TablesAssumption
<1>. QED  BY <1>1 DEF PurseKept, Carried

LEMMA ReturnOrDeleteOldMailGood ==
  ASSUME TypeOK, NEW kinds, ProperState(kinds), Good,
         NEW m \in db.mails, ReturnOrDeleteOldMail(m), ~crossed'
  PROVE  Good'
<1>. DEFINE returned == m.item # None /\ m.kind = "normal" /\ ~m.back
            emptied == IF m.item = None THEN Goal ELSE DeleteItems(Goal, {m.item})
            d == DeleteMails(emptied, {m.id})
            gone == Task(d, None)
            first == Task(emptied, None)
<1>1. /\ phase[m.to] # "mailbox" /\ m \in Goal.mails
      /\ \/ m.kind = "normal" /\ Enqueue(ReturnMail(Goal, m))
         \/ m.item = None /\ queue' = Append(queue, gone)
         \/ m.item # None /\ queue' = queue \o <<first, gone>>
      /\ UNCHANGED <<db, world, players>>
  BY DEF ReturnOrDeleteOldMail, Meets, MailsLoaded
<1>2. Proper(Goal, kinds, nextMail, nextAuction) /\ ProperMail(m, kinds, nextMail)
  BY ProperNow DEF Proper
<1>3. /\ Goal \in Tables /\ GoodTables(Goal) /\ UniqueIds(Goal) /\ auctions = Goal.auctions
      /\ \A a \in auctions : a.deposit = Deposit
  BY GoodNow
<1>4. m.to \in Players /\ m \in MailRow
  BY <1>1, <1>3 DEF Tables, MailRow
<1>5. box[m.to] = {}
  BY <1>1, <1>4 DEF Good, BoxGood
<1>6. CASE m.kind = "normal" /\ Enqueue(ReturnMail(Goal, m))
  <2>. PICK r : r = ReturnMail(Goal, m)  OBVIOUS
  <2>1. r \in Tables
    BY <1>2, <1>4, <1>6, ReturnMailProper DEF ProperMail, Proper
  <2>2. GoodTables(r) /\ Same(Goal, r) /\ r.auctions = Goal.auctions
    BY <1>1, <1>3, ReturnedGood, MoreColumns
  <2>3. \A n \in Goal.mails : n.to # m.to => n \in r.mails
    BY <1>1, <1>3, ReturnedRows DEF UniqueIds
  <2>4. Transacted(r)
    <3>1. Enqueue(r) /\ db' = db  BY <1>1, <1>6
    <3>2. \A a \in r.auctions : a.deposit = Deposit
      BY <1>3, <2>2
    <3>. QED  BY <2>1, <2>2, <3>1, <3>2, EnqueuedIsTransacted
  <2>5. \A q \in Players : PurseKept(Goal, r, q)
    BY <2>2, KeptSame DEF Same
  <2>6. \A q \in Players : q # m.to => LettersKept(Goal, r, q)
    BY <2>2, <2>3 DEF LettersKept, Same
  <2>. HIDE DEF d
  <2>7. r.items \subseteq Goal.items /\ r.auctions = Goal.auctions /\ UNCHANGED <<world, players>>
    BY <1>1, <2>2 DEF Same
  <2>. QED  BY ONLY TypeOK, Good, <1>4, <1>5, <2>1, <2>4, <2>5, <2>6, <2>7, PassedGood
<1>7. CASE ~(m.kind = "normal" /\ Enqueue(ReturnMail(Goal, m)))
  <2>1. /\ emptied \in Tables /\ d \in Tables
    <3>1. Proper(emptied, kinds, nextMail, nextAuction)
      BY <1>2, DeleteItemsProper
    <3>. HIDE DEF emptied
    <3>2. Proper(d, kinds, nextMail, nextAuction)
      BY <3>1, DeleteMailsProper
    <3>. QED  BY <3>1, <3>2 DEF Proper
  <2>2. /\ GoodTables(emptied) /\ m \in emptied.mails /\ emptied.mails = Goal.mails
        /\ emptied.gold = Goal.gold /\ emptied.inv = Goal.inv
        /\ emptied.items \subseteq Goal.items /\ emptied.auctions = Goal.auctions
        /\ m.item \notin emptied.items
        /\ \A j \in Goal.items \ emptied.items : Goal.inv[j] = None
        /\ \A n \in Goal.mails : n # m => (n.item \in emptied.items <=> n.item \in Goal.items)
    <3>1. CASE m.item = None
      <4>1. None \notin Goal.items  BY <1>3, TablesAssumption DEF Tables
      <4>. QED  BY <1>1, <1>3, <3>1, <4>1
    <3>2. CASE m.item # None
      <4>1. emptied = DeleteItems(Goal, {m.item})  BY <3>2
      <4>. HIDE DEF emptied
      <4>2. /\ GoodTables(emptied) /\ \A j \in Goal.items \ emptied.items : Goal.inv[j] = None
            /\ \A n \in Goal.mails : n # m => (n.item \in emptied.items <=> n.item \in Goal.items)
        BY <1>1, <1>3, <4>1, ErasedGood
      <4>3. /\ emptied.mails = Goal.mails
            /\ emptied.gold = Goal.gold /\ emptied.inv = Goal.inv
            /\ emptied.items = Goal.items \ {m.item} /\ emptied.auctions = Goal.auctions
        BY <1>3, <4>1, Columns
      <4>. QED  BY <1>1, <4>2, <4>3
    <3>. QED  BY <3>1, <3>2
  <2>. HIDE DEF emptied
  <2>3. /\ GoodTables(d) /\ Same(emptied, d) /\ d.auctions = emptied.auctions
        /\ \A n \in emptied.mails : n # m => n \in d.mails
    BY <2>1, <2>2, RemovedNow
  <2>4. Transacted(d)
    <3>1. first \in Tasks /\ gone \in Tasks /\ first.db = emptied /\ gone.db = d
          /\ first.reader = None /\ gone.reader = None
      BY <2>1 DEF Tasks, Task
    <3>2. \/ m.item = None /\ queue' = Append(queue, gone)
          \/ queue' = queue \o <<first, gone>>
      BY <1>1, <1>7
    <3>. HIDE DEF d, first, gone
    <3>3. /\ Goal' = d /\ \A e \in Durable' : e \in Durable \/ e \in {emptied, d}
      <4>1. db' = db  BY <1>1
      <4>. QED  BY <3>1, <3>2, <4>1, AppendedTask, AppendedTwo
    <3>4. \A k \in DOMAIN queue' : queue'[k].reader # None =>
            k \in DOMAIN queue /\ queue'[k] = queue[k]
      BY <3>1, <3>2, ReadersOld
    <3>5. \A e \in {emptied, d} : /\ GoodTables(e) /\ d.items \subseteq e.items
                                  /\ \A a \in e.auctions : a.deposit = Deposit
      BY <1>3, <2>2, <2>3 DEF Same
    <3>. QED  BY <3>3, <3>4, <3>5 DEF Transacted
  <2>. HIDE DEF d
  <2>5. \A q \in Players : PurseKept(Goal, d, q)
    BY <2>2, <2>3, KeptSame DEF Same
  <2>6. \A q \in Players : q # m.to => LettersKept(Goal, d, q)
    BY <2>2, <2>3 DEF LettersKept, Same
  <2>7. d.items \subseteq Goal.items /\ d.auctions = Goal.auctions /\ UNCHANGED <<world, players>>
    BY <1>1, <2>2, <2>3 DEF Same
  <2>. QED  BY ONLY TypeOK, Good, <1>4, <1>5, <2>1, <2>4, <2>5, <2>6, <2>7, PassedGood
<1>. QED  BY <1>6, <1>7
LEMMA LoginGood ==
  ASSUME TypeOK, Good, NEW p \in Players, Login(p)
  PROVE  Good'
<1>. DEFINE task == Task(Goal, p)
<1>1. /\ queue' = Append(queue, task) /\ phase' = [phase EXCEPT ![p] = "loading"]
      /\ phase[p] = "offline"
      /\ db' = db /\ auctions' = auctions /\ aitems' = aitems /\ gold' = gold /\ bag' = bag
      /\ box' = box /\ purse' = purse
  BY DEF Login, world
<1>2. task \in Tasks /\ task.db = Goal /\ task.reader = p
  BY TablesOfQueue DEF Task, Tasks
<1>. HIDE DEF task
<1>3. Goal' = Goal /\ Durable' = Durable
  BY <1>1, <1>2, AppendedTask, TablesOfQueue
<1>4. phase'[p] = "loading" /\ \A q \in Players : q # p => phase'[q] = phase[q]
  BY <1>1, TypeOKParts DEF PlayerTypes
<1>5. queue \in Seq(Tasks) /\ p # None
  BY TypeOKParts, TablesAssumption
<1>6. PICK n \in Nat : n = Len(queue) /\ DOMAIN queue = 1 .. n
  BY <1>5
<1>7. /\ DOMAIN queue' = 1 .. n + 1 /\ queue'[n + 1] = task
      /\ \A k \in 1 .. n : queue'[k] = queue[k]
  BY <1>1, <1>5, <1>6
<1>8. \A k \in 1 .. n + 1 : k \in 1 .. n \/ k = n + 1
  BY <1>6
<1>9. \A k \in 1 .. n : queue[k].reader # None =>
        /\ phase[queue[k].reader] = "loading"
        /\ PurseKept(queue[k].db, Goal, queue[k].reader)
        /\ \A l \in 1 .. n : queue[l].reader = queue[k].reader => l = k
        /\ queue[k].reader # p /\ queue[k].reader \in Players
  <2>1. \A k \in DOMAIN queue : queue[k].reader \in Players \cup {None}
    <3>1. \A k \in DOMAIN queue : queue[k] \in Tasks  BY <1>5
    <3>2. \A t \in Tasks : t.reader \in Players \cup {None}  BY DEF Tasks
    <3>. QED  BY <3>1, <3>2
  <2>. QED  BY <1>1, <1>6, <2>1 DEF Good, ReadersGood
<1>10. ASSUME NEW k \in 1 .. n + 1, queue'[k].reader # None
       PROVE  /\ phase'[queue'[k].reader] = "loading"
              /\ PurseKept(queue'[k].db, Goal, queue'[k].reader)
              /\ \A l \in 1 .. n + 1 : queue'[l].reader = queue'[k].reader => l = k
  <2>1. CASE k = n + 1
    <3>1. queue'[k] = task /\ PurseKept(Goal, Goal, p)
      BY <1>7, <2>1 DEF PurseKept
    <3>2. \A l \in 1 .. n : queue'[l].reader # p
      BY <1>5, <1>7, <1>9
    <3>. QED  BY <1>2, <1>4, <1>8, <2>1, <3>1, <3>2
  <2>2. CASE k \in 1 .. n
    <3>1. queue'[k] = queue[k] /\ queue'[n + 1].reader = p
      BY <1>2, <1>7, <2>2
    <3>. QED  BY <1>4, <1>7, <1>8, <1>9, <1>10, <2>2, <3>1
  <2>. QED  BY <1>8, <2>1, <2>2
<1>11. ReadersGood'
  BY <1>3, <1>7, <1>10 DEF ReadersGood
<1>12. ASSUME NEW q \in Players
       PROVE  /\ PurseGood(Goal, q, phase'[q], gold'[q], bag'[q], purse'[q])
              /\ BoxGood(Goal, q, phase'[q], box'[q])
  <2>1. PurseGood(Goal, q, phase[q], gold[q], bag[q], purse[q]) /\ BoxGood(Goal, q, phase[q], box[q])
    BY DEF Good
  <2>2. CASE q = p
    BY <1>1, <1>4, <2>1, <2>2 DEF PurseGood, BoxGood
  <2>3. CASE q # p
    BY <1>1, <1>4, <2>1, <2>3
  <2>. QED  BY <2>2, <2>3
<1>. QED  BY <1>1, <1>3, <1>11, <1>12 DEF Good

LEMMA ExecuteGood ==
  ASSUME TypeOK, Good, Execute
  PROVE  Good'
<1>. PICK p : p = Head(queue).reader  OBVIOUS
<1>1. /\ queue # <<>>
      /\ p = None => UNCHANGED <<phase, gold, bag>>
      /\ p # None => /\ phase' = [phase EXCEPT ![p] = "loaded"]
                     /\ gold' = [gold EXCEPT ![p] = db'.gold[p]]
                     /\ bag' = [bag EXCEPT ![p] = Carried(db', p)]
      /\ auctions' = auctions /\ aitems' = aitems /\ box' = box /\ purse' = purse
  BY DEF Execute, world, Carried
<1>2. /\ db' = Head(queue).db /\ queue' = Tail(queue)
      /\ Durable' \subseteq Durable /\ Goal' = Goal
  BY ExecuteDurable
<1>3. queue \in Seq(Tasks) /\ Goal \in Tables
  BY TypeOKParts, TablesOfQueue
<1>4. PICK n \in Nat : n = Len(queue) /\ n >= 1 /\ DOMAIN queue = 1 .. n
  BY <1>1, <1>3
<1>5. /\ Head(queue) = queue[1] /\ DOMAIN queue' = 1 .. n - 1
      /\ \A k \in 1 .. n - 1 : queue'[k] = queue[k + 1]
  BY <1>1, <1>2, <1>3, <1>4
<1>6. 1 \in 1 .. n /\ \A k \in 1 .. n - 1 : k + 1 \in 1 .. n /\ k + 1 # 1
  BY <1>4
<1>7. \A k \in 1 .. n : queue[k].reader # None =>
        /\ phase[queue[k].reader] = "loading"
        /\ PurseKept(queue[k].db, Goal, queue[k].reader)
        /\ \A l \in 1 .. n : queue[l].reader = queue[k].reader => l = k
        /\ queue[k].reader \in Players
  <2>1. \A k \in DOMAIN queue : queue[k].reader \in Players \cup {None}
    <3>1. \A k \in DOMAIN queue : queue[k] \in Tasks  BY <1>3
    <3>2. \A t \in Tasks : t.reader \in Players \cup {None}  BY DEF Tasks
    <3>. QED  BY <3>1, <3>2
  <2>. QED  BY <1>4, <2>1 DEF Good, ReadersGood
<1>8. p # None => /\ p \in Players /\ phase[p] = "loading" /\ PurseKept(db', Goal, p)
                  /\ \A k \in 1 .. n : queue[k].reader = p => k = 1
  BY <1>2, <1>5, <1>6, <1>7
<1>9. \A q \in Players : q # p => phase'[q] = phase[q] /\ gold'[q] = gold[q] /\ bag'[q] = bag[q]
  <2>1. CASE p = None
    BY <1>1, <2>1
  <2>2. CASE p # None
    BY <1>1, <2>2, TypeOKParts DEF PlayerTypes
  <2>. QED  BY <2>1, <2>2
<1>10. p # None => phase'[p] = "loaded" /\ gold'[p] = Goal.gold[p] /\ bag'[p] = Carried(Goal, p)
  BY <1>1, <1>8, TypeOKParts DEF PlayerTypes, PurseKept
<1>11. ASSUME NEW k \in 1 .. n - 1, queue'[k].reader # None
       PROVE  /\ phase'[queue'[k].reader] = "loading"
              /\ PurseKept(queue'[k].db, Goal, queue'[k].reader)
              /\ \A l \in 1 .. n - 1 : queue'[l].reader = queue'[k].reader => l = k
  <2>1. /\ k + 1 \in 1 .. n /\ k + 1 # 1 /\ queue'[k] = queue[k + 1]
    BY <1>5, <1>6
  <2>2. queue[k + 1].reader # p
    BY <1>8, <1>11, <2>1
  <2>3. /\ phase'[queue'[k].reader] = "loading"
        /\ PurseKept(queue'[k].db, Goal, queue'[k].reader)
    BY <1>7, <1>9, <1>11, <2>1, <2>2
  <2>4. ASSUME NEW l \in 1 .. n - 1, queue'[l].reader = queue'[k].reader
        PROVE  l = k
    <3>1. l + 1 \in 1 .. n /\ queue[l + 1].reader = queue[k + 1].reader
      BY <1>5, <1>6, <2>1, <2>4
    <3>2. l + 1 = k + 1
      BY <1>7, <1>11, <2>1, <3>1
    <3>. QED  BY <1>4, <3>2
  <2>. QED  BY <2>3, <2>4
<1>12. ReadersGood'
  BY <1>2, <1>5, <1>11 DEF ReadersGood
<1>13. ASSUME NEW q \in Players
       PROVE  /\ PurseGood(Goal, q, phase'[q], gold'[q], bag'[q], purse'[q])
              /\ BoxGood(Goal, q, phase'[q], box'[q])
  <2>1. PurseGood(Goal, q, phase[q], gold[q], bag[q], purse[q]) /\ BoxGood(Goal, q, phase[q], box[q])
    BY DEF Good
  <2>2. CASE q = p
    <3>0. p # None /\ Goal.gold[q] \in Nat
      BY <1>3, <2>2, TablesAssumption DEF Tables
    <3>1. purse[q] = 0 /\ box[q] = {}
      BY <1>8, <2>1, <2>2, <3>0 DEF PurseGood, BoxGood
    <3>. QED  BY <1>1, <1>10, <2>2, <3>0, <3>1 DEF PurseGood, BoxGood
  <2>3. CASE q # p
    BY <1>1, <1>9, <2>1, <2>3
  <2>. QED  BY <2>2, <2>3
<1>. QED  BY <1>1, <1>2, <1>12, <1>13 DEF Good

LEMMA CrashGood ==
  ASSUME TypeOK, Good, Crash
  PROVE  Good'
<1>1. /\ queue' = <<>> /\ db' = db
      /\ auctions' = {a \in db.auctions : a.item \in db.items}
      /\ aitems' = {a.item : a \in auctions'}
      /\ phase' = [p \in Players |-> "offline"] /\ gold' = [p \in Players |-> 0]
      /\ bag' = [p \in Players |-> {}] /\ box' = [p \in Players |-> {}]
      /\ purse' = [p \in Players |-> 0]
  BY DEF Crash
<1>2. Goal' = db /\ Durable' = {db}
  BY <1>1 DEF Goal, Durable
<1>3. GoodTables(db) /\ \A a \in db.auctions : a.deposit = Deposit
  BY DEF Good, Durable
<1>4. auctions' = db.auctions /\ \A a \in auctions' : a.item \in aitems'
  BY <1>1, <1>3 DEF GoodTables, GoodBut, AuctionsFit
<1>5. ReadersGood'
  BY <1>1 DEF ReadersGood
<1>6. ASSUME NEW p \in Players
      PROVE  /\ PurseGood(db, p, phase'[p], gold'[p], bag'[p], purse'[p])
             /\ BoxGood(db, p, phase'[p], box'[p])
  BY <1>1 DEF PurseGood, BoxGood
<1>. QED  BY <1>2, <1>3, <1>4, <1>5, <1>6 DEF Good

LEMMA InitGood == Init => Good
<1>. SUFFICES ASSUME Init PROVE Good  OBVIOUS
<1>1. /\ queue = <<>> /\ auctions = {} /\ aitems = {}
      /\ db.gold = [p \in Players |-> Start] /\ db.inv = Owner /\ db.items = Items
      /\ db.mails = {} /\ db.auctions = {} /\ db.lost = {}
      /\ phase = [p \in Players |-> IF p \in Present THEN "online" ELSE "offline"]
      /\ gold = [p \in Players |-> IF p \in Present THEN Start ELSE 0]
      /\ bag = [p \in Players |-> {i \in Items : p \in Present /\ Owner[i] = p}]
      /\ box = [p \in Players |-> {}] /\ purse = [p \in Players |-> 0]
  BY DEF Init
<1>2. Goal = db /\ Durable = {db}
  BY <1>1 DEF Goal, Durable
<1>3. GoodTables(db)
  <2>1. UniqueIds(db) /\ AuctionsFit(db) /\ MailsFit(db.mails)
    BY <1>1 DEF UniqueIds, AuctionsFit, MailsFit
  <2>2. \A i \in db.items : Held(db, i)
    <3>1. \A i \in Items : Owner[i] # None
      BY MarketAssumption, TablesAssumption
    <3>. QED  BY <1>1, <3>1 DEF Held, Ids
  <2>. QED  BY <2>1, <2>2 DEF GoodTables, GoodBut
<1>4. ASSUME NEW p \in Players
      PROVE  /\ PurseGood(db, p, phase[p], gold[p], bag[p], purse[p])
             /\ BoxGood(db, p, phase[p], box[p])
  <2>1. Start \in Nat  BY MarketAssumption
  <2>2. CASE p \in Present
    BY <1>1, <2>1, <2>2 DEF PurseGood, BoxGood, Carried
  <2>3. CASE p \notin Present
    BY <1>1, <2>3 DEF PurseGood, BoxGood
  <2>. QED  BY <2>2, <2>3
<1>5. ReadersGood
  BY <1>1 DEF ReadersGood
<1>. QED  BY <1>1, <1>2, <1>3, <1>4, <1>5 DEF Good
-----------------------------------------------------------------------------
(* Steps without a crossing.                                               *)

LEMMA NumbersFresh == TInv => IdsFresh
BY DEF TInv, ProperState, Proper, ProperMail, IdsFresh

LEMMA CrossedStays == [Next]_vars /\ crossed => crossed'
<1>. SUFFICES ASSUME [Next]_vars, crossed PROVE crossed'  OBVIOUS
<1>1. ASSUME NEW p \in Players, Trade(p) PROVE crossed'
  BY <1>1 DEF Trade, SellItem, SellItemAborts, Crash, Bid, BuyOut, Cancel
<1>2. ASSUME NEW p \in Players, Post(p) PROVE crossed'
  BY <1>2 DEF Post, SendMail, LoadMail, Meets, MailDelete, ReturnToSender, ReturnToHouse,
     TakeItem, TakeMoney
<1>3. ASSUME NEW p \in Players,
             Earn(p) \/ Login(p) \/ EnterWorld(p) \/ \E leaves \in BOOLEAN : Save(p, leaves)
      PROVE  crossed'
  BY <1>3 DEF Earn, Login, EnterWorld, Save
<1>4. ASSUME NEW r \in db.auctions, NEW a \in auctions, Expire(r, a) PROVE crossed'
  BY <1>4 DEF Expire
<1>5. ASSUME NEW m \in db.mails, ReturnOrDeleteOldMail(m) PROVE crossed'
  BY <1>5 DEF ReturnOrDeleteOldMail, Meets
<1>6. Execute \/ Crash => crossed'
  BY DEF Execute, Crash
<1>7. UNCHANGED vars => crossed'
  BY DEF vars
<1>. QED  BY <1>1, <1>2, <1>3, <1>4, <1>5, <1>6, <1>7 DEF Next

LEMMA NextGood ==
  ASSUME LogTrade, Narrow, TInv, TInv', Good, ~crossed', [Next]_vars
  PROVE  Good'
<1>. PICK kinds : ProperState(kinds)  BY DEF TInv
<1>0. TypeOK /\ TypeOK' /\ IdsFresh
  BY NumbersFresh DEF TInv
<1>1. ASSUME NEW p \in Players, Trade(p) PROVE Good'
  BY <1>0, <1>1, SellItemGood, AbortIsCrash, CrashGood, BidGood, BuyOutGood, CancelGood
     DEF Trade
<1>2. ASSUME NEW p \in Players, Post(p) PROVE Good'
  <2>1. ASSUME NEW q \in Players, NEW i \in Items \cup {None}, NEW n \in Sums, NEW c \in Sums,
               SendMail(p, q, i, n, c)
        PROVE  Good'
    BY <1>0, <2>1, SendMailGood
  <2>2. LoadMail(p) => Good'
    BY <1>0, LoadMailGood
  <2>3. ASSUME NEW e \in box[p],
               \/ MailDelete(p, e) \/ ReturnToSender(p, e) \/ ReturnToHouse(p, e)
               \/ TakeItem(p, e) \/ TakeMoney(p, e)
        PROVE  Good'
    BY <1>0, <2>3, MailDeleteGood, ReturnToSenderGood, ReturnToHouseGood, TakeItemGood,
       TakeMoneyGood
  <2>. QED  BY <1>2, <2>1, <2>2, <2>3 DEF Post
<1>3. ASSUME NEW p \in Players,
             Earn(p) \/ Login(p) \/ EnterWorld(p) \/ \E leaves \in BOOLEAN : Save(p, leaves)
      PROVE  Good'
  BY <1>0, <1>3, EarnGood, LoginGood, EnterWorldGood, SaveGood
<1>4. ASSUME NEW r \in db.auctions, NEW a \in auctions, Expire(r, a) PROVE Good'
  BY <1>0, <1>4, ExpireGood
<1>5. ASSUME NEW m \in db.mails, ReturnOrDeleteOldMail(m) PROVE Good'
  BY <1>0, <1>5, ReturnOrDeleteOldMailGood
<1>6. Execute \/ Crash => Good'
  BY <1>0, ExecuteGood, CrashGood
<1>7. ASSUME UNCHANGED vars PROVE Good'
  <2>1. /\ db' = db /\ queue' = queue /\ auctions' = auctions /\ aitems' = aitems
        /\ phase' = phase /\ gold' = gold /\ bag' = bag /\ box' = box /\ purse' = purse
    BY <1>7 DEF vars, world, players
  <2>2. \A p \in Players : /\ PurseGood(Goal, p, phase[p], gold[p], bag[p], purse[p])
                           /\ BoxGood(Goal, p, phase[p], box[p])
    BY DEF Good
  <2>. QED  BY <1>0, <2>1, <2>2, QuietGood
<1>. QED  BY <1>1, <1>2, <1>3, <1>4, <1>5, <1>6, <1>7 DEF Next

\* The strengthening: types, fresh numbers and, until a crossing, the rest.
GInv == TInv /\ (crossed \/ Good)

LEMMA GInvStep ==
  ASSUME LogTrade, Narrow
  PROVE  GInv /\ [Next]_vars => GInv'
<1>. SUFFICES ASSUME GInv, [Next]_vars PROVE GInv'  OBVIOUS
<1>1. TInv /\ TInv'  BY NextTInv DEF GInv
<1>2. CASE crossed
  BY <1>1, <1>2, CrossedStays DEF GInv
<1>3. CASE ~crossed'
  <2>1. ~crossed  BY <1>3, CrossedStays
  <2>. QED  BY <1>1, <1>3, <2>1, NextGood DEF GInv
<1>. QED  BY <1>1, <1>2, <1>3 DEF GInv

LEMMA GInvAlways ==
  ASSUME LogTrade, Narrow
  PROVE  Spec => []GInv
<1>1. Init => GInv
  BY InitTInv, InitGood DEF GInv
<1>2. GInv /\ [Next]_vars => GInv'
  BY GInvStep
<1>. QED  BY <1>1, <1>2, PTL DEF Spec

LEMMA GInvTables ==
  ASSUME GInv, ~crossed
  PROVE  /\ TypeOK /\ Good /\ Goal \in Tables
         /\ \A d \in Durable : d \in Tables /\ GoodTables(d)
BY TablesOfQueue DEF GInv, TInv, Good

LEMMA HoldersOf ==
  ASSUME NEW d \in Tables, NEW i \in d.items, Held(d, i)
  PROVE  /\ Holders(d, i) = {} <=> i \in d.lost
         /\ \A g, h \in Holders(d, i) : g = h
<1>. DEFINE byPlayer == {<<"player", p>> : p \in {q \in Players : d.inv[i] = q}}
            byMail == {<<"mail", x>> : x \in Ids(d.mails, i)}
            byAuction == {<<"auction", x>> : x \in Ids(d.auctions, i)}
<1>1. Holders(d, i) = byPlayer \cup byMail \cup byAuction
  BY DEF Holders, Ids
<1>2. d.inv[i] \in Players \cup {None} /\ None \notin Players
  BY TablesAssumption DEF Tables
<1>3. CASE /\ i \notin d.lost /\ d.inv[i] # None
           /\ Ids(d.mails, i) = {} /\ Ids(d.auctions, i) = {}
  <2>1. byPlayer = {<<"player", d.inv[i]>>} /\ byMail = {} /\ byAuction = {}
    BY <1>2, <1>3
  <2>. QED  BY <1>1, <1>3, <2>1
<1>4. CASE /\ i \notin d.lost /\ d.inv[i] = None
           /\ Ids(d.auctions, i) = {} /\ \E x : Ids(d.mails, i) = {x}
  <2>1. PICK x : Ids(d.mails, i) = {x}  BY <1>4
  <2>2. byPlayer = {} /\ byMail = {<<"mail", x>>} /\ byAuction = {}
    BY <1>2, <1>4, <2>1
  <2>. QED  BY <1>1, <1>4, <2>2
<1>5. CASE /\ i \notin d.lost /\ d.inv[i] = None
           /\ Ids(d.mails, i) = {} /\ \E x : Ids(d.auctions, i) = {x}
  <2>1. PICK x : Ids(d.auctions, i) = {x}  BY <1>5
  <2>2. byPlayer = {} /\ byMail = {} /\ byAuction = {<<"auction", x>>}
    BY <1>2, <1>5, <2>1
  <2>. QED  BY <1>1, <1>5, <2>2
<1>6. CASE /\ i \in d.lost /\ d.inv[i] = None
           /\ Ids(d.mails, i) = {} /\ Ids(d.auctions, i) = {}
  <2>1. byPlayer = {} /\ byMail = {} /\ byAuction = {}
    BY <1>2, <1>6
  <2>. QED  BY <1>1, <1>6, <2>1
<1>. QED  BY <1>3, <1>4, <1>5, <1>6 DEF Held

\* Whatever prefix of the transactions a crash leaves, an item is with a
\* player, in a letter or up for auction, and in one place only, unless its
\* letter from the house was returned, and then it is nowhere - if trades are
\* logged, so that a winner who is offline gets the item, and sums of money
\* fit in the columns that keep them.
THEOREM OneHolderAlways ==
  ASSUME LogTrade, Narrow
  PROVE  Spec => []OneHolder
<1>1. GInv => OneHolder
  BY GInvTables, HoldersOf DEF OneHolder, GoodTables, GoodBut
<1>2. Spec => []GInv  BY GInvAlways
<1>. QED  BY <1>1, <1>2, PTL

\* The auction house in memory is the one the database will have, after a
\* restart too, and it has every item it sells.
THEOREM AuctionsSavedAlways ==
  ASSUME LogTrade, Narrow
  PROVE  Spec => []AuctionsSaved
<1>1. GInv => AuctionsSaved
  BY GInvTables DEF AuctionsSaved, Good
<1>2. Spec => []GInv  BY GInvAlways
<1>. QED  BY <1>1, <1>2, PTL

\* What a player who has entered the world sees - purse, bags, the letters of
\* an open mailbox - is what the database will say once the queue is empty.
THEOREM MemoryAgreesAlways ==
  ASSUME LogTrade, Narrow
  PROVE  Spec => []MemoryAgrees
<1>1. GInv => MemoryAgrees
  BY GInvTables DEF MemoryAgrees, Good, PurseGood, BoxGood, Carried, View
<1>2. Spec => []GInv  BY GInvAlways
<1>. QED  BY <1>1, <1>2, PTL

-----------------------------------------------------------------------------
(* No money is made or lost.                                               *)

\* The letters drafted are new, bring n in all and cost what Int32 can tell.
Brings(drafts, n) ==
  /\ drafts \in Seq(MailRow) /\ n \in Int
  /\ Stamped(drafts) \in SUBSET MailRow /\ IsFiniteSet(Stamped(drafts))
  /\ MoneyIn(Stamped(drafts)) = n /\ Cods(Stamped(drafts))
  /\ \A l \in Stamped(drafts) : nextMail <= l.id /\ l.id < nextMail + Len(drafts)

LEMMA BringsNothing == Brings(<<>>, 0)
<1>1. Stamped(<<>>) = {}  BY DEF Stamped
<1>2. MoneyIn({}) = 0  BY FS_EmptySet, MoneyInFacts
<1>. QED  BY <1>1, <1>2, FS_EmptySet DEF Brings, Cods

LEMMA BringsMore ==
  ASSUME TypeOK, NEW drafts, NEW n, Brings(drafts, n), NEW x \in MailRow, x.cod < Half
  PROVE  Brings(drafts \o <<x>>, n + x.money)
<1>. PICK s : s = drafts \o <<x>>  OBVIOUS
<1>. PICK k \in Nat : k = Len(drafts)  BY DEF Brings
<1>. PICK i \in Nat : i = nextMail + k
  BY TypeOKParts DEF CountTypes
<1>. PICK y : y = [x EXCEPT !.id = i]  OBVIOUS
<1>. PICK rows : rows = Stamped(drafts)  OBVIOUS
<1>0. /\ drafts \in Seq(MailRow) /\ n \in Int /\ rows \in SUBSET MailRow /\ IsFiniteSet(rows)
      /\ MoneyIn(rows) = n /\ Cods(rows) /\ nextMail \in Nat
      /\ \A l \in rows : nextMail <= l.id /\ l.id < nextMail + k
  BY TypeOKParts DEF Brings, CountTypes
<1>1. y \in MailRow /\ y.id = i /\ y.money = x.money /\ y.cod = x.cod /\ x.money \in Nat
  BY DEF MailRow
<1>2. /\ s \in Seq(MailRow) /\ Len(s) = k + 1 /\ DOMAIN s = 1 .. k + 1 /\ s[k + 1] = x
      /\ DOMAIN drafts = 1 .. k /\ \A j \in 1 .. k : s[j] = drafts[j]
  BY <1>0
<1>3. Stamped(s) = rows \cup {y}
  <2>1. \A j \in 1 .. k + 1 : j \in 1 .. k \/ j = k + 1  OBVIOUS
  <2>2. 1 .. k \subseteq 1 .. k + 1 /\ k + 1 \in 1 .. k + 1  OBVIOUS
  <2>3. nextMail + (k + 1) - 1 = i  BY <1>0
  <2>. DEFINE Old(j) == [drafts[j] EXCEPT !.id = nextMail + j - 1]
              New(j) == [s[j] EXCEPT !.id = nextMail + j - 1]
  <2>4. Stamped(s) = {New(j) : j \in 1 .. k + 1} /\ rows = {Old(j) : j \in 1 .. k}
    BY <1>2 DEF Stamped
  <2>5. New(k + 1) = y /\ \A j \in 1 .. k : New(j) = Old(j)
    BY <1>2, <2>3
  <2>. HIDE DEF Old, New
  <2>. QED  BY <2>1, <2>2, <2>4, <2>5
<1>4. y \notin rows
  <2>1. ~(i < nextMail + k)  OBVIOUS
  <2>. QED  BY <1>0, <1>1, <2>1
<1>5. MoneyIn(rows \cup {y}) = n + x.money
  <2>1. y \in MailRow \ rows /\ rows \in SUBSET MailRow /\ IsFiniteSet(rows)
    BY <1>0, <1>1, <1>4
  <2>2. MoneyIn(rows \cup {y}) = MoneyIn(rows) + y.money
    BY ONLY <2>1, MoneyInFacts
  <2>. QED  BY <1>0, <1>1, <2>2
<1>6. IsFiniteSet(rows \cup {y}) /\ rows \cup {y} \in SUBSET MailRow
  BY <1>0, <1>1, FS_AddElement
<1>7. \A l \in rows \cup {y} : nextMail <= l.id /\ l.id < nextMail + Len(s)
  <2>1. \A l \in rows : l.id \in Int  BY <1>0 DEF MailRow
  <2>2. ASSUME NEW l \in rows
        PROVE  nextMail <= l.id /\ l.id < nextMail + (k + 1)
    <3>1. l.id \in Int /\ nextMail \in Int /\ nextMail <= l.id /\ l.id < nextMail + k
      BY <1>0, <2>1
    <3>. QED  BY ONLY <3>1, k \in Nat
  <2>3. nextMail <= y.id /\ y.id < nextMail + (k + 1)
    BY ONLY <1>0, <1>1, i = nextMail + k, k \in Nat
  <2>. QED  BY <1>2, <2>2, <2>3
<1>8. Cods(rows \cup {y})
  BY <1>0, <1>1 DEF Cods
<1>9. n + x.money \in Int  BY <1>0, <1>1
<1>. QED  BY <1>2, <1>3, <1>5, <1>6, <1>7, <1>8, <1>9 DEF Brings

LEMMA BringsHouse ==
  ASSUME TypeOK, NEW drafts, NEW n, Brings(drafts, n),
         NEW to \in Players, NEW item \in Items \cup {None}, NEW money \in Nat
  PROVE  Brings(drafts \o <<House(to, item, money)>>, n + money)
<1>. PICK x : x = House(to, item, money)  OBVIOUS
<1>1. x \in MailRow /\ x.money = money /\ x.cod = 0
  BY DEF House, Draft, MailRow
<1>2. x.cod < Half  BY <1>1, TablesAssumption
<1>3. Brings(drafts \o <<x>>, n + x.money)
  BY <1>1, <1>2, BringsMore
<1>. QED  BY <1>1, <1>3

\* What the auction house sends.
LEMMA BringsAuctionMail ==
  ASSUME TypeOK, NEW drafts, NEW n, Brings(drafts, n), NEW a \in AuctionRow, a.item \in aitems
  PROVE  /\ \A p : Brings(drafts \o OutbidMail(a, p),
                          n + (IF a.bidder \in {None, p} THEN 0 ELSE a.bid))
         /\ Brings(drafts \o SuccessfulMail(a), n + (a.bid + a.deposit - Cut(a.bid)))
         /\ a.bidder # None => Brings(drafts \o WonMail(a), n)
         /\ Brings(drafts \o ExpiredMail(a), n)
<1>1. /\ a.item \in Items /\ a.owner \in Players /\ a.bid \in Nat /\ a.deposit \in Nat
      /\ a.bidder \in Players \cup {None}
  BY DEF AuctionRow
<1>2. a.bid + a.deposit - Cut(a.bid) \in Nat
  BY <1>1, CutFacts
<1>3. drafts \o <<>> = drafts /\ n + 0 = n
  BY DEF Brings
<1>4. ASSUME NEW p
      PROVE  Brings(drafts \o OutbidMail(a, p), n + (IF a.bidder \in {None, p} THEN 0 ELSE a.bid))
  <2>1. CASE a.bidder \in {None, p}
    BY <1>3, <2>1 DEF OutbidMail
  <2>2. CASE a.bidder \notin {None, p}
    <3>1. Brings(drafts \o <<House(a.bidder, None, a.bid)>>, n + a.bid)
      BY <1>1, <2>2, BringsHouse
    <3>. QED  BY <2>2, <3>1 DEF OutbidMail
  <2>. QED  BY <2>1, <2>2
<1>5. Brings(drafts \o SuccessfulMail(a), n + (a.bid + a.deposit - Cut(a.bid)))
  <2>. PICK m \in Nat : m = a.bid + a.deposit - Cut(a.bid)  BY <1>2
  <2>1. Brings(drafts \o <<House(a.owner, None, m)>>, n + m)
    BY <1>1, BringsHouse
  <2>. QED  BY <2>1 DEF SuccessfulMail
<1>6. ASSUME a.bidder # None
      PROVE  Brings(drafts \o WonMail(a), n)
  <2>1. Brings(drafts \o <<House(a.bidder, a.item, 0)>>, n + 0)
    BY <1>1, <1>6, BringsHouse
  <2>. QED  BY <1>3, <2>1 DEF WonMail
<1>7. Brings(drafts \o ExpiredMail(a), n)
  <2>1. Brings(drafts \o <<House(a.owner, a.item, 0)>>, n + 0)
    BY <1>1, BringsHouse
  <2>. QED  BY <1>3, <2>1 DEF ExpiredMail
<1>. QED  BY <1>4, <1>5, <1>6, <1>7

LEMMA PayExact ==
  ASSUME NEW g \in Nat, NEW n \in Nat
  PROVE  /\ g >= n => ModifyMoney(g, -n) = g - n /\ g - n \in Nat
         /\ n > 0 /\ ~TooMuch(g, n) => ModifyMoney(g, n) = g + n
<1>1. MaxMoney \in Nat  BY MarketAssumption
<1>2. g >= n => ModifyMoney(g, -n) = g - n /\ g - n \in Nat
  BY <1>1 DEF ModifyMoney
<1>3. n > 0 /\ ~TooMuch(g, n) => ModifyMoney(g, n) = g + n
  BY <1>1 DEF ModifyMoney, TooMuch
<1>. QED  BY <1>2, <1>3

BooksOf(d) ==
  Bids(d.auctions) /\ Cods(d.mails) /\ Worth(d) = Cardinality(Players) * Start
\* The books of all tables are right.
Books == \A d \in Durable : BooksOf(d)
\* Prices on delivery that Int32 leaves as they are.
Signed == \A n \in Sums : n < Half

LEMMA BooksNow ==
  ASSUME TInv, Books, IsFiniteSet(Players)
  PROVE  Counted(Goal) /\ BooksOf(Goal)
<1>1. Goal \in Durable  BY TablesOfQueue DEF TInv
<1>2. PICK kinds : ProperState(kinds)  BY DEF TInv
<1>3. Goal \in Tables /\ IsFiniteSet(Goal.mails)
  BY <1>1, <1>2 DEF ProperState, Proper
<1>. QED  BY <1>1, <1>3 DEF Books, BooksOf, Bids, Counted

LEMMA EnqueuedBooks ==
  ASSUME TypeOK, Books, NEW d \in Tables, Enqueue(d), db' = db, BooksOf(d)
  PROVE  Books'
<1>1. Durable' = Durable \cup {d}  BY Enqueued
<1>. QED  BY <1>1 DEF Books

\* A transaction on the latest tables that sends letters.
Posts(d, drafts, n, p, g) ==
  /\ d \in Tables /\ Brings(drafts, n) /\ d.mails = Goal.mails \cup Stamped(drafts)
  /\ p \in Players /\ g \in Nat /\ d.gold = [Goal.gold EXCEPT ![p] = g]

LEMMA PostedWorth ==
  ASSUME TInv, Books, IsFiniteSet(Players), NEW d, NEW drafts, NEW n, NEW p, NEW g,
         Posts(d, drafts, n, p, g), Bids(d.auctions),
         NEW e \in Int, d.earned = Goal.earned + e, NEW f \in Int, d.spent = Goal.spent + f,
         NEW s \in Int, StakesIn(d.auctions) = StakesIn(Goal.auctions) + s
  PROVE  /\ Counted(d) /\ Cods(d.mails) /\ Worth(Goal) \in Int /\ BooksOf(Goal)
         /\ \A k \in Int : k = (g - Goal.gold[p]) - e + n + s + f => Worth(d) = Worth(Goal) + k
<1>. PICK letters : letters = Stamped(drafts)  OBVIOUS
<1>0. /\ d \in Tables /\ Brings(drafts, n) /\ d.mails = Goal.mails \cup letters
      /\ p \in Players /\ g \in Nat /\ d.gold = [Goal.gold EXCEPT ![p] = g]
  BY DEF Posts
<1>1. /\ letters \in SUBSET MailRow /\ IsFiniteSet(letters) /\ MoneyIn(letters) = n /\ n \in Int
      /\ Cods(letters) /\ \A l \in letters : nextMail <= l.id
  BY <1>0 DEF Brings
<1>2. Counted(Goal) /\ BooksOf(Goal)  BY BooksNow
<1>3. letters \cap Goal.mails = {}
  <2>1. Goal \in Durable /\ IdsFresh /\ nextMail \in Nat
    BY TablesOfQueue, NumbersFresh, TypeOKParts DEF TInv, CountTypes
  <2>2. \A m \in Goal.mails : m.id < nextMail /\ m.id \in Int
    BY <1>2, <2>1 DEF IdsFresh, Counted, Tables, MailRow
  <2>3. ASSUME NEW m \in letters, m \in Goal.mails PROVE FALSE
    BY <1>1, <2>1, <2>2, <2>3
  <2>. QED  BY <2>3
<1>4. IsFiniteSet(d.auctions)  BY DEF Bids
<1>5. /\ Counted(d)
      /\ Worth(d) = Worth(Goal) + (g - Goal.gold[p]) + MoneyIn(letters)
                      + (StakesIn(d.auctions) - StakesIn(Goal.auctions))
                      + (d.spent - Goal.spent) - (d.earned - Goal.earned)
  BY ONLY <1>0, <1>1, <1>2, <1>3, <1>4, PaidWorth
<1>6. /\ Worth(Goal) \in Int /\ StakesIn(Goal.auctions) \in Int /\ Goal.spent \in Int
      /\ Goal.earned \in Int
  BY <1>2, WorthParts
<1>7. Goal.gold[p] \in Int  BY <1>0, <1>2 DEF Counted, Tables
<1>8. ASSUME NEW k \in Int, k = (g - Goal.gold[p]) - e + n + s + f
      PROVE  Worth(d) = Worth(Goal) + k
  <2>1. /\ d.earned - Goal.earned = e /\ d.spent - Goal.spent = f
        /\ StakesIn(d.auctions) - StakesIn(Goal.auctions) = s
    BY <1>6
  <2>2. Worth(d) = Worth(Goal) + (g - Goal.gold[p]) + n + s + f - e
    BY <1>1, <1>5, <2>1
  <2>. PICK u \in Int : u = g - Goal.gold[p]  BY <1>0, <1>7
  <2>. PICK w \in Int : w = Worth(Goal)  BY <1>6
  <2>3. k = u - e + n + s + f /\ n \in Int /\ Worth(d) = w + u + n + s + f - e
    BY <1>1, <1>8, <2>2
  <2>. QED  BY ONLY <2>3, e \in Int, f \in Int, s \in Int, u \in Int, w \in Int, w = Worth(Goal)
<1>9. Cods(d.mails)
  BY <1>0, <1>1, <1>2 DEF Cods, BooksOf
<1>. QED  BY <1>2, <1>5, <1>6, <1>8, <1>9

LEMMA PostedBooks ==
  ASSUME TInv, Books, IsFiniteSet(Players), NEW d, NEW drafts, NEW n, NEW p, NEW g,
         Posts(d, drafts, n, p, g), Bids(d.auctions),
         NEW e \in Int, d.earned = Goal.earned + e, NEW f \in Int, d.spent = Goal.spent + f,
         NEW s \in Int, StakesIn(d.auctions) = StakesIn(Goal.auctions) + s,
         (g - Goal.gold[p]) - e + n + s + f = 0
  PROVE  BooksOf(d)
<1>1. /\ Cods(d.mails) /\ Worth(Goal) \in Int /\ BooksOf(Goal)
      /\ \A k \in Int : k = (g - Goal.gold[p]) - e + n + s + f => Worth(d) = Worth(Goal) + k
  BY PostedWorth
<1>2. Worth(d) = Worth(Goal) + 0  BY <1>1
<1>. QED  BY <1>1, <1>2 DEF BooksOf

\* The keeping of the auction house with an auction more, less or changed.
LEMMA StakesNow ==
  ASSUME TInv, Good, Books, IsFiniteSet(Players)
  PROVE  /\ \A a \in AuctionRow \ Goal.auctions : \A s :
              s = Goal.auctions \cup {a} => StakesIn(s) = StakesIn(Goal.auctions) + (a.bid + a.deposit)
         /\ \A a \in auctions : \A s : s = {x \in Goal.auctions : x.id # a.id} =>
              Bids(s) /\ StakesIn(s) = StakesIn(Goal.auctions) + -(a.bid + a.deposit)
         /\ \A a \in auctions, b \in AuctionRow :
              b.id = a.id /\ b.deposit = a.deposit /\ b.bidder # None
                /\ (b.buyout > 0 => b.bid < b.buyout) =>
              \A s : s = (auctions \ {a}) \cup {b} =>
                Bids(s) /\ StakesIn(s) = StakesIn(Goal.auctions) + (b.bid - a.bid)
<1>. PICK rows : rows = Goal.auctions  OBVIOUS
<1>1. /\ rows \in SUBSET AuctionRow /\ IsFiniteSet(rows) /\ auctions = rows /\ Bids(rows)
      /\ \A a, b \in rows : a.id = b.id => a = b
  BY BooksNow, GoodNow DEF TInv, Counted, Tables, BooksOf, UniqueIds
<1>2. StakesIn(rows) \in Int
  BY <1>1, StakesInFacts
<1>3. ASSUME NEW a \in AuctionRow \ rows
      PROVE  StakesIn(rows \cup {a}) = StakesIn(rows) + (a.bid + a.deposit)
  BY <1>1, StakesInFacts
<1>4. ASSUME NEW a \in rows, NEW s, s = rows \ {a}
      PROVE  /\ s = {x \in rows : x.id # a.id} /\ Bids(s) /\ s \in SUBSET AuctionRow
             /\ StakesIn(s) = StakesIn(rows) - (a.bid + a.deposit)
             /\ a.bid \in Nat /\ a.deposit \in Nat
  <2>1. IsFiniteSet(s)  BY <1>1, <1>4, FS_Subset
  <2>2. StakesIn(rows \ {a}) = StakesIn(rows) - (a.bid + a.deposit)
    BY <1>1, StakesInFacts
  <2>3. a.bid \in Nat /\ a.deposit \in Nat  BY <1>1 DEF AuctionRow
  <2>. QED  BY <1>1, <1>4, <2>1, <2>2, <2>3 DEF Bids
<1>5. ASSUME NEW a \in rows, NEW b \in AuctionRow, b.id = a.id, b.deposit = a.deposit,
             b.bidder # None, b.buyout > 0 => b.bid < b.buyout, NEW s, s = (rows \ {a}) \cup {b}
      PROVE  Bids(s) /\ StakesIn(s) = StakesIn(rows) + (b.bid - a.bid)
  <2>. PICK rest : rest = rows \ {a}  OBVIOUS
  <2>1. /\ Bids(rest) /\ rest \in SUBSET AuctionRow
        /\ StakesIn(rest) = StakesIn(rows) - (a.bid + a.deposit)
        /\ a.bid \in Nat /\ a.deposit \in Nat
    BY <1>4
  <2>2. b \in AuctionRow \ rest /\ IsFiniteSet(rest)
    BY <1>1, <1>5, <2>1 DEF Bids
  <2>3. StakesIn(rest \cup {b}) = StakesIn(rest) + (b.bid + b.deposit)
    BY ONLY <2>1, <2>2, StakesInFacts
  <2>4. IsFiniteSet(rest \cup {b})
    BY <2>2, FS_AddElement
  <2>5. b.bid \in Nat  BY DEF AuctionRow
  <2>6. s = rest \cup {b}  BY <1>5
  <2>7. Bids(s)  BY <1>5, <2>1, <2>4, <2>6 DEF Bids
  <2>. QED  BY <1>2, <1>5, <2>1, <2>3, <2>5, <2>6, <2>7
<1>6. ASSUME NEW a \in rows, NEW s, s = {x \in rows : x.id # a.id}
      PROVE  Bids(s) /\ StakesIn(s) = StakesIn(rows) + -(a.bid + a.deposit)
  <2>1. /\ s = rows \ {a} /\ Bids(s) /\ a.bid \in Nat /\ a.deposit \in Nat
        /\ StakesIn(s) = StakesIn(rows) - (a.bid + a.deposit)
    <3>. PICK t : t = rows \ {a}  OBVIOUS
    <3>1. /\ t = {x \in rows : x.id # a.id} /\ Bids(t) /\ a.bid \in Nat /\ a.deposit \in Nat
          /\ StakesIn(t) = StakesIn(rows) - (a.bid + a.deposit)
      BY <1>4
    <3>2. s = t  BY <1>6, <3>1
    <3>. QED  BY <3>1, <3>2
  <2>. QED  BY <1>2, <2>1
<1>. QED  BY <1>1, <1>3, <1>5, <1>6

LEMMA OnlineGold ==
  ASSUME TypeOK, Good, NEW p \in Players, Online(p)
  PROVE  /\ gold[p] = Goal.gold[p] + purse[p] /\ gold[p] \in Nat /\ purse[p] \in Nat
         /\ Goal.gold[p] \in Nat
<1>1. Goal.gold[p] \in Nat  BY TablesOfQueue DEF Tables
<1>2. PurseGood(Goal, p, phase[p], gold[p], bag[p], purse[p])  BY DEF Good
<1>. QED  BY <1>1, <1>2, PlayerNow DEF PurseGood, Online

\* The handlers of a player who is online: f goes out of the world, and the
\* auction house keeps s more.
Balances(d, drafts, n, p, g, f, s) ==
  /\ Posts(d, drafts, n, p, g) /\ Online(p) /\ Enqueue(d) /\ db' = db /\ Bids(d.auctions)
  /\ d.earned = Goal.earned + purse[p] /\ f \in Int /\ d.spent = Goal.spent + f
  /\ s \in Int /\ StakesIn(d.auctions) = StakesIn(Goal.auctions) + s
  /\ g = gold[p] - (n + s + f)

LEMMA HandlerBooks ==
  ASSUME TInv, Good, Books, IsFiniteSet(Players),
         NEW d, NEW drafts, NEW n, NEW p, NEW g, NEW f, NEW s, Balances(d, drafts, n, p, g, f, s)
  PROVE  Books'
<1>0. /\ Posts(d, drafts, n, p, g) /\ Online(p) /\ Enqueue(d) /\ db' = db /\ Bids(d.auctions)
      /\ d.earned = Goal.earned + purse[p] /\ f \in Int /\ d.spent = Goal.spent + f
      /\ s \in Int /\ StakesIn(d.auctions) = StakesIn(Goal.auctions) + s
      /\ g = gold[p] - (n + s + f)
  BY DEF Balances
<1>1. TypeOK /\ p \in Players /\ d \in Tables /\ g \in Nat /\ n \in Int
  BY <1>0 DEF TInv, Posts, Brings
<1>2. /\ gold[p] = Goal.gold[p] + purse[p] /\ gold[p] \in Nat /\ purse[p] \in Nat
      /\ Goal.gold[p] \in Nat
  BY <1>0, <1>1, OnlineGold
<1>3. (g - Goal.gold[p]) - purse[p] + n + s + f = 0
  <2>. PICK m \in Nat : m = gold[p]  BY <1>2
  <2>. PICK k \in Nat : k = Goal.gold[p]  BY <1>2
  <2>. PICK e \in Nat : e = purse[p]  BY <1>2
  <2>1. m = k + e /\ g = m - (n + s + f)  BY <1>0, <1>2
  <2>2. (g - k) - e + n + s + f = 0
    BY ONLY <1>0, <1>1, <2>1, f \in Int, s \in Int, m \in Nat, k \in Nat, e \in Nat
  <2>. QED  BY <2>2
<1>4. BooksOf(d)
  <2>. PICK e \in Int : e = purse[p]  BY <1>2
  <2>1. d.earned = Goal.earned + e /\ (g - Goal.gold[p]) - e + n + s + f = 0
    BY <1>0, <1>3
  <2>. QED  BY ONLY TInv, Books, IsFiniteSet(Players), e \in Int, <1>0, <2>1, PostedBooks
<1>. QED  BY <1>0, <1>1, <1>4, EnqueuedBooks

LEMMA SellItemBooks ==
  ASSUME TInv, TypeOK', Good, Books, IsFiniteSet(Players),
         NEW p \in Players, NEW i \in Items, NEW offer \in Offers, SellItem(p, i, offer)
  PROVE  Books'
<1>. DEFINE a == [id |-> nextAuction, item |-> i, owner |-> p, startbid |-> offer[1],
                  buyout |-> offer[2], bidder |-> None, bid |-> 0, deposit |-> Deposit]
            g == ModifyMoney(gold[p], -Deposit)
            d == SaveGold(InsertAuction(DeleteFromInventory(Goal, i), a), p, g)
<1>1. Enqueue(d) /\ Online(p) /\ db' = db /\ gold[p] >= Deposit
  BY DEF SellItem
<1>2. TypeOK /\ IdsFresh  BY NumbersFresh DEF TInv
<1>3. Goal \in Tables /\ Goal \in Durable /\ d \in Tables
  <2>. HIDE DEF d
  <2>. QED  BY <1>1, <1>2, TablesOfQueue, EnqueuedTables
<1>4. a \in AuctionRow /\ a.id = nextAuction /\ a.bid = 0 /\ a.deposit = Deposit
      /\ Deposit \in Nat /\ a.bidder = None /\ (a.buyout > 0 => a.bid < a.buyout)
  <2>1. offer[1] \in Nat /\ offer[2] \in Nat /\ Deposit \in Nat
    BY MarketAssumption
  <2>. QED  BY <1>2, <2>1, TypeOKParts DEF AuctionRow, CountTypes
<1>. HIDE DEF a
<1>5. g = gold[p] - Deposit /\ g \in Nat
  BY <1>1, <1>2, <1>4, PlayerNow, PayExact
<1>. HIDE DEF g
<1>6. /\ d.gold = [Goal.gold EXCEPT ![p] = g] /\ d.mails = Goal.mails
      /\ d.auctions = Goal.auctions \cup {a}
      /\ d.spent = Goal.spent + 0 /\ d.earned = Goal.earned + purse[p]
  <2>1. Goal.spent \in Int  BY <1>3 DEF Tables
  <2>. QED  BY <1>3, <2>1 DEF SaveGold, InsertAuction, DeleteFromInventory, Tables
<1>. HIDE DEF d
<1>7. a \notin Goal.auctions
  <2>1. nextAuction \in Nat  BY <1>2, TypeOKParts DEF CountTypes
  <2>2. \A x \in Goal.auctions : x.id < nextAuction  BY <1>2, <1>3 DEF IdsFresh
  <2>. QED  BY <1>4, <2>1, <2>2
<1>8. Bids(d.auctions) /\ StakesIn(d.auctions) = StakesIn(Goal.auctions) + Deposit
  <2>1. StakesIn(d.auctions) = StakesIn(Goal.auctions) + (a.bid + a.deposit)
    BY <1>4, <1>6, <1>7, StakesNow
  <2>2. Bids(Goal.auctions)  BY BooksNow DEF BooksOf
  <2>3. IsFiniteSet(d.auctions)
    BY <1>6, <2>2, FS_AddElement DEF Bids
  <2>. QED  BY <1>4, <1>6, <2>1, <2>2, <2>3 DEF Bids
<1>9. Posts(d, <<>>, 0, p, g)
  <2>1. Stamped(<<>>) = {}  BY DEF Stamped
  <2>. QED  BY <1>3, <1>5, <1>6, <2>1, BringsNothing DEF Posts
<1>10. g = gold[p] - (0 + Deposit + 0)
  BY <1>4, <1>5
<1>11. Balances(d, <<>>, 0, p, g, 0, Deposit)
  BY <1>1, <1>4, <1>6, <1>8, <1>9, <1>10 DEF Balances
<1>. QED  BY <1>11, HandlerBooks

\* An auction and its bid, as the books have them.
LEMMA BooksAuction ==
  ASSUME TInv, Good, Books, IsFiniteSet(Players), NEW a \in auctions
  PROVE  /\ a \in AuctionRow /\ a.item \in aitems /\ a.bid \in Nat /\ a.deposit \in Nat
         /\ a.buyout \in Nat /\ Cut(a.bid) \in Nat /\ a \in Goal.auctions
         /\ (a.bidder = None => a.bid = 0) /\ (a.buyout > 0 => a.bid < a.buyout)
<1>1. a \in AuctionRow /\ a \in Goal.auctions /\ a.item \in aitems
  BY AuctionNow DEF TInv
<1>2. a.bid \in Nat /\ a.deposit \in Nat /\ a.buyout \in Nat
  BY <1>1 DEF AuctionRow
<1>3. Bids(Goal.auctions)  BY BooksNow DEF BooksOf
<1>. QED  BY <1>1, <1>2, <1>3, CutFacts DEF Bids

\* What p pays for a, whose bid may be p's.
LEMMA PaysExact ==
  ASSUME TypeOK, NEW p \in Players, NEW a \in AuctionRow, NEW n \in Nat,
         a.bid < n, gold[p] >= n
  PROVE  /\ Pays(p, a, n) \in Nat
         /\ Pays(p, a, n) = gold[p] - (n - (IF a.bidder = p THEN a.bid ELSE 0))
<1>. PICK m \in Int : m = n - (IF a.bidder = p THEN a.bid ELSE 0)
  BY DEF AuctionRow
<1>1. m \in Nat /\ gold[p] >= m /\ gold[p] \in Nat
  BY PlayerNow DEF AuctionRow
<1>. QED  BY <1>1, PayExact DEF Pays

LEMMA BidBooks ==
  ASSUME Narrow, TInv, TypeOK', Good, Books, IsFiniteSet(Players),
         NEW p \in Players, NEW a \in auctions, NEW n \in Prices, Bid(p, a, n)
  PROVE  Books'
<1>. DEFINE b == [a EXCEPT !.bidder = p, !.bid = n]
            drafts == OutbidMail(a, p)
            letters == Stamped(drafts)
            g == Pays(p, a, n)
            d1 == InsertMails(Goal, letters)
            d2 == UpdateBid(d1, b)
            d == SaveGold(d2, p, g)
            m == IF a.bidder \in {None, p} THEN 0 ELSE a.bid
<1>1. /\ Enqueue(d) /\ Online(p) /\ db' = db /\ a.bid < n /\ gold[p] >= n /\ ~BuysOut(a, n)
  BY BooksAuction, MarketAssumption DEF Bid, Allowed
<1>2. TypeOK /\ IdsFresh  BY NumbersFresh DEF TInv
<1>3. /\ a \in AuctionRow /\ a.item \in aitems /\ a.bid \in Nat /\ a.buyout \in Nat
      /\ a \in Goal.auctions /\ (a.bidder = None => a.bid = 0)
  BY BooksAuction
<1>4. n \in Nat /\ UInt32(n) = n
  <2>1. n \in Nat /\ Fits(n)
    BY Constants, MarketAssumption, TablesAssumption DEF Narrow, Fits
  <2>. QED  BY <2>1, UInt32Facts DEF Fits
<1>5. /\ b \in AuctionRow /\ b.id = a.id /\ b.deposit = a.deposit /\ b.bid = n /\ BidSaved(a, b) = b
      /\ b.bidder # None /\ (b.buyout > 0 => b.bid < b.buyout)
  <2>1. p # None  BY TablesAssumption
  <2>2. b \in AuctionRow /\ b.id = a.id /\ b.deposit = a.deposit /\ b.bid = n /\ b.bidder = p
        /\ b.buyout = a.buyout
    BY <1>3, <1>4 DEF AuctionRow
  <2>3. BidSaved(a, b) = b
    BY <1>3, <1>4 DEF AuctionRow, BidSaved
  <2>. QED  BY <1>1, <1>3, <1>4, <2>1, <2>2, <2>3 DEF BuysOut
<1>. HIDE DEF b
<1>6. Goal \in Tables /\ d \in Tables
  <2>. HIDE DEF d
  <2>. QED  BY <1>1, <1>2, TablesOfQueue, EnqueuedTables
<1>7. Brings(drafts, m)
  <2>1. Brings(<<>> \o drafts, 0 + m)
    BY <1>2, <1>3, BringsNothing, BringsAuctionMail
  <2>2. drafts \in Seq(MailRow)
    <3>1. ProperDrafts(drafts)  BY <1>3, AuctionMailProper
    <3>. QED  BY <3>1 DEF ProperDrafts
  <2>3. m \in Int  BY <1>3
  <2>. HIDE DEF drafts, m
  <2>4. <<>> \o drafts = drafts /\ 0 + m = m  BY <2>2, <2>3
  <2>. QED  BY <2>1, <2>4
<1>8. g \in Nat /\ g = gold[p] - (n - (IF a.bidder = p THEN a.bid ELSE 0))
  BY <1>1, <1>2, <1>3, <1>4, PaysExact
<1>9. m + (n - a.bid) + 0 = n - (IF a.bidder = p THEN a.bid ELSE 0)
  BY <1>3, <1>4
<1>10. g = gold[p] - (m + (n - a.bid) + 0)
  BY <1>8, <1>9
<1>. HIDE DEF drafts, g, m
<1>11. letters \in SUBSET MailRow  BY <1>7 DEF Brings
<1>. HIDE DEF letters
<1>12. /\ d1 \in Tables /\ d1.mails = Goal.mails \cup letters /\ d1.auctions = Goal.auctions
       /\ d1.gold = Goal.gold /\ d1.spent = Goal.spent /\ d1.earned = Goal.earned
  BY <1>6, <1>11 DEF InsertMails, Tables
<1>13. UniqueIds(Goal) /\ auctions = Goal.auctions  BY <1>2, GoodNow
<1>14. \A x, y \in d1.auctions : x.id = y.id => x = y
  BY <1>12, <1>13 DEF UniqueIds
<1>. HIDE DEF d1
<1>15. /\ d2.auctions = (auctions \ {a}) \cup {b} /\ d2.mails = d1.mails /\ d2.gold = d1.gold
       /\ d2.spent = d1.spent /\ d2.earned = d1.earned
  <2>. HIDE DEF d2
  <2>1. a \in d1.auctions /\ d2 = UpdateBid(d1, b)  BY <1>3, <1>12 DEF d2
  <2>2. d2.auctions = (d1.auctions \ {a}) \cup {b} /\ d2.mails = d1.mails /\ d2.gold = d1.gold
        /\ d2.spent = d1.spent /\ d2.earned = d1.earned
    BY ONLY <1>5, <1>12, <1>14, <2>1, BidRow
  <2>. QED  BY <1>12, <1>13, <2>2
<1>16. d2 = [d1 EXCEPT !.auctions = d2.auctions]
  BY <1>12 DEF UpdateBid, Tables
<1>. HIDE DEF d2
<1>17. /\ d.gold = [Goal.gold EXCEPT ![p] = g] /\ d.mails = Goal.mails \cup letters
       /\ d.auctions = (auctions \ {a}) \cup {b}
       /\ d.spent = Goal.spent + 0 /\ d.earned = Goal.earned + purse[p]
  <2>1. Goal.spent \in Int  BY <1>6 DEF Tables
  <2>. QED  BY <1>12, <1>15, <1>16, <2>1 DEF SaveGold, Tables
<1>. HIDE DEF d
<1>18. Bids(d.auctions) /\ StakesIn(d.auctions) = StakesIn(Goal.auctions) + (n - a.bid)
  BY <1>5, <1>17, StakesNow
<1>19. Posts(d, drafts, m, p, g)
  BY <1>6, <1>7, <1>8, <1>17 DEF Posts, letters
<1>20. n - a.bid \in Int  BY <1>3, <1>4
<1>21. Balances(d, drafts, m, p, g, 0, n - a.bid)
  BY <1>1, <1>10, <1>17, <1>18, <1>19, <1>20 DEF Balances
<1>. QED  BY <1>21, HandlerBooks

LEMMA BuyOutBooks ==
  ASSUME TInv, TypeOK', Good, Books, IsFiniteSet(Players),
         NEW p \in Players, NEW a \in auctions, NEW n \in Prices, BuyOut(p, a, n)
  PROVE  Books'
<1>. DEFINE b == [a EXCEPT !.bidder = p, !.bid = a.buyout]
            drafts == OutbidMail(a, p) \o SuccessfulMail(b) \o WonMail(b)
            letters == Stamped(drafts)
            g == Pays(p, a, a.buyout)
            d == SaveGold(Spend(DeleteAuction(InsertMails(Goal, letters), a), Cut(b.bid)), p, g)
            m == IF a.bidder \in {None, p} THEN 0 ELSE a.bid
            k == m + (b.bid + b.deposit - Cut(b.bid))
<1>1. /\ Enqueue(d) /\ Online(p) /\ db' = db /\ gold[p] >= n /\ BuysOut(a, n)
  BY DEF BuyOut, Allowed
<1>2. TypeOK  BY DEF TInv
<1>3. /\ a \in AuctionRow /\ a.item \in aitems /\ a.bid \in Nat /\ a.buyout \in Nat
      /\ a.deposit \in Nat
      /\ a \in Goal.auctions /\ (a.bidder = None => a.bid = 0) /\ (a.buyout > 0 => a.bid < a.buyout)
  BY BooksAuction
<1>4. a.bid < a.buyout /\ gold[p] >= a.buyout
  <2>1. n \in Nat /\ gold[p] \in Nat  BY <1>2, MarketAssumption, PlayerNow
  <2>. QED  BY <1>1, <1>3, <2>1 DEF BuysOut
<1>5. /\ b \in AuctionRow /\ b.deposit = a.deposit /\ b.bid = a.buyout /\ b.item = a.item
      /\ b.bidder # None /\ Cut(b.bid) \in Nat
  <2>1. p # None  BY TablesAssumption
  <2>2. b \in AuctionRow /\ b.deposit = a.deposit /\ b.bid = a.buyout /\ b.bidder = p
        /\ b.item = a.item
    BY <1>3 DEF AuctionRow
  <2>3. Cut(a.buyout) \in Nat  BY <1>3, CutFacts
  <2>. HIDE DEF b
  <2>. QED  BY <2>1, <2>2, <2>3
<1>. HIDE DEF b
<1>6. Goal \in Tables /\ d \in Tables
  <2>. HIDE DEF d
  <2>. QED  BY <1>1, <1>2, TablesOfQueue, EnqueuedTables
<1>7. Brings(drafts, k)
  <2>. PICK o : o = OutbidMail(a, p)  OBVIOUS
  <2>1. m \in Int  BY <1>3
  <2>2. Brings(o, m)
    <3>1. Brings(<<>> \o o, 0 + m)
      BY <1>2, <1>3, BringsNothing, BringsAuctionMail
    <3>2. o \in Seq(MailRow)
      <4>1. ProperDrafts(o)  BY <1>3, AuctionMailProper
      <4>. QED  BY <4>1 DEF ProperDrafts
    <3>. HIDE DEF m
    <3>3. <<>> \o o = o /\ 0 + m = m  BY <2>1, <3>2
    <3>. QED  BY <3>1, <3>3
  <2>. HIDE DEF m
  <2>3. b.item \in aitems  BY <1>3, <1>5
  <2>4. Brings(o \o SuccessfulMail(b), k)
    BY ONLY <1>2, <1>5, <2>2, <2>3, BringsAuctionMail
  <2>5. Brings((o \o SuccessfulMail(b)) \o WonMail(b), k)
    BY ONLY <1>2, <1>5, <2>3, <2>4, BringsAuctionMail
  <2>. QED  BY <2>5
<1>8. g \in Nat /\ g = gold[p] - (a.buyout - (IF a.bidder = p THEN a.bid ELSE 0))
  BY <1>2, <1>3, <1>4, PaysExact
<1>9. k + -(a.bid + a.deposit) + Cut(b.bid) = a.buyout - (IF a.bidder = p THEN a.bid ELSE 0)
  <2>. PICK c \in Nat : c = Cut(b.bid)  BY <1>5
  <2>1. m + (a.buyout + a.deposit - c) + -(a.bid + a.deposit) + c
          = a.buyout - (IF a.bidder = p THEN a.bid ELSE 0)
    BY <1>3
  <2>. QED  BY <1>5, <2>1
<1>10. g = gold[p] - (k + -(a.bid + a.deposit) + Cut(b.bid))
  BY <1>8, <1>9
<1>. HIDE DEF drafts, g, k
<1>11. letters \in SUBSET MailRow  BY <1>7 DEF Brings
<1>. HIDE DEF letters
<1>12. /\ d.gold = [Goal.gold EXCEPT ![p] = g] /\ d.mails = Goal.mails \cup letters
       /\ d.auctions = {x \in Goal.auctions : x.id # a.id}
       /\ d.spent = Goal.spent + Cut(b.bid) /\ d.earned = Goal.earned + purse[p]
  BY <1>6 DEF SaveGold, Spend, DeleteAuction, InsertMails, Tables
<1>. HIDE DEF d
<1>13. Bids(d.auctions) /\ StakesIn(d.auctions) = StakesIn(Goal.auctions) + -(a.bid + a.deposit)
  BY <1>12, StakesNow
<1>14. Posts(d, drafts, k, p, g)
  BY <1>6, <1>7, <1>8, <1>12 DEF Posts, letters
<1>15. -(a.bid + a.deposit) \in Int /\ Cut(b.bid) \in Int  BY <1>3, <1>5
<1>16. Balances(d, drafts, k, p, g, Cut(b.bid), -(a.bid + a.deposit))
  BY <1>1, <1>10, <1>12, <1>13, <1>14, <1>15 DEF Balances
<1>. QED  BY <1>16, HandlerBooks

LEMMA CancelBooks ==
  ASSUME TInv, TypeOK', Good, Books, IsFiniteSet(Players),
         NEW p \in Players, NEW a \in auctions, Cancel(p, a)
  PROVE  Books'
<1>. DEFINE cut == IF a.bidder = None THEN 0 ELSE Cut(a.bid)
            drafts == OutbidMail(a, None) \o <<House(p, a.item, 0)>>
            letters == Stamped(drafts)
            g == ModifyMoney(gold[p], -cut)
            d == DeleteAuction(SaveGold(Spend(InsertMails(Goal, letters), cut + a.deposit), p, g), a)
            m == IF a.bidder = None THEN 0 ELSE a.bid
<1>1. Enqueue(d) /\ Online(p) /\ db' = db /\ gold[p] >= cut
  BY DEF Cancel
<1>2. TypeOK  BY DEF TInv
<1>3. /\ a \in AuctionRow /\ a.item \in aitems /\ a.bid \in Nat /\ a.deposit \in Nat
      /\ a.item \in Items
      /\ Cut(a.bid) \in Nat /\ (a.bidder = None => a.bid = 0)
  BY BooksAuction DEF AuctionRow
<1>4. cut \in Nat /\ m \in Nat /\ m = a.bid
  BY <1>3
<1>. HIDE DEF cut
<1>5. Goal \in Tables /\ d \in Tables
  <2>. HIDE DEF d
  <2>. QED  BY <1>1, <1>2, TablesOfQueue, EnqueuedTables
<1>6. Brings(drafts, m)
  <2>. PICK o : o = OutbidMail(a, None)  OBVIOUS
  <2>1. Brings(<<>> \o o, 0 + m)
    BY <1>2, <1>3, BringsNothing, BringsAuctionMail
  <2>2. o \in Seq(MailRow)
    <3>1. ProperDrafts(o)  BY <1>3, AuctionMailProper
    <3>. QED  BY <3>1 DEF ProperDrafts
  <2>. HIDE DEF m
  <2>3. <<>> \o o = o /\ 0 + m = m /\ m + 0 = m  BY <1>4, <2>2
  <2>4. Brings(o, m)  BY <2>1, <2>3
  <2>5. Brings(o \o <<House(p, a.item, 0)>>, m + 0)
    BY <1>2, <1>3, <2>4, BringsHouse
  <2>. QED  BY <2>3, <2>5
<1>7. g \in Nat /\ g = gold[p] - cut
  BY <1>1, <1>2, <1>4, PlayerNow, PayExact
<1>. HIDE DEF drafts, g, m
<1>8. g = gold[p] - (m + -(a.bid + a.deposit) + (cut + a.deposit))
  BY <1>3, <1>4, <1>7
<1>9. letters \in SUBSET MailRow  BY <1>6 DEF Brings
<1>. HIDE DEF letters
<1>10. /\ d.gold = [Goal.gold EXCEPT ![p] = g] /\ d.mails = Goal.mails \cup letters
       /\ d.auctions = {x \in Goal.auctions : x.id # a.id}
       /\ d.spent = Goal.spent + (cut + a.deposit) /\ d.earned = Goal.earned + purse[p]
  BY <1>5 DEF SaveGold, Spend, DeleteAuction, InsertMails, Tables
<1>. HIDE DEF d
<1>11. Bids(d.auctions) /\ StakesIn(d.auctions) = StakesIn(Goal.auctions) + -(a.bid + a.deposit)
  BY <1>10, StakesNow
<1>12. Posts(d, drafts, m, p, g)
  BY <1>5, <1>6, <1>7, <1>10 DEF Posts, letters
<1>13. -(a.bid + a.deposit) \in Int /\ cut + a.deposit \in Int  BY <1>3, <1>4
<1>14. Balances(d, drafts, m, p, g, cut + a.deposit, -(a.bid + a.deposit))
  BY <1>1, <1>8, <1>10, <1>11, <1>12, <1>13 DEF Balances
<1>. QED  BY <1>14, HandlerBooks

LEMMA ExpireBooks ==
  ASSUME TInv, TypeOK', Good, Books, IsFiniteSet(Players),
         NEW r \in db.auctions, NEW a \in auctions, Expire(r, a)
  PROVE  Books'
<1>. DEFINE drafts == IF a.bidder = None THEN ExpiredMail(a)
                      ELSE SuccessfulMail(a) \o WonMail(a)
            fee == IF a.bidder = None THEN a.deposit ELSE Cut(a.bid)
            letters == Stamped(drafts)
            d == Spend(DeleteAuction(InsertMails(Goal, letters), a), fee)
            m == IF a.bidder = None THEN 0 ELSE a.bid + a.deposit - Cut(a.bid)
<1>1. Enqueue(d) /\ db' = db
  BY DEF Expire
<1>2. TypeOK  BY DEF TInv
<1>3. /\ a \in AuctionRow /\ a.item \in aitems /\ a.bid \in Nat /\ a.deposit \in Nat
      /\ a.owner \in Players
      /\ Cut(a.bid) \in Nat /\ (a.bidder = None => a.bid = 0)
  BY BooksAuction DEF AuctionRow
<1>4. fee \in Int /\ m \in Int /\ m + -(a.bid + a.deposit) + fee = 0
  BY <1>3
<1>5. Goal \in Tables /\ d \in Tables
  <2>. HIDE DEF d
  <2>. QED  BY <1>1, <1>2, TablesOfQueue, EnqueuedTables
<1>6. Brings(drafts, m)
  <2>1. ProperDrafts(ExpiredMail(a)) /\ ProperDrafts(SuccessfulMail(a))
    BY <1>3, AuctionMailProper
  <2>2. <<>> \o ExpiredMail(a) = ExpiredMail(a) /\ <<>> \o SuccessfulMail(a) = SuccessfulMail(a)
    BY <2>1 DEF ProperDrafts
  <2>3. CASE a.bidder = None
    <3>1. Brings(<<>> \o ExpiredMail(a), 0)
      BY <1>2, <1>3, BringsNothing, BringsAuctionMail
    <3>. QED  BY <2>2, <2>3, <3>1
  <2>4. CASE a.bidder # None
    <3>1. Brings(<<>> \o SuccessfulMail(a), 0 + m)
      BY <1>2, <1>3, <2>4, BringsNothing, BringsAuctionMail
    <3>. HIDE DEF m
    <3>2. 0 + m = m  BY <1>4
    <3>3. Brings(SuccessfulMail(a), m)  BY <2>2, <3>1, <3>2
    <3>4. Brings(SuccessfulMail(a) \o WonMail(a), m)
      BY <1>2, <1>3, <2>4, <3>3, BringsAuctionMail
    <3>. QED  BY <2>4, <3>4
  <2>. QED  BY <2>3, <2>4
<1>. HIDE DEF drafts, fee, m
<1>7. letters \in SUBSET MailRow  BY <1>6 DEF Brings
<1>. HIDE DEF letters
<1>. PICK p \in Players : p = a.owner  BY <1>3
<1>. PICK g \in Nat : g = Goal.gold[p]  BY <1>5 DEF Tables
<1>8. /\ d.gold = Goal.gold /\ d.mails = Goal.mails \cup letters
      /\ d.auctions = {x \in Goal.auctions : x.id # a.id}
      /\ d.spent = Goal.spent + fee /\ d.earned = Goal.earned + 0
  <2>1. Goal.earned \in Int  BY <1>5 DEF Tables
  <2>2. d.gold = Goal.gold /\ d.mails = Goal.mails \cup letters
    BY <1>5 DEF Spend, DeleteAuction, InsertMails, Tables
  <2>3. d.auctions = {x \in Goal.auctions : x.id # a.id} /\ d.spent = Goal.spent + fee
    BY <1>5 DEF Spend, DeleteAuction, InsertMails, Tables
  <2>4. d.earned = Goal.earned
    BY <1>5 DEF Spend, DeleteAuction, InsertMails, Tables
  <2>5. d.earned = Goal.earned + 0  BY <2>1, <2>4
  <2>. QED  BY <2>2, <2>3, <2>5
<1>. HIDE DEF d
<1>9. Bids(d.auctions) /\ StakesIn(d.auctions) = StakesIn(Goal.auctions) + -(a.bid + a.deposit)
  BY <1>8, StakesNow
<1>10. Posts(d, drafts, m, p, g)
  <2>1. [Goal.gold EXCEPT ![p] = g] = Goal.gold  BY <1>5 DEF Tables
  <2>. QED  BY <1>5, <1>6, <1>8, <2>1 DEF Posts, letters
<1>. PICK s \in Int : s = -(a.bid + a.deposit)  BY <1>3
<1>11. (g - Goal.gold[p]) - 0 + m + s + fee = 0
  <2>1. g - Goal.gold[p] = 0  OBVIOUS
  <2>. QED  BY <1>4, <2>1
<1>12. BooksOf(d)
  <2>1. fee \in Int /\ s \in Int /\ 0 \in Int  BY <1>4
  <2>2. StakesIn(d.auctions) = StakesIn(Goal.auctions) + s  BY <1>9
  <2>. QED  BY ONLY TInv, Books, IsFiniteSet(Players), <1>8, <1>9, <1>10, <1>11, <2>1, <2>2,
                    PostedBooks
<1>. QED  BY <1>1, <1>2, <1>5, <1>12, EnqueuedBooks

LEMMA SendMailBooks ==
  ASSUME Signed, TInv, TypeOK', Good, Books, IsFiniteSet(Players),
         NEW p \in Players, NEW q \in Players, NEW i \in Items \cup {None},
         NEW money \in Sums, NEW cod \in Sums, SendMail(p, q, i, money, cod)
  PROVE  Books'
<1>. DEFINE x == Draft(p, q, "normal", FALSE, i, money, cod)
            drafts == <<x>>
            letters == Stamped(drafts)
            g == ModifyMoney(gold[p], -(MailCost + money))
            rest == IF i = None THEN Goal ELSE DeleteFromInventory(Goal, i)
            d == SaveGold(Spend(InsertMails(rest, letters), MailCost), p, g)
<1>1. Enqueue(d) /\ Online(p) /\ db' = db /\ gold[p] >= MailCost + money
  BY DEF SendMail
<1>2. TypeOK  BY DEF TInv
<1>3. Goal \in Tables /\ d \in Tables
  <2>. HIDE DEF d
  <2>. QED  BY <1>1, <1>2, TablesOfQueue, EnqueuedTables
<1>4. x \in MailRow /\ x.money = money /\ x.cod < Half /\ money \in Nat /\ MailCost \in Nat
  <2>1. money \in Nat /\ cod \in Nat /\ MailCost \in Nat  BY Constants
  <2>2. x \in MailRow /\ x.money = money /\ x.cod = cod
    BY <2>1 DEF Draft, MailRow
  <2>. QED  BY <2>1, <2>2 DEF Signed
<1>. HIDE DEF x
<1>5. Brings(drafts, money)
  <2>1. Brings(<<>> \o <<x>>, 0 + x.money)
    BY <1>2, <1>4, BringsNothing, BringsMore
  <2>2. 0 + x.money = money /\ <<>> \o <<x>> = <<x>>  BY <1>4
  <2>. QED  BY <2>1, <2>2
<1>6. g \in Nat /\ g = gold[p] - (MailCost + money)
  BY <1>1, <1>2, <1>4, PlayerNow, PayExact
<1>. HIDE DEF drafts, g
<1>7. letters \in SUBSET MailRow  BY <1>5 DEF Brings
<1>. HIDE DEF letters
<1>8. /\ rest \in Tables /\ rest.gold = Goal.gold /\ rest.mails = Goal.mails
      /\ rest.auctions = Goal.auctions /\ rest.spent = Goal.spent /\ rest.earned = Goal.earned
  <2>1. i # None => i \in Items  OBVIOUS
  <2>. QED  BY <1>3, <2>1 DEF DeleteFromInventory, Tables
<1>. HIDE DEF rest
<1>9. /\ d.gold = [Goal.gold EXCEPT ![p] = g] /\ d.mails = Goal.mails \cup letters
      /\ d.auctions = Goal.auctions
      /\ d.spent = Goal.spent + MailCost /\ d.earned = Goal.earned + purse[p]
  BY <1>7, <1>8 DEF SaveGold, Spend, InsertMails, Tables
<1>. HIDE DEF d
<1>10. Bids(d.auctions) /\ StakesIn(d.auctions) = StakesIn(Goal.auctions) + 0
  <2>1. Bids(Goal.auctions) /\ Counted(Goal)  BY BooksNow DEF BooksOf
  <2>. QED  BY <1>9, <2>1, WorthParts
<1>11. Posts(d, drafts, money, p, g)
  BY <1>3, <1>5, <1>6, <1>9 DEF Posts, letters
<1>12. g = gold[p] - (money + 0 + MailCost)
  BY <1>4, <1>6
<1>13. Balances(d, drafts, money, p, g, MailCost, 0)
  BY <1>1, <1>4, <1>9, <1>10, <1>11, <1>12 DEF Balances
<1>. QED  BY <1>13, HandlerBooks

\* The new letters are not among the old.
LEMMA NewLettersApart ==
  ASSUME TInv, Books, IsFiniteSet(Players), NEW drafts, NEW n, Brings(drafts, n)
  PROVE  Stamped(drafts) \cap Goal.mails = {}
<1>1. Counted(Goal)  BY BooksNow
<1>2. Goal \in Durable /\ IdsFresh /\ nextMail \in Nat
  BY TablesOfQueue, NumbersFresh, TypeOKParts DEF TInv, CountTypes
<1>3. \A m \in Goal.mails : m.id < nextMail /\ m.id \in Int
  BY <1>1, <1>2 DEF IdsFresh, Counted, Tables, MailRow
<1>4. ASSUME NEW m \in Stamped(drafts), m \in Goal.mails PROVE FALSE
  <2>1. nextMail <= m.id  BY DEF Brings
  <2>. QED  BY <1>2, <1>3, <1>4, <2>1
<1>. QED  BY <1>4

LEMMA ReturnToSenderBooks ==
  ASSUME TInv, TypeOK', Good, Books, IsFiniteSet(Players),
         NEW p \in Players, NEW e \in box[p], ReturnToSender(p, e)
  PROVE  Books'
<1>. DEFINE m == e.mail
            x == Draft(m.to, m.from, "normal", TRUE, m.item, m.money, 0)
            drafts == <<x>>
            letters == Stamped(drafts)
            d0 == DeleteMails(Goal, {m.id})
            rest == Spend(d0, -m.money)
            d == InsertMails(rest, letters)
<1>1. Enqueue(d) /\ db' = db /\ m.kind = "normal"
  BY DEF ReturnToSender
<1>. PICK kinds : ProperState(kinds)  BY DEF TInv
<1>2. TypeOK  BY DEF TInv
<1>3. ProperMail(m, kinds, nextMail)
  BY <1>2, ProperNow, BoxProper DEF ProperBox
<1>4. /\ m \in MailRow /\ m.from \in Players /\ m.to \in Players /\ m.item \in Items \cup {None}
      /\ m.money \in Nat
  BY <1>1, <1>3 DEF ProperMail, MailRow
<1>. HIDE DEF m
<1>5. x \in MailRow /\ x.money = m.money /\ x.cod < Half
  <2>1. x \in MailRow /\ x.money = m.money /\ x.cod = 0
    BY <1>4 DEF Draft, MailRow
  <2>2. 0 < Half  BY TablesAssumption
  <2>. HIDE DEF x
  <2>. QED  BY <2>1, <2>2
<1>. HIDE DEF x
<1>6. Brings(drafts, m.money)
  <2>1. Brings(<<>> \o <<x>>, 0 + x.money)
    BY <1>2, <1>5, BringsNothing, BringsMore
  <2>2. 0 + x.money = m.money /\ <<>> \o <<x>> = <<x>>  BY <1>4, <1>5
  <2>. QED  BY <2>1, <2>2
<1>. HIDE DEF drafts
<1>7. letters \cap Goal.mails = {} /\ letters \in SUBSET MailRow /\ IsFiniteSet(letters)
      /\ MoneyIn(letters) = m.money /\ Cods(letters)
  BY <1>6, NewLettersApart DEF Brings
<1>. HIDE DEF letters
<1>8. Counted(Goal) /\ BooksOf(Goal)  BY BooksNow
<1>9. Counted(d0) /\ Worth(d0) = Worth(Goal)
  BY <1>8, DeleteMailsWorth
<1>10. d0.mails \subseteq Goal.mails /\ d0.auctions = Goal.auctions
  BY <1>8, Columns DEF Counted
<1>. HIDE DEF d0
<1>11. Counted(rest) /\ Worth(rest) = Worth(Goal) + -m.money
  <2>. PICK k \in Int : k = -m.money  BY <1>4
  <2>1. rest = Spend(d0, k)  OBVIOUS
  <2>. HIDE DEF rest
  <2>2. Counted(rest) /\ Worth(rest) = Worth(d0) + k
    BY <1>9, <2>1, SpendWorth
  <2>. QED  BY <1>9, <2>2
<1>12. rest.mails = d0.mails /\ rest.auctions = d0.auctions
  BY <1>9, Columns DEF Counted
<1>. HIDE DEF rest
<1>13. Counted(d) /\ Worth(d) = Worth(rest) + MoneyIn(letters)
  <2>1. letters \cap rest.mails = {}  BY <1>7, <1>10, <1>12
  <2>. HIDE DEF d
  <2>2. d = InsertMails(rest, letters)  BY DEF d
  <2>. QED  BY ONLY <1>7, <1>11, <2>1, <2>2, InsertMailsWorth
<1>14. d.mails = rest.mails \cup letters /\ d.auctions = rest.auctions
  BY <1>11, Columns DEF Counted
<1>. HIDE DEF d
<1>15. Worth(d) = Worth(Goal)
  <2>1. Worth(Goal) \in Int  BY <1>8, WorthParts
  <2>. QED  BY <1>4, <1>7, <1>11, <1>13, <2>1
<1>16. Bids(d.auctions) /\ Cods(d.mails)
  BY <1>7, <1>8, <1>10, <1>12, <1>14 DEF BooksOf, Bids, Cods
<1>17. BooksOf(d)  BY <1>8, <1>15, <1>16 DEF BooksOf
<1>18. d \in Tables  BY <1>13 DEF Counted
<1>. QED  BY <1>1, <1>2, <1>17, <1>18, EnqueuedBooks

LEMMA ReturnToHouseBooks ==
  ASSUME TInv, Good, Books, IsFiniteSet(Players),
         NEW p \in Players, NEW e \in box[p], ReturnToHouse(p, e)
  PROVE  Books'
<1>. DEFINE gone == {e.mail.item} \ {None}
            d0 == DeleteMails(Goal, {e.mail.id})
            d == LoseItems(d0, gone)
<1>1. Enqueue(d) /\ db' = db
  BY DEF ReturnToHouse
<1>. PICK kinds : ProperState(kinds)  BY DEF TInv
<1>2. TypeOK  BY DEF TInv
<1>3. ProperMail(e.mail, kinds, nextMail)
  BY <1>2, ProperNow, BoxProper DEF ProperBox
<1>4. gone \in SUBSET Items
  BY <1>3 DEF ProperMail, MailRow
<1>. HIDE DEF gone
<1>5. Counted(Goal) /\ BooksOf(Goal)  BY BooksNow
<1>6. Counted(d0) /\ Worth(d0) = Worth(Goal)
  BY <1>5, DeleteMailsWorth
<1>7. d0.mails \subseteq Goal.mails /\ d0.auctions = Goal.auctions
  BY <1>5, Columns DEF Counted
<1>. HIDE DEF d0
<1>8. Counted(d) /\ Worth(d) = Worth(d0) /\ d.mails = d0.mails /\ d.auctions = d0.auctions
  BY <1>4, <1>6, LoseItemsWorth
<1>. HIDE DEF d
<1>9. Bids(d.auctions) /\ Cods(d.mails)
  BY <1>5, <1>7, <1>8 DEF BooksOf, Bids, Cods
<1>10. BooksOf(d)  BY <1>5, <1>6, <1>8, <1>9 DEF BooksOf
<1>11. d \in Tables  BY <1>8 DEF Counted
<1>. QED  BY <1>1, <1>2, <1>10, <1>11, EnqueuedBooks

\* A mailbox is saved to the tables r, which the letters U are about to change.
Writes(r, b, n) ==
  /\ Counted(r) /\ Bids(r.auctions) /\ Cods(r.mails) /\ Cods(In(b, "changed")) /\ n \in Int
  /\ \/ In(b, "changed") = {} /\ n = 0
     \/ \E m \in r.mails, l \in MailRow :
          In(b, "changed") = {l} /\ l.id = m.id /\ Fits(l.money) /\ n = l.money - m.money
  /\ Worth(r) = Worth(Goal) + -n

LEMMA SavedBooks ==
  ASSUME TInv, TypeOK', Good, Books, IsFiniteSet(Players), NEW p \in Players, NEW i,
         NEW b, Edited(b, p, i), NEW letters, NEW r, Based(r, letters, i),
         NEW n, Writes(r, b, n), NEW d, d = SaveMails(r, b), Enqueue(d), db' = db
  PROVE  Books'
<1>. PICK U : U = In(b, "changed")  OBVIOUS
<1>. PICK D : D = In(b, "deleted")  OBVIOUS
<1>1. /\ Counted(r) /\ Bids(r.auctions) /\ Cods(r.mails) /\ Cods(U) /\ n \in Int
      /\ \/ U = {} /\ n = 0
         \/ \E m \in r.mails, l \in MailRow :
              U = {l} /\ l.id = m.id /\ Fits(l.money) /\ n = l.money - m.money
      /\ Worth(r) = Worth(Goal) + -n
  BY DEF Writes
<1>2. TypeOK  BY DEF TInv
<1>3. d = SaveLetters(r, U, D)
  BY DEF SaveMails, SaveLetters
<1>4. r \in Tables /\ UniqueIds(r)
  BY DEF Based, GoodBut
<1>5. LettersOf(r, U, D, i)
  BY <1>2, EditedLetters
<1>6. Counted(d) /\ Worth(d) = Worth(r) + n
  BY ONLY <1>1, <1>3, <1>4, SaveLettersWorth
<1>7. /\ \A y \in d.mails : y \in r.mails \/ y \in U
      /\ d.auctions = r.auctions
  <2>. HIDE DEF LettersOf
  <2>1. /\ \A y \in d.mails : \/ y \in r.mails /\ \A l \in U \cup D : l.id # y.id
                              \/ y \in U
        /\ d.auctions = r.auctions
    BY ONLY <1>3, <1>4, <1>5, SavedRows
  <2>. QED  BY <2>1
<1>8. BooksOf(Goal) /\ Worth(Goal) \in Int
  BY BooksNow, WorthParts
<1>9. Worth(d) = Worth(Goal)
  BY <1>1, <1>6, <1>8
<1>10. Cods(d.mails)  BY <1>1, <1>7 DEF Cods
<1>11. BooksOf(d)  BY <1>1, <1>7, <1>8, <1>9, <1>10 DEF BooksOf
<1>12. d \in Tables  BY <1>6 DEF Counted
<1>. QED  BY <1>2, <1>11, <1>12, EnqueuedBooks

\* The money of p is saved, with letters sent, before the mailbox is.
LEMMA PaidFirst ==
  ASSUME TInv, Good, Books, IsFiniteSet(Players), NEW d, NEW drafts, NEW n, NEW p, NEW g,
         Posts(d, drafts, n, p, g), Online(p), d.auctions = Goal.auctions,
         d.earned = Goal.earned + purse[p], d.spent = Goal.spent
  PROVE  /\ Counted(d) /\ Bids(d.auctions) /\ Cods(d.mails)
         /\ \A k \in Int : k = (g - gold[p]) + n => Worth(d) = Worth(Goal) + k
<1>1. BooksOf(Goal) /\ Counted(Goal)  BY BooksNow
<1>2. Bids(d.auctions)  BY <1>1 DEF BooksOf
<1>3. TypeOK /\ p \in Players /\ g \in Nat /\ n \in Int
  BY DEF TInv, Posts, Brings
<1>4. /\ gold[p] = Goal.gold[p] + purse[p] /\ gold[p] \in Nat /\ purse[p] \in Nat
      /\ Goal.gold[p] \in Nat
  BY <1>3, OnlineGold
<1>. PICK e \in Int : e = purse[p]  BY <1>4
<1>5. /\ StakesIn(d.auctions) = StakesIn(Goal.auctions) + 0 /\ d.spent = Goal.spent + 0
      /\ d.earned = Goal.earned + e
  BY <1>1, WorthParts
<1>. PICK z \in Int : z = 0  OBVIOUS
<1>6. /\ Counted(d) /\ Cods(d.mails)
      /\ \A k \in Int : k = (g - Goal.gold[p]) - e + n + z + z => Worth(d) = Worth(Goal) + k
  <2>1. StakesIn(d.auctions) = StakesIn(Goal.auctions) + z /\ d.spent = Goal.spent + z
    BY <1>5
  <2>2. Posts(d, drafts, n, p, g)  OBVIOUS
  <2>. QED  BY ONLY TInv, Books, IsFiniteSet(Players), e \in Int, z \in Int, <1>2, <1>5, <2>1, <2>2,
                    PostedWorth
<1>7. ASSUME NEW k \in Int, k = (g - gold[p]) + n
      PROVE  k = (g - Goal.gold[p]) - e + n + z + z
  BY <1>3, <1>4, <1>7
<1>. QED  BY <1>2, <1>6, <1>7

\* What has changed in a mailbox.
LEMMA ChangedOnly ==
  ASSUME Good, NEW p \in Players
  PROVE  /\ In(box[p], "changed") = {}
         /\ \A e, f : f.state = "changed" => In(Replace(box[p], e, f), "changed") = {f.mail}
<1>1. \A x \in box[p] : x.state # "changed"
  BY DEF Good, BoxGood
<1>. QED  BY <1>1 DEF In, Replace

LEMMA SaveBooks ==
  ASSUME TInv, TypeOK', Good, Books, IsFiniteSet(Players),
         NEW p \in Players, NEW leaves \in BOOLEAN, Save(p, leaves)
  PROVE  Books'
<1>. DEFINE b == box[p]
            r == SaveGold(Goal, p, gold[p])
            d == SaveMails(r, b)
<1>1. Enqueue(d) /\ Online(p) /\ db' = db
  BY DEF Save
<1>. PICK kinds : ProperState(kinds)  BY DEF TInv
<1>2. TypeOK  BY DEF TInv
<1>3. gold[p] \in Nat  BY <1>2, PlayerNow
<1>4. Edited(b, p, None) /\ In(b, "changed") = {}
  BY <1>2, EditedNow, ChangedOnly
<1>5. Based(r, {}, None)
  BY <1>2, <1>3, GoldSaved
<1>6. Goal \in Tables /\ r \in Tables
  BY <1>2, <1>3, TablesOfQueue, SaveGoldTables
<1>7. /\ r.gold = [Goal.gold EXCEPT ![p] = gold[p]] /\ r.mails = Goal.mails
      /\ r.auctions = Goal.auctions /\ r.spent = Goal.spent /\ r.earned = Goal.earned + purse[p]
  BY <1>6 DEF SaveGold, Tables
<1>. HIDE DEF r, b
<1>8. Posts(r, <<>>, 0, p, gold[p])
  <2>1. Stamped(<<>>) = {}  BY DEF Stamped
  <2>. QED  BY <1>3, <1>6, <1>7, <2>1, BringsNothing DEF Posts
<1>9. /\ Counted(r) /\ Bids(r.auctions) /\ Cods(r.mails)
      /\ \A k \in Int : k = (gold[p] - gold[p]) + 0 => Worth(r) = Worth(Goal) + k
  BY <1>1, <1>7, <1>8, PaidFirst
<1>10. Writes(r, b, 0)
  <2>1. Worth(r) = Worth(Goal) + -0  BY <1>3, <1>9
  <2>. QED  BY <1>4, <1>9, <2>1 DEF Writes, Cods
<1>. HIDE DEF d
<1>. QED  BY <1>1, <1>4, <1>5, <1>10, SavedBooks DEF d

LEMMA TakeMoneyBooks ==
  ASSUME TInv, TypeOK', Good, Books, IsFiniteSet(Players),
         NEW p \in Players, NEW e \in box[p], TakeMoney(p, e)
  PROVE  Books'
<1>. DEFINE g == ModifyMoney(gold[p], e.mail.money)
            f == [mail |-> [e.mail EXCEPT !.money = 0], state |-> "changed"]
            b == Replace(box[p], e, f)
            r == SaveGold(Goal, p, g)
            d == SaveMails(r, b)
<1>1. Enqueue(d) /\ Online(p) /\ db' = db /\ e.mail.money > 0 /\ ~TooMuch(gold[p], e.mail.money)
  BY DEF TakeMoney, MailsLoaded, Online
<1>. PICK kinds : ProperState(kinds)  BY DEF TInv
<1>2. TypeOK  BY DEF TInv
<1>3. PICK row \in Goal.mails :
        /\ e.mail = View(Goal, row) /\ row.id = e.mail.id /\ row.to = p /\ row \in MailRow
        /\ Fits(row.cod) /\ e.mail.cod = row.cod /\ e.mail.money = row.money
  BY <1>2, EntryRow
<1>4. Goal \in Tables /\ e.mail = [row EXCEPT !.item = e.mail.item] /\ e.mail.item \in Items \cup {None}
  <2>1. Goal \in Tables  BY <1>2, TablesOfQueue
  <2>. QED  BY <1>3, <2>1, ViewFacts DEF MailRow
<1>5. /\ f \in Entries /\ f.state = "changed" /\ f.mail.id = e.mail.id /\ f.mail \in MailRow
      /\ f.mail.money = 0 /\ f.mail.cod = row.cod /\ Changed(Goal, row, f.mail, None)
  BY <1>3, <1>4 DEF Entries, MailRow, Changed
<1>6. row.money \in Nat /\ gold[p] \in Nat
  BY <1>2, <1>3, PlayerNow DEF MailRow
<1>7. g = gold[p] + row.money /\ g \in Nat
  BY <1>1, <1>3, <1>6, PayExact
<1>. HIDE DEF f, g
<1>8. Fits(0)  BY TablesAssumption DEF Fits
<1>9. Edited(b, p, None) /\ In(b, "changed") = {f.mail}
  <2>1. Edited(b, p, None)
    BY <1>2, <1>3, <1>5, <1>8, EditedNow
  <2>2. In(b, "changed") = {f.mail}
    BY <1>5, ChangedOnly
  <2>. QED  BY <2>1, <2>2
<1>. HIDE DEF b
<1>10. Based(r, {}, None)
  BY <1>2, <1>7, GoldSaved
<1>11. r \in Tables
  BY <1>2, <1>4, <1>7, SaveGoldTables
<1>12. /\ r.gold = [Goal.gold EXCEPT ![p] = g] /\ r.mails = Goal.mails
       /\ r.auctions = Goal.auctions /\ r.spent = Goal.spent /\ r.earned = Goal.earned + purse[p]
  BY <1>4 DEF SaveGold, Tables
<1>. HIDE DEF r
<1>13. Posts(r, <<>>, 0, p, g)
  <2>1. Stamped(<<>>) = {}  BY DEF Stamped
  <2>. QED  BY <1>7, <1>11, <1>12, <2>1, BringsNothing DEF Posts
<1>14. /\ Counted(r) /\ Bids(r.auctions) /\ Cods(r.mails)
       /\ \A k \in Int : k = (g - gold[p]) + 0 => Worth(r) = Worth(Goal) + k
  BY <1>1, <1>12, <1>13, PaidFirst
<1>15. Writes(r, b, 0 - row.money)
  <2>. PICK n \in Int : n = 0 - row.money  BY <1>6
  <2>1. Worth(r) = Worth(Goal) + -n
    <3>1. -n \in Int /\ -n = (g - gold[p]) + 0  BY <1>6, <1>7
    <3>. QED  BY <1>14, <3>1
  <2>2. row.cod < Half  BY <1>12, <1>14 DEF Cods
  <2>3. Cods({f.mail})  BY <1>5, <2>2 DEF Cods
  <2>4. \E m \in r.mails, l \in MailRow :
          {f.mail} = {l} /\ l.id = m.id /\ Fits(l.money) /\ n = l.money - m.money
    BY <1>3, <1>5, <1>8, <1>12
  <2>. QED  BY <1>9, <1>14, <2>1, <2>3, <2>4 DEF Writes
<1>. HIDE DEF d
<1>. QED  BY <1>1, <1>9, <1>10, <1>15, SavedBooks DEF d

LEMMA TakeItemBooks ==
  ASSUME TInv, TypeOK', Good, Books, IsFiniteSet(Players),
         NEW p \in Players, NEW e \in box[p], TakeItem(p, e)
  PROVE  Books'
<1>. DEFINE m == e.mail
            i == m.item
            drafts == Payment(p, m)
            letters == Stamped(drafts)
            g == ModifyMoney(gold[p], -Int32(m.cod))
            taken == [mail |-> [m EXCEPT !.item = None, !.cod = 0], state |-> "changed"]
            b == Replace(box[p], e, taken)
            r == SaveGold(PutInInventory(InsertMails(Goal, letters), p, i), p, g)
            d == SaveMails(r, b)
<1>1. Enqueue(d) /\ Online(p) /\ db' = db /\ i # None /\ gold[p] >= m.cod
  BY DEF TakeItem, MailsLoaded, Online
<1>. PICK kinds : ProperState(kinds)  BY DEF TInv
<1>2. TypeOK /\ IdsFresh  BY NumbersFresh DEF TInv
<1>3. PICK row \in Goal.mails :
        /\ m = View(Goal, row) /\ row.id = m.id /\ row \in MailRow
        /\ Fits(row.money) /\ m.money = row.money /\ m.cod = row.cod
        /\ i = row.item /\ i \in Goal.items
  BY <1>1, <1>2, EntryRow
<1>4. m \in MailRow /\ m = row
  BY <1>3 DEF View
<1>5. ProperMail(m, kinds, nextMail)
  BY <1>2, ProperNow, BoxProper DEF ProperBox
<1>6. BooksOf(Goal) /\ Counted(Goal)  BY BooksNow
<1>7. m.cod \in Nat /\ m.money \in Nat /\ m.cod < Half /\ Int32(m.cod) = m.cod
  BY <1>3, <1>4, <1>6, Int32Facts DEF MailRow, BooksOf, Cods
<1>8. g \in Nat /\ g = gold[p] - m.cod
  <2>1. gold[p] \in Nat  BY <1>2, PlayerNow
  <2>. HIDE DEF m
  <2>. QED  BY <1>1, <1>7, <2>1, PayExact
<1>. HIDE DEF g
<1>9. /\ Edited(b, p, i) /\ Based(r, letters, i)
      /\ r.gold = [Goal.gold EXCEPT ![p] = g] /\ r.mails = Goal.mails \cup letters /\ r \in Tables
      /\ r.spent = Goal.spent /\ r.earned = Goal.earned + purse[p]
  <2>1. /\ letters = Stamped(Payment(p, e.mail)) /\ e.mail.item # None /\ i = e.mail.item
        /\ r = SaveGold(PutInInventory(InsertMails(Goal, letters), p, i), p, g)
        /\ b = Replace(box[p], e, [mail |-> [e.mail EXCEPT !.item = None, !.cod = 0],
                                   state |-> "changed"])
    BY <1>1
  <2>. HIDE DEF letters, r, b, i
  <2>2. TakenTo(p, i, g, letters, r, b)
    BY <1>2, <1>8, <2>1, TakenTables
  <2>. QED  BY <2>2 DEF TakenTo
<1>10. /\ taken.state = "changed" /\ taken.mail.id = row.id /\ taken.mail \in MailRow
       /\ taken.mail.money = row.money /\ taken.mail.cod = 0
  BY <1>3, <1>4 DEF MailRow
<1>. HIDE DEF m, taken
<1>11. In(b, "changed") = {taken.mail}
  BY <1>10, ChangedOnly
<1>12. Brings(drafts, m.cod)
  <2>1. CASE m.cod > 0
    <3>. DEFINE x == Draft(p, m.from, "normal", TRUE, None, m.cod, 0)
    <3>1. m.from \in Players  BY <1>4, <1>5, <2>1 DEF ProperMail, MailRow
    <3>2. x \in MailRow /\ x.money = m.cod /\ x.cod = 0
      BY <1>7, <3>1 DEF Draft, MailRow
    <3>3. 0 < Half  BY TablesAssumption
    <3>4. drafts = <<x>>  BY <2>1 DEF Payment
    <3>. HIDE DEF x, drafts
    <3>5. Brings(<<>> \o <<x>>, 0 + x.money)
      BY <1>2, <3>2, <3>3, BringsNothing, BringsMore
    <3>6. 0 + x.money = m.cod /\ <<>> \o <<x>> = <<x>>  BY <1>7, <3>2
    <3>. QED  BY <3>4, <3>5, <3>6
  <2>2. CASE ~(m.cod > 0)
    <3>1. m.cod = 0  BY <1>7, <2>2
    <3>. QED  BY <2>2, <3>1, BringsNothing DEF Payment
  <2>. QED  BY <2>1, <2>2
<1>. HIDE DEF drafts, b, r, i
<1>13. r.auctions = Goal.auctions  BY <1>9 DEF Based
<1>14. Posts(r, drafts, m.cod, p, g)
  BY <1>8, <1>9, <1>12 DEF Posts
<1>15. /\ Counted(r) /\ Bids(r.auctions) /\ Cods(r.mails)
       /\ \A k \in Int : k = (g - gold[p]) + m.cod => Worth(r) = Worth(Goal) + k
  <2>. PICK n : n = m.cod  OBVIOUS
  <2>1. Posts(r, drafts, n, p, g)  BY <1>14
  <2>. PICK s : s = r  OBVIOUS
  <2>2. /\ Posts(s, drafts, n, p, g) /\ Online(p) /\ s.auctions = Goal.auctions
        /\ s.earned = Goal.earned + purse[p] /\ s.spent = Goal.spent
    BY <1>1, <1>9, <1>13, <2>1
  <2>3. /\ Counted(s) /\ Bids(s.auctions) /\ Cods(s.mails)
        /\ \A k \in Int : k = (g - gold[p]) + n => Worth(s) = Worth(Goal) + k
    BY <2>2, PaidFirst
  <2>. QED  BY <2>3
<1>. PICK n \in Int : n = 0  OBVIOUS
<1>16. Writes(r, b, n)
  <2>1. Worth(r) = Worth(Goal) + -n
    <3>1. gold[p] \in Nat  BY <1>2, PlayerNow
    <3>2. -n = (g - gold[p]) + m.cod /\ -n \in Int  BY <1>7, <1>8, <3>1
    <3>. QED  BY <1>15, <3>2
  <2>2. Cods({taken.mail})
    <3>1. 0 < Half  BY TablesAssumption
    <3>. QED  BY <1>10, <3>1 DEF Cods
  <2>3. row \in r.mails /\ n = taken.mail.money - row.money
    BY <1>3, <1>9, <1>10 DEF MailRow
  <2>4. \E x \in r.mails, l \in MailRow :
          {taken.mail} = {l} /\ l.id = x.id /\ Fits(l.money) /\ n = l.money - x.money
    BY <1>3, <1>10, <2>3
  <2>. QED  BY <1>11, <1>15, <2>1, <2>2, <2>4 DEF Writes
<1>. HIDE DEF d, letters
<1>. QED  BY <1>1, <1>9, <1>16, SavedBooks DEF d

LEMMA ReturnOrDeleteOldMailBooks ==
  ASSUME TInv, TypeOK', Good, Books, IsFiniteSet(Players),
         NEW m \in db.mails, ReturnOrDeleteOldMail(m), ~crossed'
  PROVE  Books'
<1>. DEFINE emptied == IF m.item = None THEN Goal ELSE DeleteItems(Goal, {m.item})
            d == DeleteMails(emptied, {m.id})
            gone == Task(d, None)
            first == Task(emptied, None)
<1>1. /\ m \in Goal.mails /\ db' = db
      /\ \/ m.kind = "normal" /\ Enqueue(ReturnMail(Goal, m))
         \/ m.item = None /\ queue' = Append(queue, gone)
         \/ m.item # None /\ queue' = queue \o <<first, gone>>
  BY DEF ReturnOrDeleteOldMail, Meets
<1>. PICK kinds : ProperState(kinds)  BY DEF TInv
<1>2. TypeOK  BY DEF TInv
<1>3. ProperMail(m, kinds, nextMail)
  BY <1>1, <1>2, ProperNow DEF Proper
<1>4. BooksOf(Goal) /\ Counted(Goal) /\ UniqueIds(Goal) /\ Goal \in Tables
  BY <1>2, BooksNow, GoodNow
<1>5. CASE m.kind = "normal" /\ Enqueue(ReturnMail(Goal, m))
  <2>. PICK r : r = ReturnMail(Goal, m)  OBVIOUS
  <2>1. m.from \in Players  BY <1>3, <1>5 DEF ProperMail
  <2>2. Counted(r) /\ Worth(r) = Worth(Goal)
    BY <1>1, <1>4, <2>1, ReturnMailWorth
  <2>3. r.auctions = Goal.auctions  BY <1>4, MoreColumns
  <2>4. Cods(r.mails)
    <3>1. ASSUME NEW y \in r.mails PROVE y.cod < Half
      <4>1. y \in Goal.mails \/ \E x \in Goal.mails : y = Returned(x, m)
        BY <1>4, ReturnedRows
      <4>2. CASE y \in Goal.mails  BY <1>4, <4>2 DEF BooksOf, Cods
      <4>3. CASE \E x \in Goal.mails : y = Returned(x, m)
        <5>1. PICK x \in Goal.mails : y = Returned(x, m)  BY <4>3
        <5>2. x \in MailRow  BY <1>4 DEF Tables
        <5>3. y.cod = 0  BY <5>1, <5>2 DEF Returned, MailRow
        <5>4. 0 < Half  BY TablesAssumption
        <5>. QED  BY <5>3, <5>4
      <4>. QED  BY <4>1, <4>2, <4>3
    <3>. QED  BY <3>1 DEF Cods
  <2>5. BooksOf(r)  BY <1>4, <2>2, <2>3, <2>4 DEF BooksOf
  <2>6. r \in Tables  BY <2>2 DEF Counted
  <2>. QED  BY <1>1, <1>2, <1>5, <2>5, <2>6, EnqueuedBooks
<1>6. CASE ~(m.kind = "normal" /\ Enqueue(ReturnMail(Goal, m)))
  <2>1. /\ Counted(emptied) /\ Worth(emptied) = Worth(Goal)
        /\ emptied.mails = Goal.mails /\ emptied.auctions = Goal.auctions
    <3>1. CASE m.item = None  BY <1>4, <3>1
    <3>2. CASE m.item # None
      <4>1. emptied = DeleteItems(Goal, {m.item})  BY <3>2
      <4>. HIDE DEF emptied
      <4>. QED  BY <1>4, <4>1, DeleteItemsWorth
    <3>. QED  BY <3>1, <3>2
  <2>. HIDE DEF emptied
  <2>2. Counted(d) /\ Worth(d) = Worth(emptied)
    BY <2>1, DeleteMailsWorth
  <2>3. d.mails \subseteq emptied.mails /\ d.auctions = emptied.auctions
    BY <2>1, Columns DEF Counted
  <2>. HIDE DEF d
  <2>4. BooksOf(emptied) /\ BooksOf(d)
    BY <1>4, <2>1, <2>2, <2>3 DEF BooksOf, Cods
  <2>5. first \in Tasks /\ gone \in Tasks /\ first.db = emptied /\ gone.db = d
    BY <2>1, <2>2 DEF Tasks, Task, Counted
  <2>6. queue' = Append(queue, gone) \/ queue' = queue \o <<first, gone>>
    BY <1>1, <1>6 DEF d, emptied
  <2>. HIDE DEF first, gone
  <2>7. \A x \in Durable' : x \in Durable \/ x \in {emptied, d}
    BY <1>1, <1>2, <2>5, <2>6, AppendedTask, AppendedTwo
  <2>. QED  BY <2>4, <2>7 DEF Books
<1>. QED  BY <1>5, <1>6

LEMMA QuietBooks ==
  ASSUME Books, \A d \in Durable' : d \in Durable
  PROVE  Books'
BY DEF Books

LEMMA LoginBooks ==
  ASSUME TInv, Books, NEW p \in Players, Login(p)
  PROVE  Books'
<1>1. TypeOK /\ db' = db /\ queue' = Append(queue, Task(Goal, p))
  BY DEF TInv, Login
<1>2. Goal \in Durable /\ Goal \in Tables  BY <1>1, TablesOfQueue
<1>3. Task(Goal, p) \in Tasks /\ Task(Goal, p).db = Goal
  BY <1>2 DEF Tasks, Task
<1>4. Durable' = Durable \cup {Goal}
  BY <1>1, <1>3, AppendedTask
<1>. QED  BY <1>2, <1>4, QuietBooks

LEMMA CrashBooks ==
  ASSUME Books, Crash
  PROVE  Books'
<1>1. db' = db /\ queue' = <<>>  BY DEF Crash
<1>2. Durable' = {db}  BY <1>1 DEF Durable
<1>. QED  BY <1>2, QuietBooks DEF Durable

LEMMA SameBooks ==
  ASSUME Books, db' = db, queue' = queue
  PROVE  Books'
BY QuietBooks DEF Durable

\* Everybody has the same.
LEMMA GoldOfAll ==
  ASSUME IsFiniteSet(Players), NEW n \in Nat
  PROVE  GoldIn([p \in Players |-> n]) = Cardinality(Players) * n
<1>. PICK v : v = [p \in Players |-> n]  OBVIOUS
<1>1. \A p \in Players : v[p] = n  OBVIOUS
<1>2. GoldIn(v) = SumOver(v, Players)  BY <1>1, GoldInIsSum
<1>. DEFINE Bad == {t \in SUBSET Players : SumOver(v, t) # Cardinality(t) * n}
<1>3. Bad = {}
  <2>1. SUFFICES ASSUME Bad # {} PROVE FALSE  OBVIOUS
  <2>2. PICK t \in Bad : \A u \in Bad : Cardinality(t) <= Cardinality(u)
    BY <2>1, SmallestSubset
  <2>3. IsFiniteSet(t) /\ \A x \in t : v[x] \in Int
    BY <1>1, FS_Subset
  <2>4. CASE t = {}
    <3>1. SumOver(v, t) = 0  BY <2>3, <2>4, SumOverFacts
    <3>2. Cardinality(t) = 0  BY <2>4, FS_EmptySet
    <3>. QED  BY <3>1, <3>2
  <2>5. CASE t # {}
    <3>1. PICK x \in t : TRUE  BY <2>5
    <3>. PICK s : s = t \ {x}  OBVIOUS
    <3>2. IsFiniteSet(s) /\ Cardinality(s) = Cardinality(t) - 1 /\ Cardinality(t) \in Nat
      BY <2>3, FS_RemoveElement, FS_CardinalityType
    <3>3. s \in SUBSET Players /\ ~(Cardinality(t) <= Cardinality(s))
      BY <3>2
    <3>4. SumOver(v, s) = Cardinality(s) * n  BY <2>2, <3>3
    <3>5. SumOver(v, t) = v[x] + SumOver(v, s)  BY <2>3, SumOverFacts
    <3>6. v[x] = n  BY <1>1
    <3>. PICK k \in Nat : k = Cardinality(t)  BY <3>2
    <3>7. n + (k - 1) * n = k * n  OBVIOUS
    <3>8. SumOver(v, t) = Cardinality(t) * n  BY <3>2, <3>4, <3>5, <3>6, <3>7
    <3>. QED  BY <3>8
  <2>. QED  BY <2>4, <2>5
<1>. QED  BY <1>2, <1>3

LEMMA InitBooks ==
  ASSUME IsFiniteSet(Players), Init
  PROVE  Books
<1>1. /\ db.gold = [p \in Players |-> Start] /\ db.mails = {} /\ db.auctions = {}
      /\ db.earned = 0 /\ db.spent = 0 /\ queue = <<>>
  BY DEF Init
<1>2. Durable = {db}  BY <1>1 DEF Durable
<1>3. GoldIn(db.gold) = Cardinality(Players) * Start
  BY <1>1, GoldOfAll, Constants
<1>4. MoneyIn({}) = 0 /\ StakesIn({}) = 0 /\ IsFiniteSet({})
  BY FS_EmptySet, MoneyInFacts, StakesInFacts
<1>5. Cardinality(Players) * Start \in Int
  BY FS_CardinalityType, Constants
<1>6. Worth(db) = Cardinality(Players) * Start
  BY <1>1, <1>3, <1>4, <1>5 DEF Worth
<1>7. BooksOf(db)  BY <1>1, <1>4, <1>6 DEF BooksOf, Bids, Cods
<1>. QED  BY <1>2, <1>7 DEF Books

LEMMA NextBooks ==
  ASSUME Narrow, Signed, IsFiniteSet(Players), TInv, TInv', Good, Books, ~crossed', [Next]_vars
  PROVE  Books'
<1>0. TypeOK /\ TypeOK'  BY DEF TInv
<1>1. ASSUME NEW p \in Players, Trade(p) PROVE Books'
  BY <1>0, <1>1, SellItemBooks, AbortIsCrash, CrashBooks, BidBooks, BuyOutBooks, CancelBooks DEF Trade
<1>2. ASSUME NEW p \in Players, Post(p) PROVE Books'
  <2>1. ASSUME NEW q \in Players, NEW i \in Items \cup {None}, NEW n \in Sums, NEW c \in Sums,
               SendMail(p, q, i, n, c)
        PROVE  Books'
    BY <1>0, <2>1, SendMailBooks
  <2>2. LoadMail(p) => Books'
    BY SameBooks DEF LoadMail
  <2>3. ASSUME NEW e \in box[p],
               \/ ReturnToSender(p, e) \/ ReturnToHouse(p, e)
               \/ TakeItem(p, e) \/ TakeMoney(p, e)
        PROVE  Books'
    BY <1>0, <2>3, ReturnToSenderBooks, ReturnToHouseBooks, TakeItemBooks, TakeMoneyBooks
  <2>4. ASSUME NEW e \in box[p], MailDelete(p, e) PROVE Books'
    BY <2>4, SameBooks DEF MailDelete
  <2>. QED  BY <1>2, <2>1, <2>2, <2>3, <2>4 DEF Post
<1>3. ASSUME NEW p \in Players, Earn(p) \/ EnterWorld(p) PROVE Books'
  BY <1>3, SameBooks DEF Earn, EnterWorld
<1>4. ASSUME NEW p \in Players, Login(p) \/ \E leaves \in BOOLEAN : Save(p, leaves) PROVE Books'
  BY <1>0, <1>4, LoginBooks, SaveBooks
<1>5. ASSUME NEW r \in db.auctions, NEW a \in auctions, Expire(r, a) PROVE Books'
  BY <1>0, <1>5, ExpireBooks
<1>6. ASSUME NEW m \in db.mails, ReturnOrDeleteOldMail(m) PROVE Books'
  BY <1>0, <1>6, ReturnOrDeleteOldMailBooks
<1>7. Execute \/ Crash => Books'
  BY <1>0, ExecuteDurable, QuietBooks, CrashBooks
<1>8. ASSUME UNCHANGED vars PROVE Books'
  BY <1>8, SameBooks DEF vars
<1>. QED  BY <1>1, <1>2, <1>3, <1>4, <1>5, <1>6, <1>7, <1>8 DEF Next

\* The strengthening for Balanced.
BInv == GInv /\ (crossed \/ Books)

LEMMA BInvStep ==
  ASSUME LogTrade, Narrow, Signed, IsFiniteSet(Players)
  PROVE  BInv /\ [Next]_vars => BInv'
<1>. SUFFICES ASSUME BInv, [Next]_vars PROVE BInv'  OBVIOUS
<1>1. GInv /\ GInv'  BY GInvStep DEF BInv
<1>2. CASE crossed'
  BY <1>1, <1>2 DEF BInv
<1>3. CASE ~crossed'
  <2>1. ~crossed  BY <1>3, CrossedStays
  <2>. QED  BY <1>1, <1>3, <2>1, NextBooks DEF BInv, GInv
<1>. QED  BY <1>2, <1>3

LEMMA BInvBalanced ==
  ASSUME IsFiniteSet(Players), BInv
  PROVE  Balanced
<1>1. CASE crossed
  BY <1>1 DEF Balanced
<1>2. CASE ~crossed
  <2>1. TInv /\ Books  BY <1>2 DEF BInv, GInv
  <2>. PICK kinds : ProperState(kinds)  BY <2>1 DEF TInv
  <2>2. ASSUME NEW d \in Durable
        PROVE  Wealth(d) + d.spent = Cardinality(Players) * Start + d.earned
    <3>1. Counted(d) /\ Worth(d) = Cardinality(Players) * Start
      BY <2>1 DEF Books, BooksOf, Bids, Counted, ProperState, Proper
    <3>2. Wealth(d) = GoldIn(d.gold) + MoneyIn(d.mails) + StakesIn(d.auctions)
      BY DEF Wealth, GoldIn, StakesIn
    <3>3. Wealth(d) \in Int /\ d.spent \in Int /\ d.earned \in Int
          /\ Worth(d) = Wealth(d) + d.spent - d.earned
      BY <3>1, <3>2, WorthParts DEF Worth
    <3>. QED  BY <3>1, <3>3
  <2>. QED  BY <2>2 DEF Balanced
<1>. QED  BY <1>1, <1>2

\* No transaction makes or loses money, whatever prefix of the transactions a
\* crash leaves: a bid is refunded or paid out once, less the cut, and money
\* that is mailed arrives - if trades are logged, sums fit in the columns that
\* keep them, and prices on delivery in the int32 that a payment goes through.
THEOREM BalancedAlways ==
  ASSUME LogTrade, Narrow, Signed, IsFiniteSet(Players)
  PROVE  Spec => []Balanced
<1>1. Init => BInv
  BY InitTInv, InitGood, InitBooks DEF BInv, GInv
<1>2. BInv /\ [Next]_vars => BInv'
  BY BInvStep
<1>3. BInv => Balanced
  BY BInvBalanced
<1>. QED  BY <1>1, <1>2, <1>3, PTL DEF Spec
-----------------------------------------------------------------------------
(* What is owed for an item is sent in the transaction that hands it over. *)

\* Sold, Bought and Answered, of the transaction that turns d into r.
SoldFrom(d, r) ==
  \A a \in d.auctions, m \in r.mails :
    m.item = a.item /\ m.to # a.owner =>
      \E l \in r.mails \ d.mails :
        l.to = a.owner /\ l.money >= a.bid + a.deposit - Cut(a.bid)
BoughtFrom(d, r) ==
  \A m \in d.mails :
    m.cod > 0 /\ m.item # None /\ r.inv[m.item] = m.to =>
      \E l \in r.mails \ d.mails : l.to = m.from /\ l.money = m.cod
AnsweredFrom(d, r) ==
  \A a \in d.auctions : a.bidder # None =>
    \/ \E b \in r.auctions : b.id = a.id /\ b.bidder = a.bidder /\ b.bid >= a.bid
    \/ \E l \in r.mails \ d.mails :
         l.to = a.bidder /\ (l.item = a.item \/ l.money >= a.bid)
Paid(d, r) == SoldFrom(d, r) /\ BoughtFrom(d, r) /\ AnsweredFrom(d, r)

\* An item that is deleted is with nobody.
Gone(d) == \A i \in Items \ d.items : d.inv[i] = None
\* No bid is higher than the price that ends an auction.
BelowBuyout(d) == \A a \in d.auctions : a.buyout > 0 => a.bid <= a.buyout
Dues ==
  /\ \A d \in Durable : Gone(d) /\ BelowBuyout(d)
  /\ \A k \in DOMAIN queue : Paid(IF k = 1 THEN db ELSE queue[k - 1].db, queue[k].db)

\* Where the item of the letter m of r was before: with a player, in a letter,
\* or up for auction, and then it goes back or is paid for.
LetterFrom(d, r, m) ==
  \/ m.item = None
  \/ d.inv[m.item] # None
  \/ \E x \in d.mails : x.item = m.item
  \/ \E a \in d.auctions :
       /\ a.item = m.item
       /\ \/ m.to = a.owner
          \/ \E l \in r.mails \ d.mails :
               l.to = a.owner /\ l.money >= a.bid + a.deposit - Cut(a.bid)
\* Where the item i that a player has in r was: with the same player, or in a
\* letter that is paid for.
BagFrom(d, r, i) ==
  \/ r.inv[i] = None
  \/ r.inv[i] = d.inv[i]
  \/ \A m \in d.mails : m.item = i /\ m.cod > 0 =>
       \E l \in r.mails \ d.mails : l.to = m.from /\ l.money = m.cod

LEMMA PaidWhen ==
  ASSUME NEW d \in Tables, GoodTables(d), Gone(d), NEW r,
         \A m \in r.mails : LetterFrom(d, r, m), \A i \in Items : BagFrom(d, r, i),
         AnsweredFrom(d, r)
  PROVE  Paid(d, r)
<1>1. /\ UniqueIds(d) /\ AuctionsFit(d) /\ \A i \in d.items : Held(d, i)
      /\ None \notin Players /\ None \notin Items /\ None \notin d.items
      /\ \A m \in d.mails : m \in MailRow
  BY TablesAssumption DEF GoodTables, GoodBut, Tables
<1>2. ASSUME NEW a \in d.auctions, NEW m \in r.mails, m.item = a.item, m.to # a.owner
      PROVE  \E l \in r.mails \ d.mails :
               l.to = a.owner /\ l.money >= a.bid + a.deposit - Cut(a.bid)
  <2>1. a.item \in d.items /\ Held(d, a.item) /\ a.id \in Ids(d.auctions, a.item)
    BY <1>1, IdsFacts DEF AuctionsFit
  <2>2. /\ d.inv[a.item] = None /\ Ids(d.mails, a.item) = {}
        /\ Ids(d.auctions, a.item) = {a.id}
    BY <2>1 DEF Held
  <2>3. ~ \E x \in d.mails : x.item = m.item
    <3>1. \A x \in d.mails : x.item = a.item => x.id \in Ids(d.mails, a.item)
      BY IdsFacts
    <3>2. m.item = a.item /\ Ids(d.mails, a.item) = {}  BY <1>2, <2>2
    <3>. QED  BY ONLY <3>1, <3>2
  <2>4. \A x \in d.auctions : x.item = m.item => x = a
    <3>1. \A x \in d.auctions : x.item = a.item => x.id \in Ids(d.auctions, a.item)
      BY IdsFacts
    <3>2. m.item = a.item /\ Ids(d.auctions, a.item) = {a.id}  BY <1>2, <2>2
    <3>3. \A x \in d.auctions : x.item = m.item => x.id = a.id
      BY ONLY <3>1, <3>2
    <3>. QED  BY <1>1, <3>3 DEF UniqueIds
  <2>5. LetterFrom(d, r, m) /\ m.item # None /\ d.inv[m.item] = None
    BY <1>1, <1>2, <2>1, <2>2
  <2>6. PICK x \in d.auctions :
          /\ x.item = m.item
          /\ \/ m.to = x.owner
             \/ \E l \in r.mails \ d.mails :
                  l.to = x.owner /\ l.money >= x.bid + x.deposit - Cut(x.bid)
    BY ONLY <2>3, <2>5 DEF LetterFrom
  <2>7. x = a  BY ONLY <2>4, <2>6
  <2>. QED  BY ONLY <1>2, <2>6, <2>7
<1>3. ASSUME NEW m \in d.mails, m.cod > 0, m.item # None, r.inv[m.item] = m.to
      PROVE  \E l \in r.mails \ d.mails : l.to = m.from /\ l.money = m.cod
  <2>1. m.item \in Items /\ m.to # None
    BY <1>1, <1>3 DEF MailRow
  <2>2. m.id \in Ids(d.mails, m.item)
    BY IdsFacts
  <2>3. d.inv[m.item] = None
    BY <1>1, <2>1, <2>2 DEF Held, Gone
  <2>. QED  BY <1>3, <2>1, <2>3 DEF BagFrom
<1>. QED  BY <1>2, <1>3 DEF Paid, SoldFrom, BoughtFrom

\* Bids on auctions that go on need no answer.
LEMMA BidsStand ==
  ASSUME NEW d \in Tables, NEW r, d.auctions \subseteq r.auctions
  PROVE  AnsweredFrom(d, r)
<1>1. \A a \in d.auctions : a \in r.auctions /\ a.bid >= a.bid
  BY DEF Tables, AuctionRow
<1>. QED  BY <1>1 DEF AnsweredFrom

\* Nothing is owed where nothing happens.
LEMMA PaidSame ==
  ASSUME NEW d \in Tables, GoodTables(d), Gone(d)
  PROVE  Paid(d, d)
<1>1. \A m \in d.mails : LetterFrom(d, d, m)
  BY DEF LetterFrom
<1>2. \A i \in Items : BagFrom(d, d, i)
  BY DEF BagFrom
<1>. QED  BY <1>1, <1>2, BidsStand, PaidWhen

\* Nothing is owed where letters without items are sent or letters and items
\* are deleted, and players give items away but get none.
LEMMA PaidLetters ==
  ASSUME NEW d \in Tables, GoodTables(d), Gone(d), NEW r,
         \A m \in r.mails : m.item = None \/ \E x \in d.mails : x.item = m.item,
         \A i \in Items : r.inv[i] \in {d.inv[i], None}, d.auctions \subseteq r.auctions
  PROVE  Paid(d, r)
<1>1. \A m \in r.mails : LetterFrom(d, r, m)
  BY DEF LetterFrom
<1>2. \A i \in Items : BagFrom(d, r, i)
  BY DEF BagFrom
<1>. QED  BY <1>1, <1>2, BidsStand, PaidWhen

LEMMA DuesNow ==
  ASSUME TypeOK, Good, Dues
  PROVE  Goal \in Tables /\ GoodTables(Goal) /\ Gone(Goal) /\ BelowBuyout(Goal)
BY TablesOfQueue DEF Good, Dues

\* A transaction or a log-in query.
LEMMA AppendedDues ==
  ASSUME TypeOK, Dues, NEW task \in Tasks, queue' = Append(queue, task), db' = db,
         Gone(task.db), BelowBuyout(task.db), Paid(Goal, task.db)
  PROVE  Dues'
<1>1. queue \in Seq(Tasks)  BY TypeOKParts
<1>2. PICK n \in Nat : n = Len(queue) /\ DOMAIN queue = 1 .. n
  BY <1>1
<1>3. /\ DOMAIN queue' = 1 .. n + 1 /\ queue'[n + 1] = task
      /\ \A k \in 1 .. n : queue'[k] = queue[k]
  BY <1>1, <1>2
<1>4. Goal = IF n + 1 = 1 THEN db ELSE queue[n].db
  <2>1. n = 0 <=> queue = <<>>  BY <1>1, <1>2
  <2>. QED  BY <1>2, <2>1 DEF Goal, Last
<1>5. \A d \in Durable' : Gone(d) /\ BelowBuyout(d)
  <2>1. Durable' = Durable \cup {task.db}  BY AppendedTask
  <2>. QED  BY <2>1 DEF Dues
<1>6. ASSUME NEW k \in 1 .. n + 1
      PROVE  Paid(IF k = 1 THEN db' ELSE queue'[k - 1].db, queue'[k].db)
  <2>1. CASE k = n + 1
    <3>1. n # 0 => n \in 1 .. n  BY <1>2
    <3>2. (IF k = 1 THEN db' ELSE queue'[k - 1].db) = Goal
      BY <1>2, <1>3, <1>4, <2>1, <3>1
    <3>. QED  BY <1>3, <2>1, <3>2
  <2>2. CASE k # n + 1
    <3>1. k \in 1 .. n /\ (k # 1 => k - 1 \in 1 .. n)
      BY <1>2, <2>2
    <3>2. Paid(IF k = 1 THEN db ELSE queue[k - 1].db, queue[k].db)
      BY <1>2, <3>1 DEF Dues
    <3>. QED  BY <1>3, <3>1, <3>2
  <2>. QED  BY <2>1, <2>2
<1>. QED  BY <1>3, <1>5, <1>6 DEF Dues

LEMMA EnqueuedDues ==
  ASSUME TypeOK, Dues, NEW d \in Tables, Enqueue(d), db' = db,
         Gone(d), BelowBuyout(d), Paid(Goal, d)
  PROVE  Dues'
<1>1. /\ Task(d, None) \in Tasks /\ Task(d, None).db = d
      /\ queue' = Append(queue, Task(d, None))
  BY DEF Task, Tasks, Enqueue
<1>. QED  BY <1>1, AppendedDues

LEMMA ExecuteDues ==
  ASSUME TypeOK, Dues, Execute
  PROVE  Dues' /\ Paid(db, db')
<1>1. /\ db' = Head(queue).db /\ queue' = Tail(queue) /\ queue # <<>> /\ Durable' \subseteq Durable
  BY ExecuteDurable DEF Execute
<1>2. queue \in Seq(Tasks)  BY TypeOKParts
<1>3. PICK n \in Nat : n = Len(queue) /\ n >= 1 /\ DOMAIN queue = 1 .. n
  BY <1>1, <1>2
<1>4. /\ Head(queue) = queue[1] /\ DOMAIN queue' = 1 .. n - 1
      /\ \A k \in 1 .. n - 1 : queue'[k] = queue[k + 1]
  BY <1>1, <1>2, <1>3
<1>5. \A k \in 1 .. n : Paid(IF k = 1 THEN db ELSE queue[k - 1].db, queue[k].db)
  BY <1>3 DEF Dues
<1>6. Paid(db, db')
  <2>1. 1 \in 1 .. n  BY <1>3
  <2>. QED  BY <1>1, <1>4, <1>5, <2>1
<1>7. ASSUME NEW k \in 1 .. n - 1
      PROVE  Paid(IF k = 1 THEN db' ELSE queue'[k - 1].db, queue'[k].db)
  <2>1. k + 1 \in 1 .. n /\ k + 1 # 1 /\ (k + 1) - 1 = k /\ (k # 1 => k - 1 \in 1 .. n - 1)
        /\ (k # 1 => (k - 1) + 1 = k)
    BY <1>3
  <2>2. Paid(queue[k].db, queue[k + 1].db)
    BY <1>5, <2>1
  <2>3. queue'[k] = queue[k + 1] /\ (k # 1 => queue'[k - 1] = queue[k])
    BY <1>4, <2>1
  <2>4. (IF k = 1 THEN db' ELSE queue'[k - 1].db) = queue[k].db
    BY <1>1, <1>4, <2>3
  <2>. QED  BY <2>2, <2>3, <2>4
<1>8. \A d \in Durable' : Gone(d) /\ BelowBuyout(d)
  BY <1>1 DEF Dues
<1>. QED  BY <1>4, <1>6, <1>7, <1>8 DEF Dues

LEMMA CrashDues ==
  ASSUME Dues, Crash
  PROVE  Dues'
<1>1. queue' = <<>> /\ db' = db  BY DEF Crash
<1>2. Durable' = {db} /\ DOMAIN queue' = {}  BY <1>1 DEF Durable
<1>. QED  BY <1>2 DEF Dues, Durable

LEMMA SameDues ==
  ASSUME Dues, db' = db, queue' = queue
  PROVE  Dues'
BY DEF Dues, Durable, Gone, BelowBuyout

LEMMA LoginDues ==
  ASSUME TypeOK, Good, Dues, NEW p \in Players, Login(p)
  PROVE  Dues'
<1>1. /\ Task(Goal, p) \in Tasks /\ Task(Goal, p).db = Goal
      /\ queue' = Append(queue, Task(Goal, p)) /\ db' = db
  BY DuesNow DEF Task, Tasks, Login
<1>2. Paid(Goal, Goal)  BY DuesNow, PaidSame
<1>. QED  BY <1>1, <1>2, DuesNow, AppendedDues

LEMMA InitDues == Init => Dues
<1>. SUFFICES ASSUME Init PROVE Dues  OBVIOUS
<1>1. queue = <<>> /\ db.items = Items /\ db.auctions = {}
  BY DEF Init
<1>2. Durable = {db} /\ DOMAIN queue = {}  BY <1>1 DEF Durable
<1>. QED  BY <1>1, <1>2 DEF Dues, Gone, BelowBuyout

\* The letters of a step are its drafts.
LEMMA StampedIs ==
  ASSUME TypeOK, NEW drafts, ProperDrafts(drafts)
  PROVE  /\ \A l \in Stamped(drafts) : \E x \in Range(drafts) :
              l.to = x.to /\ l.item = x.item /\ l.money = x.money
         /\ \A x \in Range(drafts) : \E l \in Stamped(drafts) :
              l.to = x.to /\ l.item = x.item /\ l.money = x.money
<1>. DEFINE New(k) == [drafts[k] EXCEPT !.id = nextMail + k - 1]
<1>1. Stamped(drafts) = {New(k) : k \in DOMAIN drafts}
  BY DEF Stamped
<1>2. \A k \in DOMAIN drafts : drafts[k] \in MailRow
  BY DEF ProperDrafts
<1>3. \A k \in DOMAIN drafts : /\ New(k).to = drafts[k].to /\ New(k).item = drafts[k].item
                               /\ New(k).money = drafts[k].money
  BY <1>2 DEF MailRow
<1>4. Range(drafts) = {drafts[k] : k \in DOMAIN drafts}
  BY DEF Range
<1>. HIDE DEF New
<1>. QED  BY <1>1, <1>3, <1>4

LEMMA RangeFacts ==
  /\ \A a, b \in Seq(MailRow) : Range(a \o b) = Range(a) \cup Range(b)
  /\ \A x : Range(<<x>>) = {x}
  /\ Range(<<>>) = {}
<1>1. ASSUME NEW a \in Seq(MailRow), NEW b \in Seq(MailRow)
      PROVE  Range(a \o b) = Range(a) \cup Range(b)
  <2>. DEFINE c == a \o b
  <2>1. PICK n \in Nat, j \in Nat : DOMAIN a = 1 .. n /\ DOMAIN b = 1 .. j /\ n = Len(a) /\ j = Len(b)
    OBVIOUS
  <2>2. /\ DOMAIN c = 1 .. n + j
        /\ \A k \in 1 .. n : c[k] = a[k]
        /\ \A k \in 1 .. j : c[n + k] = b[k]
    BY <2>1
  <2>3. \A k \in 1 .. n + j : k \in 1 .. n \/ (k - n \in 1 .. j /\ n + (k - n) = k)
    BY <2>1
  <2>4. /\ \A k \in 1 .. n : k \in 1 .. n + j
        /\ \A k \in 1 .. j : n + k \in 1 .. n + j
    BY <2>1
  <2>. HIDE DEF c
  <2>5. \A x : x \in Range(c) <=> \E k \in 1 .. n + j : x = c[k]
    BY <2>2 DEF Range
  <2>6. \A x : x \in Range(a) <=> \E k \in 1 .. n : x = a[k]
    BY <2>1 DEF Range
  <2>7. \A x : x \in Range(b) <=> \E k \in 1 .. j : x = b[k]
    BY <2>1 DEF Range
  <2>8. \A x : x \in Range(c) => x \in Range(a) \cup Range(b)
    <3>1. ASSUME NEW k \in 1 .. n + j PROVE c[k] \in Range(a) \cup Range(b)
      <4>1. CASE k \in 1 .. n  BY <2>2, <2>6, <4>1
      <4>2. CASE k - n \in 1 .. j /\ n + (k - n) = k
        <5>1. c[k] = b[k - n]  BY <2>2, <4>2
        <5>. QED  BY <2>7, <4>2, <5>1
      <4>. QED  BY <2>3, <4>1, <4>2
    <3>. QED  BY <2>5, <3>1
  <2>9. \A x : x \in Range(a) => x \in Range(c)
    BY <2>2, <2>4, <2>5, <2>6
  <2>10. \A x : x \in Range(b) => x \in Range(c)
    <3>1. \A k \in 1 .. j : b[k] \in Range(c)  BY <2>2, <2>4, <2>5
    <3>. QED  BY <2>7, <3>1
  <2>11. Range(c) = Range(a) \cup Range(b)
    BY ONLY <2>8, <2>9, <2>10
  <2>. QED  BY <2>11 DEF c
<1>2. \A x : Range(<<x>>) = {x}
  BY DEF Range
<1>3. Range(<<>>) = {}
  BY DEF Range
<1>. QED  BY <1>1, <1>2, <1>3

\* More is left of a higher bid.
LEMMA CutMonotone ==
  ASSUME NEW x \in Nat, NEW y \in Nat, x <= y
  PROVE  y - Cut(y) >= x - Cut(x)
<1>. PICK k \in Nat : y = x + k  
  <2>1. y - x \in Nat /\ y = x + (y - x)  OBVIOUS
  <2>. QED  BY <2>1
<1>1. CutRate \in Nat /\ CutRate <= 100  BY MarketAssumption
<1>. PICK q \in Nat : q = x * CutRate  BY <1>1
<1>2. k * CutRate \in Nat /\ k * CutRate <= k * 100  BY <1>1
<1>. PICK s \in Nat : s = k * CutRate /\ s <= k * 100  BY <1>2
<1>3. y * CutRate = q + s  BY <1>1
<1>4. (q + s) \div 100 <= (q \div 100) + k  OBVIOUS
<1>5. Cut(y) = (q + s) \div 100 /\ Cut(x) = q \div 100  BY <1>3 DEF Cut
<1>6. (q + s) \div 100 \in Nat /\ q \div 100 \in Nat  OBVIOUS
<1>. QED  BY <1>4, <1>5, <1>6

\* A transaction in which nobody gets an item into a bag.
LEMMA LettersDues ==
  ASSUME TypeOK, TypeOK', Good, Dues, NEW d, Enqueue(d), db' = db, d.items = Goal.items,
         \A i \in Items : d.inv[i] \in {Goal.inv[i], None},
         BelowBuyout(d), \A m \in d.mails : LetterFrom(Goal, d, m), AnsweredFrom(Goal, d)
  PROVE  Dues'
<1>1. d \in Tables  BY EnqueuedTables
<1>2. Goal \in Tables /\ GoodTables(Goal) /\ Gone(Goal)  BY DuesNow
<1>3. Gone(d)
  BY <1>2 DEF Gone
<1>4. Paid(Goal, d)
  <2>1. \A i \in Items : BagFrom(Goal, d, i)  BY DEF BagFrom
  <2>. QED  BY <1>2, <2>1, PaidWhen
<1>. QED  BY <1>1, <1>3, <1>4, EnqueuedDues

LEMMA SellItemDues ==
  ASSUME TypeOK, TypeOK', Good, Dues,
         NEW p \in Players, NEW i \in Items, NEW offer \in Offers, SellItem(p, i, offer)
  PROVE  Dues'
<1>. DEFINE a == [id |-> nextAuction, item |-> i, owner |-> p, startbid |-> offer[1],
                  buyout |-> offer[2], bidder |-> None, bid |-> 0, deposit |-> Deposit]
            g == ModifyMoney(gold[p], -Deposit)
            d == SaveGold(InsertAuction(DeleteFromInventory(Goal, i), a), p, g)
<1>1. Enqueue(d) /\ db' = db  BY DEF SellItem
<1>2. a.bid = 0 /\ a.buyout = offer[2] /\ offer[2] \in Nat
  BY MarketAssumption
<1>. HIDE DEF a, g
<1>3. Goal \in Tables /\ BelowBuyout(Goal)  BY DuesNow
<1>4. /\ d.inv = [Goal.inv EXCEPT ![i] = None]
      /\ d.items = Goal.items /\ d.mails = Goal.mails /\ d.auctions = Goal.auctions \cup {a}
  BY <1>3 DEF SaveGold, InsertAuction, DeleteFromInventory, Tables
<1>. HIDE DEF d
<1>5. \A j \in Items : d.inv[j] \in {Goal.inv[j], None}
  BY <1>3, <1>4 DEF Tables
<1>6. BelowBuyout(d)
  BY <1>2, <1>3, <1>4 DEF BelowBuyout
<1>7. \A m \in d.mails : LetterFrom(Goal, d, m)
  BY <1>4 DEF LetterFrom
<1>8. AnsweredFrom(Goal, d)  BY <1>3, <1>4, BidsStand
<1>. QED  BY <1>1, <1>4, <1>5, <1>6, <1>7, <1>8, LettersDues

LEMMA HouseColumns ==
  \A to, item, money : LET x == House(to, item, money)
                       IN  x.to = to /\ x.item = item /\ x.money = money
BY DEF House, Draft

LEMMA BidDues ==
  ASSUME Narrow, TypeOK, IdsFresh, TypeOK', Good, Dues,
         NEW p \in Players, NEW a \in auctions, NEW n \in Prices, Bid(p, a, n)
  PROVE  Dues'
<1>. DEFINE b == [a EXCEPT !.bidder = p, !.bid = n]
            drafts == OutbidMail(a, p)
            letters == Stamped(drafts)
            g == Pays(p, a, n)
            d1 == InsertMails(Goal, letters)
            d2 == UpdateBid(d1, b)
            d == SaveGold(d2, p, g)
<1>1. Enqueue(d) /\ db' = db /\ ~BuysOut(a, n) /\ n > a.bid  BY DEF Bid, Allowed
<1>2. /\ a \in AuctionRow /\ Fits(a.bid + a.deposit) /\ a \in Goal.auctions /\ a.item \in aitems
  BY AuctionNow
<1>3. n \in Nat /\ Fits(n) /\ UInt32(n) = n
  <2>1. n \in Nat /\ Fits(n)
    BY Constants, MarketAssumption, TablesAssumption DEF Narrow, Fits
  <2>. QED  BY <2>1, UInt32Facts DEF Fits
<1>4. b.id = a.id /\ b.bid = n /\ b.bidder = p  BY <1>2 DEF AuctionRow
<1>. HIDE DEF b
<1>5. ProperDrafts(drafts) /\ Carries(drafts, None)
  BY <1>2, AuctionMailProper, AuctionMailCarries
<1>. DEFINE refund == House(a.bidder, None, a.bid)
<1>50. a.bidder \notin {None, p} => refund \in Range(drafts)
  BY RangeFacts DEF OutbidMail
<1>. HIDE DEF drafts, g, refund
<1>51. a.bidder \notin {None, p} => \E l \in letters : l.to = a.bidder /\ l.money = a.bid
  <2>1. refund.to = a.bidder /\ refund.money = a.bid  BY HouseColumns DEF refund
  <2>. QED  BY <1>5, <1>50, <2>1, StampedIs
<1>6. /\ CarryOnly(letters, None) /\ letters \subseteq MailRow
      /\ \A m \in Goal.mails, l \in letters : m.id # l.id
  BY <1>5, StampedCarry
<1>. HIDE DEF letters
<1>7. Goal \in Tables /\ BelowBuyout(Goal) /\ UniqueIds(Goal)
  BY DuesNow, GoodNow
<1>8. /\ d1 \in Tables /\ d1.mails = Goal.mails \cup letters /\ d1.auctions = Goal.auctions
      /\ d1.inv = Goal.inv /\ d1.items = Goal.items
  BY <1>6, <1>7 DEF InsertMails, Tables
<1>. HIDE DEF d1
<1>9. /\ d2 = [d1 EXCEPT !.auctions = d2.auctions]
      /\ d2.mails = d1.mails /\ d2.inv = d1.inv /\ d2.items = d1.items
  BY <1>8 DEF UpdateBid, Tables
<1>10. /\ \A y \in d2.auctions : \/ y \in d1.auctions
                                 \/ \E x \in d1.auctions : x.id = b.id /\ y = BidSaved(x, b)
       /\ \A x \in d1.auctions : x.id # b.id => x \in d2.auctions
       /\ \A x \in d1.auctions : x.id = b.id => BidSaved(x, b) \in d2.auctions
  BY <1>8, BidRows
<1>11. /\ d.inv = Goal.inv /\ d.items = Goal.items
       /\ d.mails = Goal.mails \cup letters /\ d.auctions = d2.auctions
  BY <1>8, <1>9 DEF SaveGold, Tables
<1>12. \A y \in d2.auctions : y.buyout > 0 => y.bid <= y.buyout
  <2>1. ASSUME NEW x \in d1.auctions, x.id = b.id
        PROVE  LET y == BidSaved(x, b) IN y.buyout > 0 => y.bid <= y.buyout
    <3>1. x = a  BY <1>2, <1>4, <1>7, <1>8, <2>1 DEF UniqueIds
    <3>2. BidSaved(a, b).buyout = a.buyout /\ BidSaved(a, b).bid = n
      BY <1>2, <1>3, <1>4 DEF BidSaved, AuctionRow
    <3>3. a.buyout > 0 => n <= a.buyout
      BY <1>1, <1>2, <1>3 DEF BuysOut, AuctionRow
    <3>. QED  BY <3>1, <3>2, <3>3
  <2>2. \A x \in d1.auctions : x.buyout > 0 => x.bid <= x.buyout
    BY <1>7, <1>8 DEF BelowBuyout
  <2>. QED  BY <1>10, <2>1, <2>2
<1>. HIDE DEF d2, d
<1>13. BelowBuyout(d)  BY <1>11, <1>12 DEF BelowBuyout
<1>14. \A m \in d.mails : LetterFrom(Goal, d, m)
  BY <1>6, <1>11 DEF LetterFrom, CarryOnly
<1>15. AnsweredFrom(Goal, d)
  <2>1. ASSUME NEW x \in Goal.auctions, x.bidder # None
        PROVE  \/ \E y \in d.auctions : y.id = x.id /\ y.bidder = x.bidder /\ y.bid >= x.bid
               \/ \E l \in d.mails \ Goal.mails :
                    l.to = x.bidder /\ (l.item = x.item \/ l.money >= x.bid)
    <3>0. x.bid \in Nat  BY <1>7 DEF Tables, AuctionRow
    <3>1. CASE x.id # a.id
      <4>1. x \in d.auctions  BY <1>4, <1>8, <1>10, <1>11, <3>1
      <4>. QED  BY <3>0, <4>1
    <3>2. CASE x.id = a.id
      <4>1. x = a  BY <1>2, <1>7, <3>2 DEF UniqueIds
      <4>2. CASE a.bidder = p
        <5>1. BidSaved(a, b) \in d.auctions
          BY <1>2, <1>4, <1>8, <1>10, <1>11
        <5>2. /\ BidSaved(a, b).id = a.id /\ BidSaved(a, b).bidder = p
              /\ BidSaved(a, b).bid = n
          BY <1>2, <1>3, <1>4 DEF BidSaved, AuctionRow
        <5>3. n >= a.bid  BY <1>1, <1>3, <3>0, <4>1
        <5>. QED  BY <4>1, <4>2, <5>1, <5>2, <5>3
      <4>3. CASE a.bidder # p
        <5>1. PICK l \in letters : l.to = a.bidder /\ l.money = a.bid
          BY <1>51, <2>1, <4>1, <4>3
        <5>2. l \in d.mails \ Goal.mails  BY <1>6, <1>11
        <5>. QED  BY <3>0, <4>1, <5>1, <5>2
      <4>. QED  BY <4>2, <4>3
    <3>. QED  BY <3>1, <3>2
  <2>. QED  BY <2>1 DEF AnsweredFrom
<1>. QED  BY <1>1, <1>11, <1>13, <1>14, <1>15, LettersDues

\* The auction a is over, and the letters carry its item back or pay for it,
\* and answer its bidder.
LEMMA EndedDues ==
  ASSUME TypeOK, TypeOK', Good, Dues, NEW a \in auctions, NEW letters, NEW d, Ended(d, a, letters),
         Enqueue(d), db' = db,
         \/ \A l \in letters : l.item = a.item => l.to = a.owner
         \/ \E l \in letters : l.to = a.owner /\ l.money >= a.bid + a.deposit - Cut(a.bid),
         a.bidder # None =>
           \E l \in letters : l.to = a.bidder /\ (l.item = a.item \/ l.money >= a.bid)
  PROVE  Dues'
<1>1. /\ d.items = Goal.items /\ d.inv = Goal.inv
      /\ d.mails = Goal.mails \cup letters
      /\ d.auctions = {x \in Goal.auctions : x.id # a.id}
      /\ \A l \in letters : l.item \in {a.item, None}
      /\ \A m \in Goal.mails, l \in letters : m.id # l.id
  BY DEF Ended, CarryOnly
<1>2. a \in Goal.auctions  BY AuctionNow
<1>3. \A m \in d.mails : LetterFrom(Goal, d, m)
  <2>1. \A l \in letters : l \in d.mails \ Goal.mails  BY <1>1
  <2>. QED  BY <1>1, <1>2, <2>1 DEF LetterFrom
<1>4. BelowBuyout(d)  BY <1>1, DuesNow DEF BelowBuyout
<1>5. AnsweredFrom(Goal, d)
  <2>1. ASSUME NEW x \in Goal.auctions, x.bidder # None
        PROVE  \/ \E y \in d.auctions : y.id = x.id /\ y.bidder = x.bidder /\ y.bid >= x.bid
               \/ \E l \in d.mails \ Goal.mails :
                    l.to = x.bidder /\ (l.item = x.item \/ l.money >= x.bid)
    <3>1. CASE x.id # a.id
      <4>1. x \in d.auctions  BY <1>1, <3>1
      <4>2. x.bid \in Nat  BY GoodNow DEF Tables, AuctionRow
      <4>. QED  BY <4>1, <4>2
    <3>2. CASE x.id = a.id
      <4>1. x = a  BY <1>2, <3>2, GoodNow DEF UniqueIds
      <4>2. PICK l \in letters : l.to = a.bidder /\ (l.item = a.item \/ l.money >= a.bid)
        BY <2>1, <4>1
      <4>3. l \in d.mails \ Goal.mails  BY <1>1
      <4>. QED  BY <4>1, <4>2, <4>3
    <3>. QED  BY <3>1, <3>2
  <2>. QED  BY <2>1 DEF AnsweredFrom
<1>. QED  BY <1>1, <1>3, <1>4, <1>5, LettersDues

\* The tables when the auction a is over, from the drafts of its letters.
LEMMA EndedTables ==
  ASSUME TypeOK, IdsFresh, TypeOK', Good, NEW a \in auctions,
         NEW drafts, ProperDrafts(drafts), Carries(drafts, a.item),
         NEW d, Enqueue(d),
         \/ \E p, g, n : d = SaveGold(Spend(DeleteAuction(InsertMails(Goal, Stamped(drafts)), a), n), p, g)
         \/ \E p, g, n : d = DeleteAuction(SaveGold(Spend(InsertMails(Goal, Stamped(drafts)), n), p, g), a)
         \/ \E n : d = Spend(DeleteAuction(InsertMails(Goal, Stamped(drafts)), a), n)
  PROVE  Ended(d, a, Stamped(drafts))
<1>. PICK letters : letters = Stamped(drafts)  OBVIOUS
<1>1. Goal \in Tables /\ d \in Tables
  BY TablesOfQueue, EnqueuedTables
<1>2. CarryOnly(letters, a.item) /\ \A m \in Goal.mails, l \in letters : m.id # l.id
  BY StampedCarry
<1>3. /\ d.inv = Goal.inv /\ d.items = Goal.items /\ d.lost = Goal.lost
      /\ d.mails = Goal.mails \cup letters
      /\ d.auctions = {x \in Goal.auctions : x.id # a.id}
  <2>1. ASSUME NEW p, NEW g, NEW n,
               \/ d = SaveGold(Spend(DeleteAuction(InsertMails(Goal, letters), a), n), p, g)
               \/ d = DeleteAuction(SaveGold(Spend(InsertMails(Goal, letters), n), p, g), a)
        PROVE  /\ d.inv = Goal.inv /\ d.items = Goal.items /\ d.lost = Goal.lost
               /\ d.mails = Goal.mails \cup letters
               /\ d.auctions = {x \in Goal.auctions : x.id # a.id}
    <3>1. CASE d = SaveGold(Spend(DeleteAuction(InsertMails(Goal, letters), a), n), p, g)
      BY <1>1, <3>1 DEF SaveGold, Spend, DeleteAuction, InsertMails, Tables
    <3>2. CASE d = DeleteAuction(SaveGold(Spend(InsertMails(Goal, letters), n), p, g), a)
      BY <1>1, <3>2 DEF SaveGold, Spend, DeleteAuction, InsertMails, Tables
    <3>. QED  BY <2>1, <3>1, <3>2
  <2>2. ASSUME NEW n, d = Spend(DeleteAuction(InsertMails(Goal, letters), a), n)
        PROVE  /\ d.inv = Goal.inv /\ d.items = Goal.items /\ d.lost = Goal.lost
               /\ d.mails = Goal.mails \cup letters
               /\ d.auctions = {x \in Goal.auctions : x.id # a.id}
    BY <1>1, <2>2 DEF Spend, DeleteAuction, InsertMails, Tables
  <2>. QED  BY <2>1, <2>2
<1>. QED  BY <1>1, <1>2, <1>3 DEF Ended

LEMMA BuyOutDues ==
  ASSUME Narrow, LogTrade, TypeOK, IdsFresh, TypeOK', Good, Dues,
         NEW p \in Players, NEW a \in auctions, NEW n \in Prices, BuyOut(p, a, n)
  PROVE  Dues'
<1>. DEFINE b == [a EXCEPT !.bidder = p, !.bid = a.buyout]
            drafts == OutbidMail(a, p) \o SuccessfulMail(b) \o WonMail(b)
            letters == Stamped(drafts)
            g == Pays(p, a, a.buyout)
            d == SaveGold(Spend(DeleteAuction(InsertMails(Goal, letters), a), Cut(b.bid)), p, g)
            earn == b.bid + b.deposit - Cut(b.bid)
            pay == House(a.owner, None, earn)
<1>1. Enqueue(d) /\ db' = db /\ BuysOut(a, n) /\ Online(p)
  BY DEF BuyOut
<1>2. /\ b \in AuctionRow /\ b.bidder # None /\ b.item = a.item /\ b.owner = a.owner
      /\ b.bid = a.buyout /\ b.deposit = a.deposit
      /\ Fits(b.bid + b.deposit) /\ a \in AuctionRow /\ Fits(a.bid + a.deposit)
      /\ a.item \in aitems /\ a \in Goal.auctions
  BY AuctionNow, TablesAssumption DEF AuctionRow
<1>3. SuccessfulMail(b) = <<pay>>
  BY <1>2 DEF SuccessfulMail
<1>. DEFINE refund == House(a.bidder, None, a.bid)
            won == House(p, a.item, 0)
<1>30. b.bidder = p  BY <1>2 DEF AuctionRow
<1>31. WonMail(b) = <<won>>
  BY <1>2, <1>30 DEF WonMail
<1>32. a.bidder \notin {None, p} => OutbidMail(a, p) = <<refund>>
  BY DEF OutbidMail
<1>. HIDE DEF b, refund, won
<1>4. /\ ProperDrafts(OutbidMail(a, p)) /\ ProperDrafts(SuccessfulMail(b))
      /\ ProperDrafts(WonMail(b))
  BY <1>2, AuctionMailProper
<1>5. ProperDrafts(drafts) /\ Carries(drafts, a.item)
  <2>1. /\ Carries(OutbidMail(a, p), None) /\ Carries(SuccessfulMail(b), None)
        /\ Carries(WonMail(b), a.item)
    BY <1>2, AuctionMailCarries
  <2>2. /\ ProperDrafts(OutbidMail(a, p) \o SuccessfulMail(b))
        /\ Carries(OutbidMail(a, p) \o SuccessfulMail(b), None)
    BY <1>4, <2>1, ProperDraftsConcat, CarriesConcat
  <2>. QED  BY <1>4, <2>1, <2>2, ProperDraftsConcat, CarriesConcat
<1>. HIDE DEF g, earn, pay
<1>6. /\ pay \in Range(drafts) /\ won \in Range(drafts)
      /\ a.bidder \notin {None, p} => refund \in Range(drafts)
  <2>1. /\ OutbidMail(a, p) \in Seq(MailRow) /\ SuccessfulMail(b) \in Seq(MailRow)
        /\ WonMail(b) \in Seq(MailRow)
    BY <1>4 DEF ProperDrafts
  <2>2. OutbidMail(a, p) \o SuccessfulMail(b) \in Seq(MailRow)
    BY <2>1
  <2>3. /\ pay \in Range(SuccessfulMail(b)) /\ won \in Range(WonMail(b))
        /\ a.bidder \notin {None, p} => refund \in Range(OutbidMail(a, p))
    BY <1>3, <1>31, <1>32, RangeFacts
  <2>. QED  BY <2>1, <2>2, <2>3, RangeFacts
<1>. HIDE DEF drafts
<1>7. Ended(d, a, letters)
  <2>1. \E q, h, k : d = SaveGold(Spend(DeleteAuction(InsertMails(Goal, Stamped(drafts)), a), k), q, h)
    OBVIOUS
  <2>. HIDE DEF d
  <2>. QED  BY <1>1, <1>5, <2>1, EndedTables
<1>8. \E l \in letters : l.to = a.owner /\ l.money >= a.bid + a.deposit - Cut(a.bid)
  <2>1. PICK l \in letters : l.to = pay.to /\ l.money = pay.money
    BY <1>5, <1>6, StampedIs
  <2>2. pay.to = a.owner /\ pay.money = earn
    BY HouseColumns DEF pay
  <2>3. a.bid \in Nat /\ a.buyout \in Nat /\ a.deposit \in Nat /\ a.bid <= a.buyout
    BY <1>1, <1>2, DuesNow DEF BelowBuyout, BuysOut, AuctionRow
  <2>4. a.buyout - Cut(a.buyout) >= a.bid - Cut(a.bid)
    BY <2>3, CutMonotone
  <2>5. Cut(a.bid) \in Nat /\ Cut(a.buyout) \in Nat
    BY <2>3, CutFacts
  <2>6. earn = a.buyout + a.deposit - Cut(a.buyout)
    BY <1>2 DEF earn
  <2>7. earn >= a.bid + a.deposit - Cut(a.bid)
    BY ONLY <2>3, <2>4, <2>5, <2>6
  <2>. QED  BY <2>1, <2>2, <2>7
<1>9. a.bidder # None =>
        \E l \in letters : l.to = a.bidder /\ (l.item = a.item \/ l.money >= a.bid)
  <2>1. CASE a.bidder = p
    <3>1. won.to = p /\ won.item = a.item  BY HouseColumns DEF won
    <3>. QED  BY <1>5, <1>6, <2>1, <3>1, StampedIs
  <2>2. CASE a.bidder \notin {None, p}
    <3>1. refund.to = a.bidder /\ refund.money = a.bid  BY HouseColumns DEF refund
    <3>2. a.bid >= a.bid  BY <1>2 DEF AuctionRow
    <3>. QED  BY <1>5, <1>6, <2>2, <3>1, <3>2, StampedIs
  <2>. QED  BY <2>1, <2>2
<1>. HIDE DEF d, letters
<1>. QED  BY <1>1, <1>7, <1>8, <1>9, EndedDues

LEMMA CancelDues ==
  ASSUME Narrow, TypeOK, IdsFresh, TypeOK', Good, Dues,
         NEW p \in Players, NEW a \in auctions, Cancel(p, a)
  PROVE  Dues'
<1>. DEFINE cut == IF a.bidder = None THEN 0 ELSE Cut(a.bid)
            back == House(p, a.item, 0)
            drafts == OutbidMail(a, None) \o <<back>>
            letters == Stamped(drafts)
            g == ModifyMoney(gold[p], -cut)
            d == DeleteAuction(SaveGold(Spend(InsertMails(Goal, letters), cut + a.deposit), p, g), a)
<1>1. Enqueue(d) /\ db' = db /\ a.owner = p
  BY DEF Cancel
<1>2. /\ a \in AuctionRow /\ Fits(a.bid + a.deposit) /\ a.item \in Items
      /\ a.item \in aitems /\ a.item # None
  BY AuctionNow
<1>3. /\ ProperDrafts(OutbidMail(a, None)) /\ Carries(OutbidMail(a, None), None)
      /\ ProperDrafts(<<back>>) /\ Carries(<<back>>, a.item)
  <2>1. /\ ProperDrafts(OutbidMail(a, None)) /\ Carries(OutbidMail(a, None), None)
    BY <1>2, AuctionMailProper, AuctionMailCarries
  <2>2. Fits(0)  BY TablesAssumption DEF Fits
  <2>3. back.item = a.item /\ back.money = 0 /\ back.cod = 0
    BY DEF House, Draft
  <2>. QED  BY <1>2, <2>1, <2>2, <2>3, HouseProper, CarriesShort
<1>4. ProperDrafts(drafts) /\ Carries(drafts, a.item)
  BY <1>3, ProperDraftsConcat, CarriesConcat
<1>5. back.to = p  BY HouseColumns
<1>. HIDE DEF cut, g, back
<1>6. \A x \in Range(drafts) : x.item = None \/ x = back
  <2>1. \A x \in Range(OutbidMail(a, None)) : x.item = None
    <3>1. \A k \in DOMAIN OutbidMail(a, None) : OutbidMail(a, None)[k].item = None
      BY <1>3 DEF Carries
    <3>. QED  BY <3>1 DEF Range
  <2>2. OutbidMail(a, None) \in Seq(MailRow) /\ <<back>> \in Seq(MailRow)
    BY <1>3 DEF ProperDrafts
  <2>3. Range(drafts) = Range(OutbidMail(a, None)) \cup {back}
    BY <2>2, RangeFacts
  <2>. QED  BY <2>1, <2>3
<1>. DEFINE refund == House(a.bidder, None, a.bid)
<1>60. a.bidder # None => refund \in Range(drafts)
  <2>1. OutbidMail(a, None) \in Seq(MailRow) /\ <<back>> \in Seq(MailRow)
    BY <1>3 DEF ProperDrafts
  <2>2. a.bidder # None => refund \in Range(OutbidMail(a, None))
    BY RangeFacts DEF OutbidMail
  <2>. HIDE DEF refund
  <2>. QED  BY <2>1, <2>2, RangeFacts
<1>. HIDE DEF drafts, refund
<1>61. a.bidder # None => \E l \in letters : l.to = a.bidder /\ l.money >= a.bid
  <2>1. refund.to = a.bidder /\ refund.money = a.bid  BY HouseColumns DEF refund
  <2>2. a.bid >= a.bid  BY <1>2 DEF AuctionRow
  <2>. QED  BY <1>4, <1>60, <2>1, <2>2, StampedIs
<1>7. Ended(d, a, letters)
  <2>1. \E q, h, k : d = DeleteAuction(SaveGold(Spend(InsertMails(Goal, Stamped(drafts)), k), q, h), a)
    OBVIOUS
  <2>. HIDE DEF d
  <2>. QED  BY <1>1, <1>4, <2>1, EndedTables
<1>8. \A l \in letters : l.item = a.item => l.to = a.owner
  <2>1. ASSUME NEW l \in letters, l.item = a.item
        PROVE  l.to = a.owner
    <3>1. PICK x \in Range(drafts) : l.to = x.to /\ l.item = x.item
      BY <1>4, StampedIs
    <3>. QED  BY <1>1, <1>2, <1>5, <1>6, <2>1, <3>1
  <2>. QED  BY <2>1
<1>. HIDE DEF d, letters
<1>. QED  BY <1>1, <1>7, <1>8, <1>61, EndedDues

LEMMA ExpireDues ==
  ASSUME Narrow, LogTrade, TypeOK, IdsFresh, TypeOK', Good, Dues,
         NEW r \in db.auctions, NEW a \in auctions, Expire(r, a)
  PROVE  Dues'
<1>. DEFINE drafts == IF a.bidder = None THEN ExpiredMail(a)
                      ELSE SuccessfulMail(a) \o WonMail(a)
            fee == IF a.bidder = None THEN a.deposit ELSE Cut(a.bid)
            letters == Stamped(drafts)
            d == Spend(DeleteAuction(InsertMails(Goal, letters), a), fee)
            earn == a.bid + a.deposit - Cut(a.bid)
            pay == House(a.owner, None, earn)
            back == House(a.owner, a.item, 0)
            won == House(a.bidder, a.item, 0)
<1>1. Enqueue(d) /\ db' = db
  BY DEF Expire
<1>2. /\ a \in AuctionRow /\ Fits(a.bid + a.deposit) /\ a.item \in Items
      /\ a.item \in Goal.items /\ a.item \in aitems
  BY AuctionNow
<1>3. ProperDrafts(drafts) /\ Carries(drafts, a.item)
  BY <1>2, AuctionMailProper, AuctionMailCarries, ProperDraftsConcat, CarriesConcat
<1>4. a.bidder = None => Range(drafts) = {back}
  BY <1>2, RangeFacts DEF ExpiredMail
<1>5. a.bidder # None => pay \in Range(drafts) /\ won \in Range(drafts)
  <2>1. SuccessfulMail(a) = <<pay>> /\ WonMail(a) = <<won>>
    BY <1>2 DEF SuccessfulMail, WonMail
  <2>2. a.bidder # None => SuccessfulMail(a) \in Seq(MailRow) /\ WonMail(a) \in Seq(MailRow)
    BY <1>2, AuctionMailProper DEF ProperDrafts
  <2>3. pay \in Range(SuccessfulMail(a)) /\ won \in Range(WonMail(a))
    BY <2>1, RangeFacts
  <2>4. a.bidder # None => Range(drafts) = Range(SuccessfulMail(a)) \cup Range(WonMail(a))
    BY <2>2, RangeFacts
  <2>. QED  BY <2>3, <2>4
<1>6. /\ back.to = a.owner /\ pay.to = a.owner /\ pay.money = earn
      /\ won.to = a.bidder /\ won.item = a.item
  BY HouseColumns
<1>7. earn \in Int
  BY <1>2, CutFacts DEF AuctionRow
<1>. HIDE DEF drafts, fee, pay, back, won
<1>8. Ended(d, a, letters)
  <2>1. \E k : d = Spend(DeleteAuction(InsertMails(Goal, Stamped(drafts)), a), k)
    OBVIOUS
  <2>. HIDE DEF d
  <2>. QED  BY <1>1, <1>3, <2>1, EndedTables
<1>9. \/ \A l \in letters : l.item = a.item => l.to = a.owner
      \/ \E l \in letters : l.to = a.owner /\ l.money >= earn
  <2>1. CASE a.bidder = None
    BY <1>3, <1>4, <1>6, <2>1, StampedIs
  <2>2. CASE a.bidder # None
    <3>1. PICK l \in letters : l.to = pay.to /\ l.money = pay.money
      BY <1>3, <1>5, <2>2, StampedIs
    <3>. HIDE DEF earn
    <3>. QED  BY <1>6, <1>7, <3>1
  <2>. QED  BY <2>1, <2>2
<1>10. a.bidder # None => \E l \in letters : l.to = a.bidder /\ l.item = a.item
  BY <1>3, <1>5, <1>6, StampedIs
<1>. HIDE DEF d, letters
<1>. QED  BY <1>1, <1>8, <1>9, <1>10, EndedDues

LEMMA SendMailDues ==
  ASSUME Narrow, TypeOK, IdsFresh, TypeOK', Good, Dues,
         NEW p \in Players, NEW q \in Players, NEW i \in Items \cup {None},
         NEW n \in Sums, NEW c \in Sums, SendMail(p, q, i, n, c)
  PROVE  Dues'
<1>. DEFINE m == Draft(p, q, "normal", FALSE, i, n, c)
            drafts == <<m>>
            letters == Stamped(drafts)
            rest == IF i = None THEN Goal ELSE DeleteFromInventory(Goal, i)
            g == ModifyMoney(gold[p], -(MailCost + n))
            d == SaveGold(Spend(InsertMails(rest, letters), MailCost), p, g)
<1>1. Enqueue(d) /\ db' = db /\ Online(p) /\ i \in bag[p] \cup {None}
  BY DEF SendMail
<1>2. ProperDrafts(drafts) /\ Range(drafts) = {m} /\ m.item = i
  BY Constants, LetterProper, RangeFacts DEF Draft
<1>. HIDE DEF m, drafts, g
<1>3. \A l \in letters : l.item = i
  BY <1>2, StampedIs
<1>. HIDE DEF letters
<1>4. Goal \in Tables /\ BelowBuyout(Goal)  BY DuesNow
<1>5. /\ rest.items = Goal.items /\ rest.mails = Goal.mails
      /\ rest.auctions = Goal.auctions /\ rest = [Goal EXCEPT !.inv = rest.inv]
      /\ rest.lost = Goal.lost
      /\ rest.inv = IF i = None THEN Goal.inv ELSE [Goal.inv EXCEPT ![i] = None]
  BY <1>4 DEF DeleteFromInventory, Tables
<1>. HIDE DEF rest
<1>6. /\ d.inv = rest.inv /\ d.items = Goal.items
      /\ d.mails = Goal.mails \cup letters /\ d.auctions = Goal.auctions
  BY <1>4, <1>5 DEF SaveGold, Spend, InsertMails, Tables
<1>. HIDE DEF d
<1>7. \A j \in Items : d.inv[j] \in {Goal.inv[j], None}
  BY <1>4, <1>5, <1>6 DEF Tables
<1>8. i # None => Goal.inv[i] # None
  BY <1>1, OnlineGood, TablesAssumption DEF Carried
<1>9. \A x \in d.mails : LetterFrom(Goal, d, x)
  BY <1>3, <1>6, <1>8 DEF LetterFrom
<1>10. BelowBuyout(d)  BY <1>4, <1>6 DEF BelowBuyout
<1>11. AnsweredFrom(Goal, d)  BY <1>4, <1>6, BidsStand
<1>. QED  BY <1>1, <1>6, <1>7, <1>9, <1>10, <1>11, LettersDues

LEMMA ReturnToSenderDues ==
  ASSUME TypeOK, IdsFresh, NEW kinds, ProperState(kinds), TypeOK', Good, Dues,
         NEW p \in Players, NEW e \in box[p], ReturnToSender(p, e)
  PROVE  Dues'
<1>. DEFINE m == e.mail
            x == Draft(m.to, m.from, "normal", TRUE, m.item, m.money, 0)
            drafts == <<x>>
            letters == Stamped(drafts)
            d0 == DeleteMails(Goal, {m.id})
            rest == Spend(d0, -m.money)
            d == InsertMails(rest, letters)
<1>1. Enqueue(d) /\ m.kind = "normal" /\ db' = db
  BY DEF ReturnToSender
<1>2. ProperMail(m, kinds, nextMail)
  BY ProperNow, BoxProper DEF ProperBox
<1>3. /\ m \in MailRow /\ m.from \in Players /\ m.to \in Players /\ m.item \in Items \cup {None}
      /\ m.money \in Nat
  BY <1>1, <1>2 DEF ProperMail, MailRow
<1>4. PICK row \in Goal.mails : m.item # None => m.item = row.item
  BY EntryRow
<1>. HIDE DEF m
<1>5. ProperDrafts(drafts) /\ Range(drafts) = {x} /\ x.item = m.item
  BY <1>3, LetterProper, RangeFacts DEF Draft
<1>. HIDE DEF x, drafts
<1>6. \A l \in letters : l.item = m.item
  BY <1>5, StampedIs
<1>. HIDE DEF letters
<1>7. Goal \in Tables /\ BelowBuyout(Goal)  BY DuesNow
<1>8. /\ d0 \in Tables /\ d0.inv = Goal.inv /\ d0.items = Goal.items
      /\ d0.auctions = Goal.auctions /\ d0.mails \subseteq Goal.mails
  <2>1. d0 \in Tables  BY ProperNow, DeleteMailsProper DEF Proper
  <2>2. /\ d0.inv = Goal.inv /\ d0.items = Goal.items
        /\ d0.auctions = Goal.auctions /\ d0.mails = {y \in Goal.mails : y.id \notin {m.id}}
    BY <1>7, Columns DEF Same
  <2>. QED  BY <2>1, <2>2
<1>. HIDE DEF d0
<1>9. /\ d.inv = Goal.inv /\ d.items = Goal.items /\ d.auctions = Goal.auctions
      /\ d.mails \subseteq Goal.mails \cup letters
  BY <1>8 DEF InsertMails, Spend, Tables
<1>. HIDE DEF d, rest
<1>10. \A y \in d.mails : LetterFrom(Goal, d, y)
  BY <1>4, <1>6, <1>9 DEF LetterFrom
<1>11. BelowBuyout(d)  BY <1>7, <1>9 DEF BelowBuyout
<1>12. AnsweredFrom(Goal, d)  BY <1>7, <1>9, BidsStand
<1>. QED  BY <1>1, <1>9, <1>10, <1>11, <1>12, LettersDues

LEMMA ReturnToHouseDues ==
  ASSUME TypeOK, TypeOK', Good, Dues,
         NEW p \in Players, NEW e \in box[p], ReturnToHouse(p, e)
  PROVE  Dues'
<1>. DEFINE d0 == DeleteMails(Goal, {e.mail.id})
            d == LoseItems(d0, {e.mail.item} \ {None})
<1>1. Enqueue(d) /\ db' = db
  BY DEF ReturnToHouse
<1>2. Goal \in Tables /\ BelowBuyout(Goal)  BY DuesNow
<1>3. /\ d.inv = Goal.inv /\ d.items = Goal.items /\ d.auctions = Goal.auctions
      /\ d.mails \subseteq Goal.mails
  BY <1>2 DEF LoseItems, DeleteMails, Tables
<1>. HIDE DEF d, d0
<1>4. \A y \in d.mails : LetterFrom(Goal, d, y)
  BY <1>3 DEF LetterFrom
<1>5. BelowBuyout(d)  BY <1>2, <1>3 DEF BelowBuyout
<1>6. AnsweredFrom(Goal, d)  BY <1>2, <1>3, BidsStand
<1>. QED  BY <1>1, <1>3, <1>4, <1>5, <1>6, LettersDues

\* A mailbox is saved: what its letters and those that are new carry.
LEMMA SavedFrom ==
  ASSUME TypeOK, Good, NEW p \in Players, NEW i, NEW b, Edited(b, p, i),
         NEW letters, CarryOnly(letters, None), NEW r, Based(r, letters, i),
         NEW d, d = SaveMails(r, b)
  PROVE  \A y \in d.mails : y.item = None \/ \E x \in Goal.mails : x.item = y.item
<1>. PICK U : U = In(b, "changed")  OBVIOUS
<1>. PICK D : D = In(b, "deleted")  OBVIOUS
<1>1. LettersOf(r, U, D, i)
  BY EditedLetters
<1>2. r \in Tables /\ UniqueIds(r) /\ r.mails = Goal.mails \cup letters
  BY DEF Based, GoodBut
<1>3. d = SaveLetters(r, U, D)
  BY DEF SaveMails, SaveLetters
<1>4. \A y \in d.mails : y \in r.mails \/ y \in U
  BY <1>1, <1>2, <1>3, SavedRows
<1>5. \A y \in r.mails : y.item = None \/ \E x \in Goal.mails : x.item = y.item
  BY <1>2 DEF CarryOnly
<1>6. ASSUME NEW y \in U, y.item # None
      PROVE  \E x \in Goal.mails : x.item = y.item
  <2>1. PICK m \in r.mails : Changed(r, m, y, i)
    BY <1>1 DEF LettersOf
  <2>2. y.item = View(r, m).item
    BY <1>6, <2>1 DEF Changed
  <2>3. y.item = m.item
    BY <1>2, <1>6, <2>2, ViewFacts
  <2>. QED  BY <1>5, <1>6, <2>3
<1>. QED  BY <1>4, <1>5, <1>6

\* The letters that pay for the item i that is taken out of the mailbox, the
\* one item whose place r changes.
PaidFor(r, letters, i) ==
  /\ \A j \in Items : r.inv[j] = Goal.inv[j] \/ j = i
  /\ i \in Items => /\ i \in Goal.items
                   /\ \A m \in Goal.mails : m.item = i /\ m.cod > 0 =>
                        \E l \in letters : l.to = m.from /\ l.money = m.cod

LEMMA SavedDues ==
  ASSUME TypeOK, TypeOK', Good, Dues, NEW p \in Players, NEW i, NEW b, Edited(b, p, i),
         NEW letters, CarryOnly(letters, None), NEW r, Based(r, letters, i),
         TakenFrom(r, In(b, "changed"), i),
         NEW d, d = SaveMails(r, b), Enqueue(d), db' = db, PaidFor(r, letters, i)
  PROVE  Dues'
<1>1. d \in Tables  BY EnqueuedTables
<1>2. /\ d.items \subseteq Goal.items /\ d.inv = r.inv /\ d.auctions = Goal.auctions
      /\ \A j \in Goal.items \ d.items : r.inv[j] = None
      /\ \A l \in letters : l \in d.mails
  BY <1>1, SavedBoxGood
<1>3. \A l \in letters : l \in d.mails \ Goal.mails
  BY <1>2 DEF Based
<1>4. Goal \in Tables /\ GoodTables(Goal) /\ Gone(Goal) /\ BelowBuyout(Goal)
  BY DuesNow
<1>5. Gone(d)
  BY <1>2, <1>4 DEF Gone, PaidFor
<1>6. BelowBuyout(d)  BY <1>2, <1>4 DEF BelowBuyout
<1>7. \A m \in d.mails : LetterFrom(Goal, d, m)
  BY SavedFrom DEF LetterFrom
<1>8. ASSUME NEW j \in Items
      PROVE  BagFrom(Goal, d, j)
  BY <1>2, <1>3 DEF BagFrom, PaidFor
<1>9. Paid(Goal, d)
  <2>1. AnsweredFrom(Goal, d)  BY <1>2, <1>4, BidsStand
  <2>. QED  BY <1>4, <1>7, <1>8, <2>1, PaidWhen
<1>. QED  BY <1>1, <1>5, <1>6, <1>9, EnqueuedDues

LEMMA SaveMoneyDues ==
  ASSUME TypeOK, NEW kinds, ProperState(kinds), TypeOK', Good, Dues, NEW p \in Players,
         NEW g \in Nat, NEW b, Edited(b, p, None),
         Enqueue(SaveMails(SaveGold(Goal, p, g), b)), db' = db
  PROVE  Dues'
<1>. PICK r : r = SaveGold(Goal, p, g)  OBVIOUS
<1>. PICK d : d = SaveMails(r, b)  OBVIOUS
<1>1. Based(r, {}, None) /\ TakenFrom(r, In(b, "changed"), None)
  BY GoldSaved
<1>2. r.inv = Goal.inv
  <2>1. Goal \in Tables  BY DuesNow
  <2>2. r = SaveGold(Goal, p, g)  OBVIOUS
  <2>. QED  BY ONLY <2>1, <2>2 DEF SaveGold, Tables
<1>3. None \notin Items  BY TablesAssumption
<1>4. d = SaveMails(r, b) /\ Enqueue(d)  OBVIOUS
<1>5. \A j \in Items : r.inv[j] = Goal.inv[j] \/ j = None  BY <1>2
<1>6. None \in Items => /\ None \in Goal.items
                       /\ \A m \in Goal.mails : m.item = None /\ m.cod > 0 =>
                            \E l \in {} : l.to = m.from /\ l.money = m.cod
  BY <1>3
<1>7. PaidFor(r, {}, None)  BY <1>5, <1>6 DEF PaidFor
<1>. QED  BY <1>1, <1>4, <1>7, CarryNone, SavedDues

LEMMA TakeMoneyDues ==
  ASSUME TypeOK, NEW kinds, ProperState(kinds), TypeOK', Good, Dues,
         NEW p \in Players, NEW e \in box[p], TakeMoney(p, e)
  PROVE  Dues'
<1>. DEFINE g == ModifyMoney(gold[p], e.mail.money)
            f == [mail |-> [e.mail EXCEPT !.money = 0], state |-> "changed"]
            b == Replace(box[p], e, f)
<1>1. Enqueue(SaveMails(SaveGold(Goal, p, g), b)) /\ db' = db
  BY DEF TakeMoney
<1>2. PICK row \in Goal.mails :
        /\ e.mail = View(Goal, row) /\ row.id = e.mail.id /\ row.to = p /\ row \in MailRow
        /\ Fits(row.cod) /\ e.mail.cod = row.cod
  BY EntryRow
<1>3. Goal \in Tables /\ e.mail = [row EXCEPT !.item = e.mail.item] /\ e.mail.item \in Items \cup {None}
  <2>1. Goal \in Tables  BY GoodNow
  <2>. QED  BY <1>2, <2>1, ViewFacts DEF MailRow
<1>4. /\ f \in Entries /\ f.state = "changed" /\ f.mail.id = e.mail.id
      /\ f.mail.money = 0 /\ f.mail.cod = row.cod /\ Changed(Goal, row, f.mail, None)
  BY <1>2, <1>3 DEF Entries, MailRow, Changed
<1>5. g \in Nat
  <2>1. e.mail.money \in Int  BY <1>2, <1>3 DEF MailRow
  <2>. QED  BY <2>1, PlayerNow, ModifyMoneyNat
<1>. HIDE DEF f, g
<1>6. Edited(b, p, None)
  <2>1. Fits(0)  BY TablesAssumption DEF Fits
  <2>. QED  BY <1>2, <1>4, <2>1, EditedNow
<1>. HIDE DEF b
<1>. QED  BY <1>1, <1>5, <1>6, SaveMoneyDues

LEMMA SaveDues ==
  ASSUME TypeOK, NEW kinds, ProperState(kinds), TypeOK', Good, Dues,
         NEW p \in Players, NEW leaves \in BOOLEAN, Save(p, leaves)
  PROVE  Dues'
<1>1. Enqueue(SaveMails(SaveGold(Goal, p, gold[p]), box[p])) /\ db' = db
  BY DEF Save
<1>2. gold[p] \in Nat  BY PlayerNow
<1>3. Edited(box[p], p, None)  BY EditedNow
<1>. QED  BY <1>1, <1>2, <1>3, SaveMoneyDues

LEMMA TakeItemDues ==
  ASSUME TypeOK, IdsFresh, NEW kinds, ProperState(kinds), TypeOK', Good, Dues,
         NEW p \in Players, NEW e \in box[p], TakeItem(p, e)
  PROVE  Dues'
<1>. DEFINE m == e.mail
            i == m.item
            letters == Stamped(Payment(p, m))
            g == ModifyMoney(gold[p], -Int32(m.cod))
            taken == [mail |-> [m EXCEPT !.item = None, !.cod = 0], state |-> "changed"]
            b == Replace(box[p], e, taken)
            r == SaveGold(PutInInventory(InsertMails(Goal, letters), p, i), p, g)
            d == SaveMails(r, b)
<1>1. Enqueue(d) /\ i # None /\ db' = db
  BY DEF TakeItem
<1>2. PICK row \in Goal.mails :
        /\ m = View(Goal, row) /\ row.id = m.id /\ row.to = p /\ row \in MailRow
        /\ Fits(row.money) /\ m.money = row.money /\ Fits(row.cod) /\ m.cod = row.cod
        /\ i = row.item /\ i \in Goal.items
        /\ Goal.inv[i] = None /\ Ids(Goal.auctions, i) = {} /\ Ids(Goal.mails, i) = {row.id}
        /\ i \notin Goal.lost
  <2>1. i # None  BY <1>1
  <2>. QED  BY ONLY TypeOK, Good, p \in Players, e \in box[p], <2>1, AttachedRow
<1>3. Goal \in Tables /\ m \in MailRow /\ m.id = row.id /\ m = row
  <2>1. m = row  BY <1>2 DEF View
  <2>. QED  BY <1>2, <2>1, GoodNow
<1>4. g \in Nat
  <2>1. Int32(m.cod) \in Int  BY <1>3, Int32Facts DEF MailRow
  <2>. QED  BY <2>1, PlayerNow, ModifyMoneyNat
<1>. HIDE DEF g
<1>5. TakenTo(p, i, g, letters, r, b)
  <2>1. /\ letters = Stamped(Payment(p, e.mail)) /\ e.mail.item # None /\ i = e.mail.item
        /\ r = SaveGold(PutInInventory(InsertMails(Goal, letters), p, i), p, g)
        /\ b = Replace(box[p], e, [mail |-> [e.mail EXCEPT !.item = None, !.cod = 0],
                                   state |-> "changed"])
    BY <1>1
  <2>. HIDE DEF letters, r, b, i
  <2>. QED  BY <1>4, <2>1, TakenTables
<1>6. /\ taken.state = "changed" /\ taken.mail.id = row.id /\ taken.mail.item = None
  BY <1>3 DEF MailRow
<1>. HIDE DEF taken
<1>7. taken.mail \in In(b, "changed")
  BY <1>6 DEF In, Replace
<1>8. ProperMail(m, kinds, nextMail)
  BY ProperNow, BoxProper DEF ProperBox
<1>. DEFINE x == Draft(p, m.from, "normal", TRUE, None, m.cod, 0)
<1>. HIDE DEF m, i
<1>9. m.cod > 0 => \E l \in letters : l.to = m.from /\ l.money = m.cod
  <2>1. SUFFICES ASSUME m.cod > 0 PROVE \E l \in letters : l.to = m.from /\ l.money = m.cod
    OBVIOUS
  <2>2. m.cod \in Nat /\ m.from \in Players
    BY <1>3, <1>8, <2>1 DEF ProperMail, MailRow
  <2>3. Payment(p, m) = <<x>> /\ x.to = m.from /\ x.money = m.cod
    BY <2>1 DEF Payment, Draft
  <2>4. ProperDrafts(<<x>>)
    BY <2>2, LetterProper
  <2>. HIDE DEF x
  <2>5. x \in Range(Payment(p, m))
    BY <2>3, RangeFacts
  <2>. QED  BY <2>3, <2>4, <2>5, StampedIs
<1>. HIDE DEF letters, b, r, x
<1>10. /\ Edited(b, p, i) /\ Based(r, letters, i) /\ CarryOnly(letters, None)
       /\ r.inv = [Goal.inv EXCEPT ![i] = p] /\ r.mails = Goal.mails \cup letters
  BY <1>5 DEF TakenTo
<1>11. r.items = Goal.items /\ r.auctions = Goal.auctions /\ r.lost = Goal.lost
  BY <1>10 DEF Based
<1>12. \A j \in Items : r.inv[j] = IF j = i THEN p ELSE Goal.inv[j]
  BY <1>3, <1>10 DEF Tables
<1>13. i \in Items  BY <1>2, <1>3 DEF Tables
<1>14. TakenFrom(r, In(b, "changed"), i)
  <2>1. \A l \in letters : l.item = None  BY <1>10 DEF CarryOnly
  <2>2. Ids(letters, i) = {}
    BY <1>1, <2>1 DEF Ids
  <2>3. Ids(r.mails, i) = {row.id}
    BY <1>2, <1>10, <2>2, IdsFacts
  <2>4. p # None  BY TablesAssumption
  <2>5. r.inv[i] = p /\ Ids(r.auctions, i) = {} /\ i \notin r.lost
    BY <1>2, <1>11, <1>12, <1>13
  <2>. QED  BY <1>6, <1>7, <2>3, <2>4, <2>5 DEF TakenFrom
<1>15. \A n \in Goal.mails : n.item = i => n = m
  <2>1. \A n \in Goal.mails : n.item = i => n.id \in Ids(Goal.mails, i)
    BY IdsFacts
  <2>2. UniqueIds(Goal)  BY GoodNow
  <2>3. \A n \in Goal.mails : n.item = i => n.id = m.id
    BY <1>2, <1>3, <2>1
  <2>4. m \in Goal.mails  BY <1>3
  <2>. QED  BY ONLY <2>2, <2>3, <2>4 DEF UniqueIds
<1>. HIDE DEF d
<1>16. d = SaveMails(r, b)  BY DEF d
<1>17. \A n \in Goal.mails : n.item = i /\ n.cod > 0 =>
         \E l \in letters : l.to = n.from /\ l.money = n.cod
  BY ONLY <1>9, <1>15
<1>18. \A j \in Items : r.inv[j] = Goal.inv[j] \/ j = i
  BY <1>12
<1>19. Enqueue(d) /\ db' = db /\ i \in Goal.items
  BY <1>1, <1>2
<1>20. PaidFor(r, letters, i)
  BY <1>17, <1>18, <1>19 DEF PaidFor
<1>. QED  BY <1>10, <1>14, <1>16, <1>19, <1>20, SavedDues

\* The two operations of the pass over old mails.
LEMMA AppendedTwoDues ==
  ASSUME TypeOK, Dues, NEW t \in Tasks, NEW u \in Tasks, queue' = queue \o <<t, u>>,
         db' = db, Gone(t.db), BelowBuyout(t.db), Paid(Goal, t.db),
         Gone(u.db), BelowBuyout(u.db), Paid(t.db, u.db)
  PROVE  Dues'
<1>1. queue \in Seq(Tasks) /\ <<t, u>> \in Seq(Tasks)  BY TypeOKParts
<1>2. PICK n \in Nat : n = Len(queue) /\ DOMAIN queue = 1 .. n
  BY <1>1
<1>3. /\ DOMAIN queue' = 1 .. n + 2 /\ queue'[n + 1] = t /\ queue'[n + 2] = u
      /\ \A k \in 1 .. n : queue'[k] = queue[k]
  BY <1>1, <1>2
<1>4. Goal = IF n + 1 = 1 THEN db ELSE queue[n].db
  <2>1. n = 0 <=> queue = <<>>  BY <1>1, <1>2
  <2>. QED  BY <1>2, <2>1 DEF Goal, Last
<1>5. \A d \in Durable' : Gone(d) /\ BelowBuyout(d)
  <2>1. Durable' = Durable \cup {t.db, u.db}  BY AppendedTwo
  <2>. QED  BY <2>1 DEF Dues
<1>6. ASSUME NEW k \in 1 .. n + 2
      PROVE  Paid(IF k = 1 THEN db' ELSE queue'[k - 1].db, queue'[k].db)
  <2>1. CASE k = n + 1
    <3>1. n # 0 => n \in 1 .. n  BY <1>2
    <3>2. (IF k = 1 THEN db' ELSE queue'[k - 1].db) = Goal
      BY <1>2, <1>3, <1>4, <2>1, <3>1
    <3>. QED  BY <1>3, <2>1, <3>2
  <2>2. CASE k = n + 2
    <3>1. k # 1 /\ k - 1 = n + 1  BY <1>2, <2>2
    <3>2. (IF k = 1 THEN db' ELSE queue'[k - 1].db) = t.db
      BY <1>3, <3>1
    <3>. QED  BY <1>3, <2>2, <3>2
  <2>3. CASE k # n + 1 /\ k # n + 2
    <3>1. k \in 1 .. n /\ (k # 1 => k - 1 \in 1 .. n)
      BY <1>2, <2>3
    <3>2. Paid(IF k = 1 THEN db ELSE queue[k - 1].db, queue[k].db)
      BY <1>2, <3>1 DEF Dues
    <3>. QED  BY <1>3, <3>1, <3>2
  <2>. QED  BY <2>1, <2>2, <2>3
<1>. QED  BY <1>3, <1>5, <1>6 DEF Dues

\* Tables in which letters and items are gone, or letters are turned round.
LEMMA PassedDues ==
  ASSUME NEW d \in Tables, GoodTables(d), Gone(d), BelowBuyout(d), NEW r,
         r.inv = d.inv, r.auctions = d.auctions,
         \A j \in d.items \ r.items : d.inv[j] = None,
         \A m \in r.mails : \E x \in d.mails : x.item = m.item
  PROVE  Paid(d, r) /\ Gone(r) /\ BelowBuyout(r)
<1>1. Paid(d, r)  BY PaidLetters
<1>2. Gone(r) /\ BelowBuyout(r)  BY DEF Gone, BelowBuyout
<1>. QED  BY <1>1, <1>2

LEMMA ReturnOrDeleteOldMailDues ==
  ASSUME TypeOK, NEW kinds, ProperState(kinds), Good, Dues,
         NEW m \in db.mails, ReturnOrDeleteOldMail(m), ~crossed'
  PROVE  Dues'
<1>. DEFINE returned == m.item # None /\ m.kind = "normal" /\ ~m.back
            emptied == IF m.item = None THEN Goal ELSE DeleteItems(Goal, {m.item})
            d == DeleteMails(emptied, {m.id})
            gone == Task(d, None)
            first == Task(emptied, None)
<1>1. /\ m \in Goal.mails /\ db' = db
      /\ \/ m.kind = "normal" /\ Enqueue(ReturnMail(Goal, m))
         \/ m.item = None /\ queue' = Append(queue, gone)
         \/ m.item # None /\ queue' = queue \o <<first, gone>>
  BY DEF ReturnOrDeleteOldMail, Meets
<1>2. Proper(Goal, kinds, nextMail, nextAuction) /\ ProperMail(m, kinds, nextMail)
  BY ProperNow DEF Proper
<1>3. Goal \in Tables /\ GoodTables(Goal) /\ Gone(Goal) /\ BelowBuyout(Goal)
  BY DuesNow
<1>4. m \in MailRow
  BY <1>1, <1>3 DEF Tables
<1>5. CASE m.kind = "normal" /\ Enqueue(ReturnMail(Goal, m))
  <2>. PICK r : r = ReturnMail(Goal, m)  OBVIOUS
  <2>1. r \in Tables
    BY <1>2, <1>4, <1>5, ReturnMailProper DEF ProperMail, Proper
  <2>2. Same(Goal, r) /\ r.auctions = Goal.auctions
    BY <1>1, <1>3, MoreColumns
  <2>3. \A x \in Goal.mails : Returned(x, m).item = x.item
    BY <1>3 DEF Returned, Tables, MailRow
  <2>4. \A y \in r.mails : \E x \in Goal.mails : x.item = y.item
    BY <1>3, <2>3, ReturnedRows
  <2>5. Paid(Goal, r) /\ Gone(r) /\ BelowBuyout(r)
    BY <1>3, <2>2, <2>4, PassedDues DEF Same
  <2>6. Enqueue(r)  BY <1>5
  <2>. QED  BY <1>1, <2>1, <2>5, <2>6, EnqueuedDues
<1>6. CASE ~(m.kind = "normal" /\ Enqueue(ReturnMail(Goal, m)))
  <2>1. emptied \in Tables /\ d \in Tables
    <3>1. Proper(emptied, kinds, nextMail, nextAuction)
      BY <1>2, DeleteItemsProper
    <3>. HIDE DEF emptied
    <3>2. Proper(d, kinds, nextMail, nextAuction)
      BY <3>1, DeleteMailsProper
    <3>. QED  BY <3>1, <3>2 DEF Proper
  <2>2. /\ GoodTables(emptied) /\ emptied.mails = Goal.mails /\ emptied.inv = Goal.inv
        /\ emptied.auctions = Goal.auctions
        /\ \A j \in Goal.items \ emptied.items : Goal.inv[j] = None
    <3>1. CASE m.item = None
      BY <1>3, <3>1
    <3>2. CASE m.item # None
      <4>1. emptied = DeleteItems(Goal, {m.item})  BY <3>2
      <4>. HIDE DEF emptied
      <4>2. /\ GoodTables(emptied) /\ \A j \in Goal.items \ emptied.items : Goal.inv[j] = None
        BY <1>1, <1>3, <4>1, ErasedGood
      <4>3. /\ emptied.mails = Goal.mails /\ emptied.inv = Goal.inv
            /\ emptied.auctions = Goal.auctions
        BY <1>3, <4>1, Columns
      <4>. QED  BY <4>2, <4>3
    <3>. QED  BY <3>1, <3>2
  <2>3. m.item = None => emptied = Goal  OBVIOUS
  <2>. HIDE DEF emptied
  <2>4. Paid(Goal, emptied) /\ Gone(emptied) /\ BelowBuyout(emptied)
    BY <1>3, <2>2, PassedDues
  <2>5. /\ d.inv = emptied.inv /\ d.items = emptied.items /\ d.auctions = emptied.auctions
        /\ d.mails \subseteq emptied.mails
    <3>1. Same(emptied, d) /\ d.auctions = emptied.auctions
      BY <2>1, Columns
    <3>2. d.mails = {x \in emptied.mails : x.id \notin {m.id}}
      BY <2>1, Columns
    <3>. HIDE DEF d
    <3>. QED  BY <3>1, <3>2 DEF Same
  <2>6. first \in Tasks /\ gone \in Tasks /\ first.db = emptied /\ gone.db = d
    BY <2>1 DEF Tasks, Task
  <2>. HIDE DEF d
  <2>7. Paid(emptied, d) /\ Gone(d) /\ BelowBuyout(d)
    BY <2>1, <2>2, <2>4, <2>5, PassedDues
  <2>8. \/ m.item = None /\ queue' = Append(queue, gone)
        \/ queue' = queue \o <<first, gone>>
    BY <1>1, <1>6
  <2>. HIDE DEF first, gone
  <2>9. CASE m.item = None /\ queue' = Append(queue, gone)
    BY <1>1, <2>3, <2>6, <2>7, <2>9, AppendedDues
  <2>10. CASE queue' = queue \o <<first, gone>>
    BY <1>1, <2>4, <2>6, <2>7, <2>10, AppendedTwoDues
  <2>. QED  BY <2>8, <2>9, <2>10
<1>. QED  BY <1>5, <1>6

LEMMA NextDues ==
  ASSUME LogTrade, Narrow, TInv, TInv', Good, Dues, ~crossed', [Next]_vars
  PROVE  Dues'
<1>. PICK kinds : ProperState(kinds)  BY DEF TInv
<1>0. TypeOK /\ TypeOK' /\ IdsFresh
  BY NumbersFresh DEF TInv
<1>1. ASSUME NEW p \in Players, Trade(p) PROVE Dues'
  BY <1>0, <1>1, SellItemDues, AbortIsCrash, CrashDues, BidDues, BuyOutDues, CancelDues DEF Trade
<1>2. ASSUME NEW p \in Players, Post(p) PROVE Dues'
  <2>1. ASSUME NEW q \in Players, NEW i \in Items \cup {None}, NEW n \in Sums, NEW c \in Sums,
               SendMail(p, q, i, n, c)
        PROVE  Dues'
    BY <1>0, <2>1, SendMailDues
  <2>2. LoadMail(p) => Dues'
    BY SameDues DEF LoadMail
  <2>3. ASSUME NEW e \in box[p],
               \/ ReturnToSender(p, e) \/ ReturnToHouse(p, e)
               \/ TakeItem(p, e) \/ TakeMoney(p, e)
        PROVE  Dues'
    BY <1>0, <2>3, ReturnToSenderDues, ReturnToHouseDues, TakeItemDues, TakeMoneyDues
  <2>4. ASSUME NEW e \in box[p], MailDelete(p, e) PROVE Dues'
    BY <2>4, SameDues DEF MailDelete
  <2>. QED  BY <1>2, <2>1, <2>2, <2>3, <2>4 DEF Post
<1>3. ASSUME NEW p \in Players, Earn(p) \/ EnterWorld(p) PROVE Dues'
  BY <1>3, SameDues DEF Earn, EnterWorld
<1>4. ASSUME NEW p \in Players, Login(p) \/ \E leaves \in BOOLEAN : Save(p, leaves) PROVE Dues'
  BY <1>0, <1>4, LoginDues, SaveDues
<1>5. ASSUME NEW r \in db.auctions, NEW a \in auctions, Expire(r, a) PROVE Dues'
  BY <1>0, <1>5, ExpireDues
<1>6. ASSUME NEW m \in db.mails, ReturnOrDeleteOldMail(m) PROVE Dues'
  BY <1>0, <1>6, ReturnOrDeleteOldMailDues
<1>7. Execute \/ Crash => Dues'
  BY <1>0, ExecuteDues, CrashDues
<1>8. ASSUME UNCHANGED vars PROVE Dues'
  BY <1>8, SameDues DEF vars
<1>. QED  BY <1>1, <1>2, <1>3, <1>4, <1>5, <1>6, <1>7, <1>8 DEF Next

\* Only the worker changes the database.
LEMMA OthersKeep ==
  ASSUME [Next]_vars
  PROVE  Execute \/ db' = db
<1>1. ASSUME NEW p \in Players, Trade(p) PROVE db' = db
  BY <1>1 DEF Trade, SellItem, SellItemAborts, Crash, Bid, BuyOut, Cancel
<1>2. ASSUME NEW p \in Players, Post(p) PROVE db' = db
  BY <1>2 DEF Post, SendMail, LoadMail, MailDelete, ReturnToSender, ReturnToHouse, TakeItem,
            TakeMoney
<1>3. ASSUME NEW p \in Players,
             Earn(p) \/ Login(p) \/ EnterWorld(p) \/ \E leaves \in BOOLEAN : Save(p, leaves)
      PROVE  db' = db
  BY <1>3 DEF Earn, Login, EnterWorld, Save
<1>4. ASSUME NEW r \in db.auctions, NEW a \in auctions, Expire(r, a) PROVE db' = db
  BY <1>4 DEF Expire
<1>5. ASSUME NEW m \in db.mails, ReturnOrDeleteOldMail(m) PROVE db' = db
  BY <1>5 DEF ReturnOrDeleteOldMail
<1>6. Crash => db' = db  BY DEF Crash
<1>7. UNCHANGED vars => db' = db  BY DEF vars
<1>. QED  BY <1>1, <1>2, <1>3, <1>4, <1>5, <1>6, <1>7 DEF Next

\* The strengthening for SoldIsPaid, CodIsPaid and BidIsAnswered: what is owed is paid by
\* every operation that is under way, whatever the operations before it.
PInv == GInv /\ (crossed \/ Dues)

LEMMA PInvStep ==
  ASSUME LogTrade, Narrow
  PROVE  PInv /\ [Next]_vars => PInv'
<1>. SUFFICES ASSUME PInv, [Next]_vars PROVE PInv'  OBVIOUS
<1>1. GInv /\ GInv'  BY GInvStep DEF PInv
<1>2. CASE crossed'
  BY <1>1, <1>2 DEF PInv
<1>3. CASE ~crossed'
  <2>1. ~crossed  BY <1>3, CrossedStays
  <2>. QED  BY <1>1, <1>3, <2>1, NextDues DEF PInv, GInv
<1>. QED  BY <1>2, <1>3

LEMMA PInvPaid ==
  ASSUME PInv, [Next]_vars, ~crossed
  PROVE  Sold /\ Bought /\ Answered
<1>1. TypeOK /\ Good /\ Dues  BY DEF PInv, GInv, TInv
<1>2. Paid(db, db')
  <2>1. CASE Execute
    BY <1>1, <2>1, ExecuteDues
  <2>2. CASE db' = db
    <3>1. db \in Durable  BY DEF Durable
    <3>2. db \in Tables /\ GoodTables(db) /\ Gone(db)
      BY <1>1, <3>1 DEF TypeOK, Good, Dues
    <3>. QED  BY <2>2, <3>2, PaidSame
  <2>. QED  BY <2>1, <2>2, OthersKeep
<1>. QED  BY <1>2 DEF Paid, SoldFrom, BoughtFrom, AnsweredFrom, Sold, Bought, Answered

\* A sold item reaches another than its owner only in the step of the database
\* that sends the owner the bid and the deposit, less the cut.
THEOREM SoldIsPaidAlways ==
  ASSUME LogTrade, Narrow
  PROVE  Spec => SoldIsPaid
<1>1. Init => PInv
  BY InitTInv, InitGood, InitDues DEF PInv, GInv
<1>2. PInv /\ [Next]_vars => PInv'
  BY PInvStep
<1>3. PInv /\ [Next]_vars => [crossed \/ Sold]_vars
  BY PInvPaid
<1>. QED  BY <1>1, <1>2, <1>3, PTL DEF Spec, SoldIsPaid

\* An item sent cash on delivery reaches the receiver's bags only in the step
\* of the database that sends its price to the sender.
THEOREM CodIsPaidAlways ==
  ASSUME LogTrade, Narrow
  PROVE  Spec => CodIsPaid
<1>1. Init => PInv
  BY InitTInv, InitGood, InitDues DEF PInv, GInv
<1>2. PInv /\ [Next]_vars => PInv'
  BY PInvStep
<1>3. PInv /\ [Next]_vars => [crossed \/ Bought]_vars
  BY PInvPaid
<1>. QED  BY <1>1, <1>2, <1>3, PTL DEF Spec, CodIsPaid

\* A bid is never lost: it stands until the step of the database that sends
\* the bidder the money or the item.
THEOREM BidIsAnsweredAlways ==
  ASSUME LogTrade, Narrow
  PROVE  Spec => BidIsAnswered
<1>1. Init => PInv
  BY InitTInv, InitGood, InitDues DEF PInv, GInv
<1>2. PInv /\ [Next]_vars => PInv'
  BY PInvStep
<1>3. PInv /\ [Next]_vars => [crossed \/ Answered]_vars
  BY PInvPaid
<1>. QED  BY <1>1, <1>2, <1>3, PTL DEF Spec, BidIsAnswered
=============================================================================
