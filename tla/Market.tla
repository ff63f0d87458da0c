------------------------------- MODULE Market -------------------------------
(***************************************************************************)
(* Auctions, mail and the purses of players, in memory and in the          *)
(* character database.  Handlers change memory and append transactions to  *)
(* the queue of the asynchronous connection, which has one worker; a few   *)
(* statements read the database at once, behind the queue.  The server may *)
(* crash between any two steps and starts again from the tables.           *)
(*                                                                         *)
(* Handlers are atomic.  The two of a client that touch the same mail or   *)
(* auction on the threads of two maps are not interleaved, nor is the      *)
(* world's with either.  Items are sold as whole stacks.  Delivery and     *)
(* expiry may happen at any moment.  Statements do not fail.               *)
(***************************************************************************)
EXTENDS CharacterTables, Sequences, SequencesExt

CONSTANTS
  Start,      \* what every player has at first
  Owner,      \* whose every item is at first
  Present,    \* the players in the world at first
  MailCost,   \* 30 copper
  Deposit,    \* GetAuctionDeposit
  CutRate,    \* ConsignmentRate, in per cent
  Offers,     \* pairs of a starting bid and a buyout, or 0
  Prices,     \* bids
  Sums,       \* sums of money sent and cash on delivery
  MaxMoney,   \* MAX_MONEY_AMOUNT
  LogTrade,   \* GM.LogTrade
  Crossing,   \* may the nightly pass over old mails meet a mailbox that is
              \* read before its statements, or after its answer?  FALSE is a bound
  MaxMail, MaxAuction, MaxQueue, MaxCrashes, MaxEarned, MaxLogins \* bounds

ASSUME MarketAssumption ==
  /\ Start \in Nat /\ Owner \in [Items -> Players] /\ Present \subseteq Players /\ MailCost \in Nat
  /\ Offers \subseteq (Nat \ {0}) \X Nat
  /\ Deposit \in Nat /\ CutRate \in 0 .. 100 /\ Prices \subseteq Nat \ {0} /\ Sums \subseteq Nat
  /\ MaxMoney \in Nat /\ LogTrade \in BOOLEAN /\ Crossing \in BOOLEAN
  /\ {MaxMail, MaxAuction, MaxQueue, MaxCrashes, MaxEarned, MaxLogins} \subseteq Nat

VARIABLES
  db,          \* the tables
  queue,       \* transactions and log-in queries not yet executed
  auctions,    \* AuctionsMap
  aitems,      \* mAitems
  phase,       \* a player is offline, loading, loaded, online or has opened the mailbox
  gold,        \* PLAYER_FIELD_COINAGE, from the answer to the log-in query on
  bag,         \* the items a player carries, likewise
  box,         \* m_mail
  nextMail,    \* _mailId
  nextAuction, \* _auctionId
  purse,       \* history: what a player earned elsewhere since gold was saved
  earned,      \* how much was earned in all
  logins,      \* how often players logged in
  crashes,     \* how often the server crashed
  crossed      \* history: the nightly pass over old mails worked on a row that
               \* a mailbox had read or would read before the queue was empty

world == <<auctions, aitems>>
players == <<phase, gold, bag, box, purse>>
bounds == <<earned, logins, crashes>>
vars == <<db, queue, world, players, nextMail, nextAuction, bounds, crossed>>

-----------------------------------------------------------------------------
(* The database from outside. *)

Task(d, reader) == [db |-> d, reader |-> reader]
\* The tables once the queue is empty.
Goal == IF queue = <<>> THEN db ELSE Last(queue).db
Room(n) == Len(queue) + n <= MaxQueue
Enqueue(d) == Room(1) /\ queue' = Append(queue, Task(d, None))

Online(p) == phase[p] \in {"online", "mailbox"}
MailsLoaded(p) == phase[p] = "mailbox"

Meets(crossing) == (crossing => Crossing) /\ crossed' = (crossed \/ crossing)

ModifyMoney(g, n) ==
  IF n < 0 THEN IF g > -n THEN g + n ELSE 0
           ELSE IF g < MaxMoney - n THEN g + n ELSE g
TooMuch(g, n) == n > 0 /\ ~(g < MaxMoney - n)

Cut(bid) == (bid * CutRate) \div 100
OutBid(bid) == IF (bid * 5) \div 100 > 0 THEN (bid * 5) \div 100 ELSE 1

\* SaveGoldToDB: p has g.
SaveGold(d, p, g) == [d EXCEPT !.gold[p] = g, !.earned = @ + purse[p]]

-----------------------------------------------------------------------------
(* Letters. *)

Draft(from, to, kind, back, item, money, cod) ==
  [id |-> 0, from |-> from, to |-> to, kind |-> kind, back |-> back,
   item |-> item, money |-> money, cod |-> cod]
House(to, item, money) == Draft(None, to, "auction", FALSE, item, money, 0)

\* GenerateMailID
Stamped(drafts) == {[drafts[k] EXCEPT !.id = nextMail + k - 1] : k \in DOMAIN drafts}
InBox(m) == [mail |-> m, state |-> "unchanged"]
Delivered(boxes, letters) ==
  [p \in Players |->
     boxes[p] \cup {InBox(m) : m \in {l \in letters : l.to = p /\ MailsLoaded(p)}}]
Sent(drafts) ==
  /\ nextMail + Len(drafts) <= MaxMail + 1
  /\ nextMail' = nextMail + Len(drafts)

\* Mutant: a letter for nobody.
OutbidMailAny(a, p) == IF a.bidder = p THEN <<>> ELSE <<House(a.bidder, None, a.bid)>>
\* Mutant: only a bidder who is online is told, and refunded.
OutbidMailOnline(a, p) ==
  IF a.bidder \in {None, p} \/ ~Online(a.bidder) THEN <<>>
  ELSE <<House(a.bidder, None, a.bid)>>
OutbidMail(a, p) ==
  IF a.bidder \in {None, p} THEN <<>> ELSE <<House(a.bidder, None, a.bid)>>
\* Mutant: only an owner who is online is told, and paid.
SuccessfulMailOnline(a) ==
  IF a.item \in aitems /\ Online(a.owner)
  THEN <<House(a.owner, None, a.bid + a.deposit - Cut(a.bid))>> ELSE <<>>
SuccessfulMail(a) ==
  IF a.item \in aitems
  THEN <<House(a.owner, None, a.bid + a.deposit - Cut(a.bid))>> ELSE <<>>
WonMail(a) ==
  IF a.item \in aitems /\ (Online(a.bidder) \/ LogTrade)
  THEN <<House(a.bidder, a.item, 0)>> ELSE <<>>
ExpiredMail(a) == IF a.item \in aitems THEN <<House(a.owner, a.item, 0)>> ELSE <<>>

\* Mutant: a payment for a sender who is not there is not sent.
PaymentOnline(p, m) ==
  IF m.cod > 0 /\ Online(m.from)
  THEN <<Draft(p, m.from, "normal", TRUE, None, m.cod, 0)>> ELSE <<>>
Payment(p, m) ==
  IF m.cod > 0 THEN <<Draft(p, m.from, "normal", TRUE, None, m.cod, 0)>> ELSE <<>>

-----------------------------------------------------------------------------
(* The server crashes, or aborts, and starts again from the tables.        *)

\* Mutant: the highest number again.
NextIdSame(rows) == IF rows = {} THEN 1 ELSE Max({r.id : r \in rows})
\* SetHighestGuids
NextId(rows) == IF rows = {} THEN 1 ELSE Max({r.id : r \in rows}) + 1
Crash ==
  /\ crashes < MaxCrashes
  /\ crashes' = crashes + 1
  /\ queue' = <<>>
  /\ auctions' = {a \in db.auctions : a.item \in db.items}
  /\ aitems' = {a.item : a \in auctions'}
  /\ phase' = [p \in Players |-> "offline"]
  /\ gold' = [p \in Players |-> 0]
  /\ bag' = [p \in Players |-> {}]
  /\ box' = [p \in Players |-> {}]
  /\ purse' = [p \in Players |-> 0]
  /\ nextMail' = NextId(db.mails)
  /\ nextAuction' = NextId(db.auctions)
  /\ UNCHANGED <<db, earned, logins, crossed>>

-----------------------------------------------------------------------------
(* The auction house. *)

SellItem(p, i, offer) ==
  /\ Online(p) /\ i \in bag[p] /\ i \notin aitems
  /\ gold[p] >= Deposit /\ nextAuction <= MaxAuction
  /\ LET a == [id |-> nextAuction, item |-> i, owner |-> p, startbid |-> offer[1],
               buyout |-> offer[2], bidder |-> None, bid |-> 0, deposit |-> Deposit]
         g == ModifyMoney(gold[p], -Deposit)
     IN  /\ auctions' = auctions \cup {a}
         /\ gold' = [gold EXCEPT ![p] = g]
         /\ Enqueue(SaveGold(InsertAuction(DeleteFromInventory(Goal, i), a), p, g))
  /\ aitems' = aitems \cup {i}
  /\ bag' = [bag EXCEPT ![p] = @ \ {i}]
  /\ nextAuction' = nextAuction + 1
  /\ purse' = [purse EXCEPT ![p] = 0]
  /\ UNCHANGED <<db, phase, box, nextMail, bounds, crossed>>

\* mAitems still names the item (see Expire): the ASSERT of AddAItem ends the
\* server before anything is committed.
SellItemAborts(p, i) ==
  /\ Online(p) /\ i \in bag[p] /\ i \in aitems
  /\ gold[p] >= Deposit
  /\ Crash

BuysOut(a, n) == a.buyout > 0 /\ n >= a.buyout
Allowed(p, a, n) ==
  /\ a.owner # p /\ n > a.bid /\ n >= a.startbid
  /\ BuysOut(a, n) \/ n >= a.bid + OutBid(a.bid)
  /\ gold[p] >= n

\* Mutant: the earlier bid is forgotten.
PaysAll(p, a, n) == ModifyMoney(gold[p], -n)
\* The bidder p pays n for a, but for what an earlier bid of p's has paid.
Pays(p, a, n) == ModifyMoney(gold[p], -(n - (IF a.bidder = p THEN a.bid ELSE 0)))

Bid(p, a, n) ==
  /\ Online(p) /\ Allowed(p, a, n) /\ ~BuysOut(a, n)
  /\ LET b == [a EXCEPT !.bidder = p, !.bid = n]
         letters == Stamped(OutbidMail(a, p))
         g == Pays(p, a, n)
     IN  /\ Sent(OutbidMail(a, p))
         /\ auctions' = (auctions \ {a}) \cup {b}
         /\ gold' = [gold EXCEPT ![p] = g]
         /\ box' = Delivered(box, letters)
         /\ Enqueue(SaveGold(UpdateBid(InsertMails(Goal, letters), b), p, g))
  /\ purse' = [purse EXCEPT ![p] = 0]
  /\ UNCHANGED <<db, aitems, phase, bag, nextAuction, bounds, crossed>>

BuyOut(p, a, n) ==
  /\ Online(p) /\ Allowed(p, a, n) /\ BuysOut(a, n)
  /\ LET b == [a EXCEPT !.bidder = p, !.bid = a.buyout]
         drafts == OutbidMail(a, p) \o SuccessfulMail(b) \o WonMail(b)
         letters == Stamped(drafts)
         g == Pays(p, a, a.buyout)
     IN  /\ Sent(drafts)
         /\ gold' = [gold EXCEPT ![p] = g]
         /\ box' = Delivered(box, letters)
         /\ Enqueue(SaveGold(Spend(DeleteAuction(InsertMails(Goal, letters), a),
                                   Cut(b.bid)), p, g))
  /\ auctions' = auctions \ {a}
  /\ aitems' = aitems \ {a.item}
  /\ purse' = [purse EXCEPT ![p] = 0]
  /\ UNCHANGED <<db, phase, bag, nextAuction, bounds, crossed>>

\* HandleAuctionRemoveItem.
Cancel(p, a) ==
  /\ Online(p) /\ a.owner = p /\ a.item \in aitems
  /\ LET cut == IF a.bidder = None THEN 0 ELSE Cut(a.bid)
         drafts == OutbidMail(a, None) \o <<House(p, a.item, 0)>>
         letters == Stamped(drafts)
         g == ModifyMoney(gold[p], -cut)
     IN  /\ gold[p] >= cut
         /\ Sent(drafts)
         /\ gold' = [gold EXCEPT ![p] = g]
         /\ box' = Delivered(box, letters)
         /\ Enqueue(DeleteAuction(SaveGold(Spend(InsertMails(Goal, letters),
                                                 cut + a.deposit), p, g), a))
  /\ auctions' = auctions \ {a}
  /\ aitems' = aitems \ {a.item}
  /\ purse' = [purse EXCEPT ![p] = 0]
  /\ UNCHANGED <<db, phase, bag, nextAuction, bounds, crossed>>

\* AuctionHouseObject::Update, for one row r of the answer.  RemoveAItem reads
\* the number of the item from the entry that RemoveAuction has deleted.
Expire(r, a) ==
  /\ a.id = r.id
  /\ LET drafts == IF a.bidder = None THEN ExpiredMail(a)
                   ELSE SuccessfulMail(a) \o WonMail(a)
         fee == IF a.bidder = None THEN a.deposit ELSE Cut(a.bid)
         letters == Stamped(drafts)
     IN  /\ Sent(drafts)
         /\ box' = Delivered(box, letters)
         /\ Enqueue(Spend(DeleteAuction(InsertMails(Goal, letters), a), fee))
  /\ auctions' = auctions \ {a}
  /\ aitems' \in {aitems, aitems \ {a.item}}
  /\ UNCHANGED <<db, phase, gold, bag, nextAuction, purse, bounds, crossed>>

-----------------------------------------------------------------------------
(* Mailboxes. *)

SendMail(p, q, i, money, cod) ==
  /\ Online(p) /\ p # q /\ i \in bag[p] \cup {None}
  /\ cod > 0 => i # None
  /\ gold[p] >= MailCost + money
  /\ LET drafts == <<Draft(p, q, "normal", FALSE, i, money, cod)>>
         letters == Stamped(drafts)
         g == ModifyMoney(gold[p], -(MailCost + money))
         rest == IF i = None THEN Goal ELSE DeleteFromInventory(Goal, i)
     IN  /\ Sent(drafts)
         /\ gold' = [gold EXCEPT ![p] = g]
         /\ box' = Delivered(box, letters)
         /\ Enqueue(SaveGold(Spend(InsertMails(rest, letters), MailCost), p, g))
  /\ bag' = [bag EXCEPT ![p] = @ \ {i}]
  /\ purse' = [purse EXCEPT ![p] = 0]
  /\ UNCHANGED <<db, world, phase, nextAuction, bounds, crossed>>

Replace(b, e, f) == (b \ {e}) \cup {f}
In(b, state) == {e.mail : e \in {f \in b : f.state = state}}
\* What _SaveMail writes of the mailbox b, and what it leaves of it.
SaveMails(d, b) ==
  DeleteItems(DeleteMails(UpdateMails(d, In(b, "changed")),
                          {m.id : m \in In(b, "deleted")}),
              {m.item : m \in In(b, "deleted")} \ {None})
Saved(b) == {[e EXCEPT !.state = "unchanged"] : e \in {f \in b : f.state # "deleted"}}

\* HandleGetMailList, the first time.  The tables are read at once.
LoadMail(p) ==
  /\ phase[p] = "online"
  /\ LET mine == {m \in db.mails : m.to = p}
         seen == {IF m.item \in db.items THEN m ELSE [m EXCEPT !.item = None] : m \in mine}
     IN  /\ box' = [box EXCEPT ![p] = {InBox(m) : m \in seen}]
         /\ Meets(~(mine \subseteq Goal.mails)
                    \/ \E m \in mine : m.item \in db.items \ Goal.items)
  /\ phase' = [phase EXCEPT ![p] = "mailbox"]
  /\ UNCHANGED <<db, queue, world, gold, bag, nextMail, nextAuction, purse, bounds>>

MailDelete(p, e) ==
  /\ MailsLoaded(p) /\ e.mail.cod = 0
  /\ box' = [box EXCEPT ![p] = Replace(@, e, [e EXCEPT !.state = "deleted"])]
  /\ UNCHANGED <<db, queue, world, phase, gold, bag, nextMail, nextAuction, purse, bounds,
                 crossed>>

\* HandleMailReturnToSender of a player's letter, and of one of the house, which
\* the client does not offer: it is deleted with its money, and its item is left
\* where nothing leads to it.
ReturnToSender(p, e) ==
  /\ MailsLoaded(p) /\ e.state # "deleted" /\ e.mail.kind = "normal"
  /\ LET m == e.mail
         drafts == <<Draft(m.to, m.from, "normal", TRUE, m.item, m.money, 0)>>
         letters == Stamped(drafts)
         \* The money is not lost: it goes into the new letter.
         rest == Spend(DeleteMails(Goal, {m.id}), -m.money)
     IN  /\ Sent(drafts)
         /\ box' = Delivered([box EXCEPT ![p] = @ \ {e}], letters)
         /\ Enqueue(InsertMails(rest, letters))
  /\ UNCHANGED <<db, world, phase, gold, bag, nextAuction, purse, bounds, crossed>>

ReturnToHouse(p, e) ==
  /\ MailsLoaded(p) /\ e.state # "deleted" /\ e.mail.kind = "auction"
  /\ box' = [box EXCEPT ![p] = @ \ {e}]
  /\ Enqueue(LoseItems(DeleteMails(Goal, {e.mail.id}), {e.mail.item} \ {None}))
  /\ UNCHANGED <<db, world, phase, gold, bag, nextMail, nextAuction, purse, bounds, crossed>>

TakeItem(p, e) ==
  /\ MailsLoaded(p) /\ e.state # "deleted" /\ e.mail.item # None
  /\ gold[p] >= e.mail.cod
  /\ LET m == e.mail
         drafts == Payment(p, m)
         letters == Stamped(drafts)
         g == ModifyMoney(gold[p], -Int32(m.cod))
         taken == [mail |-> [m EXCEPT !.item = None, !.cod = 0], state |-> "changed"]
         b == Replace(box[p], e, taken)
     IN  /\ Sent(drafts)
         /\ gold' = [gold EXCEPT ![p] = g]
         /\ bag' = [bag EXCEPT ![p] = @ \cup {m.item}]
         /\ box' = Delivered([box EXCEPT ![p] = Saved(b)], letters)
         /\ Enqueue(SaveMails(SaveGold(PutInInventory(InsertMails(Goal, letters), p, m.item),
                                       p, g), b))
  /\ purse' = [purse EXCEPT ![p] = 0]
  /\ UNCHANGED <<db, world, phase, nextAuction, bounds, crossed>>

TakeMoney(p, e) ==
  /\ MailsLoaded(p) /\ e.state # "deleted" /\ e.mail.money > 0
  /\ ~TooMuch(gold[p], e.mail.money)
  /\ LET g == ModifyMoney(gold[p], e.mail.money)
         b == Replace(box[p], e, [mail |-> [e.mail EXCEPT !.money = 0], state |-> "changed"])
     IN  /\ gold' = [gold EXCEPT ![p] = g]
         /\ box' = [box EXCEPT ![p] = Saved(b)]
         /\ Enqueue(SaveMails(SaveGold(Goal, p, g), b))
  /\ purse' = [purse EXCEPT ![p] = 0]
  /\ UNCHANGED <<db, world, phase, bag, nextMail, nextAuction, bounds, crossed>>

-----------------------------------------------------------------------------
(* The nightly pass over old mails.  It reads the tables at once and skips *)
(* receivers whose mailbox is loaded; its statements are executed one by   *)
(* one.  One mail a step.                                                  *)

ReturnOrDeleteOldMail(m) ==
  /\ m \in db.mails /\ ~MailsLoaded(m.to)
  /\ LET returned == m.item # None /\ m.kind = "normal" /\ ~m.back
         emptied == IF m.item = None THEN Goal ELSE DeleteItems(Goal, {m.item})
         gone == Task(DeleteMails(emptied, {m.id}), None)
     IN  IF returned
         THEN Enqueue(ReturnMail(Goal, m))
         ELSE /\ Room(2)
              /\ queue' = IF m.item = None THEN Append(queue, gone)
                          ELSE queue \o <<Task(emptied, None), gone>>
  /\ Meets(m \notin Goal.mails)
  /\ UNCHANGED <<db, world, players, nextMail, nextAuction, bounds>>

-----------------------------------------------------------------------------
(* Players come and go, the worker works.                                  *)

Earn(p) ==
  /\ Online(p) /\ earned < MaxEarned
  /\ gold' = [gold EXCEPT ![p] = ModifyMoney(@, 1)]
  /\ purse' = [purse EXCEPT ![p] = @ + gold'[p] - gold[p]]
  /\ earned' = earned + 1
  /\ UNCHANGED <<db, queue, world, phase, bag, box, nextMail, nextAuction, logins, crashes,
                 crossed>>

\* SaveToDB, and LogoutPlayer after it or not.  A transaction that changes
\* nothing is left out.
Save(p, leaves) ==
  /\ Online(p)
  /\ LET d == SaveMails(SaveGold(Goal, p, gold[p]), box[p])
     IN  Enqueue(d) /\ (leaves \/ d # Goal)
  /\ box' = [box EXCEPT ![p] = IF leaves THEN {} ELSE Saved(@)]
  /\ phase' = [phase EXCEPT ![p] = IF leaves THEN "offline" ELSE @]
  /\ gold' = [gold EXCEPT ![p] = IF leaves THEN 0 ELSE @]
  /\ bag' = [bag EXCEPT ![p] = IF leaves THEN {} ELSE @]
  /\ purse' = [purse EXCEPT ![p] = 0]
  /\ UNCHANGED <<db, world, nextMail, nextAuction, bounds, crossed>>

\* Mutant: the queries are asked at once, past the queue.
LoginSync(p) ==
  /\ phase[p] = "offline" /\ Room(1) /\ logins < MaxLogins
  /\ logins' = logins + 1
  /\ phase' = [phase EXCEPT ![p] = "loaded"]
  /\ gold' = [gold EXCEPT ![p] = db.gold[p]]
  /\ bag' = [bag EXCEPT ![p] = {i \in db.items : db.inv[i] = p}]
  /\ UNCHANGED <<db, queue, world, box, nextMail, nextAuction, purse, earned, crashes, crossed>>
\* HandlePlayerLoginOpcode: the queries are one operation of the queue.
Login(p) ==
  /\ phase[p] = "offline" /\ Room(1) /\ logins < MaxLogins
  /\ logins' = logins + 1
  /\ queue' = Append(queue, Task(Goal, p))
  /\ phase' = [phase EXCEPT ![p] = "loading"]
  /\ UNCHANGED <<db, world, gold, bag, box, nextMail, nextAuction, purse, earned, crashes,
                 crossed>>

\* The worker takes and executes the first operation.
Execute ==
  /\ queue # <<>>
  /\ LET task == Head(queue)
         p == task.reader
     IN  /\ db' = task.db
         /\ IF p = None THEN UNCHANGED <<phase, gold, bag>>
            ELSE /\ phase' = [phase EXCEPT ![p] = "loaded"]
                 /\ gold' = [gold EXCEPT ![p] = db'.gold[p]]
                 /\ bag' = [bag EXCEPT ![p] = {i \in db'.items : db'.inv[i] = p}]
  /\ queue' = Tail(queue)
  /\ UNCHANGED <<world, box, nextMail, nextAuction, purse, bounds, crossed>>

\* HandlePlayerLogin, with what the query has found.
EnterWorld(p) ==
  /\ phase[p] = "loaded"
  /\ phase' = [phase EXCEPT ![p] = "online"]
  /\ UNCHANGED <<db, queue, world, gold, bag, box, nextMail, nextAuction, purse, bounds,
                 crossed>>

-----------------------------------------------------------------------------
Init ==
  /\ db = [gold |-> [p \in Players |-> Start], inv |-> Owner, items |-> Items,
           mails |-> {}, auctions |-> {}, earned |-> 0, spent |-> 0, lost |-> {}]
  /\ queue = <<>> /\ auctions = {} /\ aitems = {}
  /\ phase = [p \in Players |-> IF p \in Present THEN "online" ELSE "offline"]
  /\ gold = [p \in Players |-> IF p \in Present THEN Start ELSE 0]
  /\ bag = [p \in Players |-> {i \in Items : p \in Present /\ Owner[i] = p}]
  /\ box = [p \in Players |-> {}] /\ purse = [p \in Players |-> 0]
  /\ nextMail = 1 /\ nextAuction = 1
  /\ earned = 0 /\ logins = 0 /\ crashes = 0 /\ crossed = FALSE

Trade(p) ==
  \/ \E i \in Items, offer \in Offers : SellItem(p, i, offer)
  \/ \E i \in Items : SellItemAborts(p, i)
  \/ \E a \in auctions, n \in Prices : Bid(p, a, n) \/ BuyOut(p, a, n)
  \/ \E a \in auctions : Cancel(p, a)
Post(p) ==
  \/ \E q \in Players, i \in Items \cup {None}, n, c \in Sums :
       SendMail(p, q, i, n, c)
  \/ LoadMail(p)
  \/ \E e \in box[p] : \/ MailDelete(p, e)
                       \/ ReturnToSender(p, e) \/ ReturnToHouse(p, e)
                       \/ TakeItem(p, e) \/ TakeMoney(p, e)
Next ==
  \/ \E p \in Players :
       \/ Trade(p) \/ Post(p)
       \/ Earn(p) \/ Login(p) \/ EnterWorld(p)
       \/ \E leaves \in BOOLEAN : Save(p, leaves)
  \/ \E r \in db.auctions, a \in auctions : Expire(r, a)
  \/ \E m \in db.mails : ReturnOrDeleteOldMail(m)
  \/ Execute \/ Crash

Spec == Init /\ [][Next]_vars

-----------------------------------------------------------------------------
(* What must hold.  Crossings apart, which neither the pass over old mails *)
(* nor the mailbox looks for, it holds of every state a crash may leave.   *)

\* The values every variable takes.
TypeOK ==
  /\ db \in Tables /\ queue \in Seq([db : Tables, reader : Players \cup {None}])
  /\ auctions \subseteq AuctionRow /\ aitems \subseteq Items
  /\ phase \in [Players -> {"offline", "loading", "loaded", "online", "mailbox"}]
  /\ gold \in [Players -> Nat] /\ bag \in [Players -> SUBSET Items]
  /\ box \in [Players -> SUBSET [mail : MailRow, state : {"unchanged", "changed", "deleted"}]]
  /\ purse \in [Players -> Nat]
  /\ {nextMail, nextAuction, earned, logins, crashes} \subseteq Nat /\ crossed \in BOOLEAN

\* The tables now and after every operation under way: what a crash may leave.
Durable == {db} \cup {queue[k].db : k \in DOMAIN queue}

\* Money in purses, letters and the keeping of the auction house.
Wealth(d) ==
  Total(LAMBDA p : d.gold[p], Players) + MoneyIn(d.mails)
    + Total(LAMBDA a : a.bid + a.deposit, d.auctions)

\* No transaction makes or loses money: bids are refunded or paid out once,
\* less the cut, and what a crash leaves is worth what was earned by then.
Balanced ==
  crossed \/ \A d \in Durable :
               Wealth(d) + d.spent = Cardinality(Players) * Start + d.earned

Holders(d, i) ==
  {<<"player", p>> : p \in {q \in Players : d.inv[i] = q}}
    \cup {<<"mail", m.id>> : m \in {l \in d.mails : l.item = i}}
    \cup {<<"auction", a.id>> : a \in {r \in d.auctions : r.item = i}}

\* An item that exists is with a player, in a letter or up for auction, and in
\* one place only, whatever transactions a crash cuts off - unless its letter
\* from the auction house was returned, and then it is nowhere.
OneHolder ==
  crossed \/ \A d \in Durable : \A i \in d.items :
    /\ Holders(d, i) = {} <=> i \in d.lost
    /\ \A g, h \in Holders(d, i) : g = h

\* The auction house in memory is the one on disk, less what is under way,
\* after a restart too, and has every item it sells.
AuctionsSaved ==
  crossed \/ (auctions = Goal.auctions /\ \A a \in auctions : a.item \in aitems)

\* What a player has in memory - purse, bags, the letters of an open mailbox -
\* is what the database will say once the queue is empty: two players cannot
\* take the same item, nor one player twice.
MemoryAgrees ==
  crossed \/ \A p \in Players :
    /\ phase[p] \in {"loaded", "online", "mailbox"} =>
         /\ gold[p] = Goal.gold[p] + purse[p]
         /\ bag[p] = {i \in Goal.items : Goal.inv[i] = p}
    /\ \A e \in box[p] :
         /\ e.mail.to = p
         /\ \E m \in Goal.mails :
              e.mail = IF m.item \in Goal.items THEN m ELSE [m EXCEPT !.item = None]

\* New letters and auctions get numbers that no row of any table under way
\* has, after a restart too, so that no INSERT fails and no row is mistaken.
IdsFresh ==
  \A d \in Durable : /\ \A m \in d.mails : m.id < nextMail
                     /\ \A a \in d.auctions : a.id < nextAuction

\* A sold item reaches another than its owner only in the step of the database
\* in which the owner is sent the money for it: a crash leaves both or neither.
Sold ==
  \A a \in db.auctions, m \in db'.mails :
    m.item = a.item /\ m.to # a.owner =>
      \E l \in db'.mails \ db.mails :
        l.to = a.owner /\ l.money >= a.bid + a.deposit - Cut(a.bid)
SoldIsPaid == [][crossed \/ Sold]_vars

\* A bid stands, or is raised by its bidder, until the step of the database in
\* which the bidder is sent the bid back or the item: with the auction it is
\* overtaken, won, cancelled or bought out, never just deleted.
Answered ==
  \A a \in db.auctions : a.bidder # None =>
    \/ \E b \in db'.auctions : b.id = a.id /\ b.bidder = a.bidder /\ b.bid >= a.bid
    \/ \E l \in db'.mails \ db.mails :
         l.to = a.bidder /\ (l.item = a.item \/ l.money >= a.bid)
BidIsAnswered == [][crossed \/ Answered]_vars

\* An item sent cash on delivery reaches the receiver's bags only in the step
\* of the database in which its price is sent to the sender.
Bought ==
  \A m \in db.mails :
    m.cod > 0 /\ m.item # None /\ db'.inv[m.item] = m.to =>
      \E l \in db'.mails \ db.mails : l.to = m.from /\ l.money = m.cod
CodIsPaid == [][crossed \/ Bought]_vars
=============================================================================
