-------------------------- MODULE CharacterTables --------------------------
(***************************************************************************)
(* The tables of the character database that trade in items and money goes *)
(* through - characters.money, character_inventory, item_instance, mail    *)
(* with mail_items, auctionhouse - as one record, and the prepared         *)
(* statements on them as operators that return the record afterwards.      *)
(*                                                                         *)
(* A mail has at most one attachment, which is a column of its row; texts, *)
(* times, the owner column of item_instance and the read flag are left     *)
(* out.  Three columns are history: earned and spent add up what players   *)
(* earned elsewhere and what the house, the post and deletions took, lost  *)
(* names the items that are left in item_instance when their letter from   *)
(* the auction house is returned, each as of the transaction that saves it.*)
(***************************************************************************)
EXTENDS Integers, FiniteSets, FiniteSetsExt

CONSTANTS
  Players,  \* characters
  Items,    \* item GUIDs
  None,     \* no player, no item
  Half      \* 2^31 in the program

ASSUME TablesAssumption ==
  None \notin Players \cup Items /\ Half \in Nat \ {0}

\* setUInt32 of a uint64.
UInt32(n) == n % (2 * Half)
\* int32 of a uint64.
Int32(n) == ((n + Half) % (2 * Half)) - Half

MailRow ==
  [id : Nat, from : Players \cup {None}, to : Players,
   kind : {"normal", "auction"}, back : BOOLEAN,
   item : Items \cup {None}, money : Nat, cod : Nat]
AuctionRow ==
  [id : Nat, item : Items, owner : Players, startbid : Nat, buyout : Nat,
   bidder : Players \cup {None}, bid : Nat, deposit : Nat]
Tables ==
  [gold : [Players -> Nat], inv : [Items -> Players \cup {None}],
   items : SUBSET Items, mails : SUBSET MailRow,
   auctions : SUBSET AuctionRow, earned : Nat, spent : Int, lost : SUBSET Items]

Total(money(_), rows) == MapThenSumSet(money, rows)
MoneyIn(rows) == Total(LAMBDA m : m.money, rows)

InsertMails(d, rows) == [d EXCEPT !.mails = @ \cup rows]
Spend(d, n) == [d EXCEPT !.spent = @ + n]
DeleteMails(d, ids) ==
  LET gone == {m \in d.mails : m.id \in ids}
  IN  [d EXCEPT !.mails = @ \ gone, !.spent = @ + MoneyIn(gone)]
DeleteItems(d, gone) == [d EXCEPT !.items = @ \ gone]
\* History only: nothing is deleted from item_instance.
LoseItems(d, gone) == [d EXCEPT !.lost = @ \cup gone]
\* CHAR_UPD_MAIL_RETURNED, whose values are those of the row r read before.
ReturnMail(d, r) ==
  [d EXCEPT !.mails =
     {IF m.id = r.id
      THEN [m EXCEPT !.from = r.to, !.to = r.from, !.cod = 0, !.back = TRUE]
      ELSE m : m \in @}]
\* Mutant: the attachment stays.
UpdateMailsAttached(d, letters) ==
  [d EXCEPT !.mails =
     {IF \E l \in letters : l.id = m.id
      THEN LET l == CHOOSE l \in letters : l.id = m.id
           IN  [m EXCEPT !.money = UInt32(l.money), !.cod = UInt32(l.cod)]
      ELSE m : m \in @}]
\* CHAR_UPD_MAIL, CHAR_DEL_MAIL_ITEM, for letters as they are in a mailbox.
UpdateMails(d, letters) ==
  [d EXCEPT !.mails =
     {IF \E l \in letters : l.id = m.id
      THEN LET l == CHOOSE l \in letters : l.id = m.id
           IN  [m EXCEPT !.item = l.item, !.money = UInt32(l.money), !.cod = UInt32(l.cod)]
      ELSE m : m \in @}]
InsertAuction(d, a) == [d EXCEPT !.auctions = @ \cup {a}]
DeleteAuction(d, a) == [d EXCEPT !.auctions = {r \in @ : r.id # a.id}]
\* Mutant: the bidder is not saved.
UpdateBidOnly(d, a) ==
  [d EXCEPT !.auctions =
     {IF r.id = a.id THEN [r EXCEPT !.bid = UInt32(a.bid)] ELSE r : r \in @}]
UpdateBid(d, a) ==
  [d EXCEPT !.auctions =
     {IF r.id = a.id THEN [r EXCEPT !.bidder = a.bidder, !.bid = UInt32(a.bid)] ELSE r
        : r \in @}]
\* REPLACE INTO character_inventory, whose key is the item.
PutInInventory(d, p, i) == [d EXCEPT !.inv[i] = p]
DeleteFromInventory(d, i) == [d EXCEPT !.inv[i] = None]
=============================================================================
