---------------------------- MODULE MCLockOrder ----------------------------
(* Instances of LockOrder small enough for TLC.                            *)
EXTENDS LockOrder

Row(table, id) == [table |-> table, id |-> id]

Book(i)    == Row("CASHBOOK", i)
Account(i) == Row("WALLET_ACCOUNT", i)
Owed       == Row("OBLIGATION", 1)
Bill       == Row("INVOICE", 1)
Stock(i)   == Row("INVENTORY_STOCK", i)
Sold(i)    == Row("ENTRY", i)
Day        == Row("TICKET_DAY", 1)

TheRows == {Book(1), Book(2), Account(1), Account(2), Owed, Bill, Stock(1),
            Stock(2), Sold(1), Sold(2), Day}

ThePosition == [r \in TheRows |-> 2 * LOCK_RANK[r.table] + r.id]

(* Edits that swap wallets or take stock, moves between books, payments,   *)
(* transfers, ticket sales and the closing of their day, voided invoices,  *)
(* and the deletion of an entry read while it was in another book.         *)
ServicePlans ==
  {UpdateEntry({Book(2), Account(1)}, Sold(1), {}, <<Stock(2), Stock(1)>>),
   DeleteEntry({Book(1), Owed}, Sold(1), {Bill}, <<Stock(1)>>),
   ReassignEntry({Book(1), Book(2), Owed}, Sold(2)),
   CreateEntry({Account(2), Owed}, {Bill}, <<Stock(1), Stock(2)>>),
   MoveWallets({Account(1), Account(2)}),
   SellTickets(Day, {Book(2)}),
   CloseDay(Day, {Sold(1), Sold(2)}),
   VoidInvoice(Bill, Owed, <<Stock(1)>>)}
=============================================================================
