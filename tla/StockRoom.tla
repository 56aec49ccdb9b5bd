----------------------------- MODULE StockRoom -----------------------------
(***************************************************************************)
(* Inventory: the stock of items, the movements that explain it, the lots  *)
(* FIFO and LIFO draw from, and rentals (src/modules/inventory), with the  *)
(* calls that entries, wallet transactions, obligations and invoices make. *)
(*                                                                         *)
(* A movement locks the stock row of its item before it reads it, and all  *)
(* movements of a document commit together, so a document is one step.     *)
(* Two handlers decide on what they read before their transaction: a       *)
(* manual movement on the item, a return on the lines of the rental.       *)
(* Money is counted in the smallest unit the columns hold (Decimal(20,4)). *)
(* The documents' own rows and the races between their handlers are those  *)
(* of EntryLedger, WalletLedger and Receivables.                           *)
(***************************************************************************)
EXTENDS Integers, Sequences, FiniteSets, FiniteSetsExt, SequencesExt

CONSTANTS
  Items,      \* identifiers of items
  Docs,       \* identifiers of documents that carry inventory lines
  KindOf,     \* the reference type of each document
  Kinds,      \* the items clients create: cost method, mode, negative stock
  Baskets,    \* the lines clients put on entries, transactions and obligations
  Bills,      \* the lines of invoices
  Manuals,    \* the manual movements clients ask for
  Requests,   \* requests that may be between their read and their write
  MaxMoves,   \* bound on the number of movements
  Operations  \* the kinds of request the clients send

StockInTypes  == {"PURCHASE", "TRANSFER_IN", "RETURN_IN", "RENTAL_IN"}
StockOutTypes == {"SALE", "TRANSFER_OUT", "RETURN_OUT", "RENTAL_OUT", "RENTAL_LOSS"}
MoveTypes     == StockInTypes \union StockOutTypes \union {"ADJUSTMENT"}
Methods       == {"WEIGHTED_AVERAGE", "FIFO", "LIFO"}
Modes         == {"SELL_ONLY", "RENT_ONLY", "SELL_AND_RENT"}
RefTypes      == {"ENTRY", "ACCOUNT_TRANSACTION", "OBLIGATION", "INVOICE"}

(* createInventoryItemSchema, of the fields that steer the stock.          *)
ItemKind == [method : Methods, mode : Modes, negative : BOOLEAN]

(* createInventoryTransactionSchema: anything that comes in has a cost.    *)
Manual == [item : Items, type : MoveTypes, quantity : Nat \ {0}, cost : Nat]

Basket == [purchase : BOOLEAN, lines : Seq([item : Items, quantity : Nat \ {0}, cost : Nat])]
Bill   == Seq([item : Items, quantity : Nat \ {0}, rental : BOOLEAN])

(* "repeat": the list of a return names a line twice.                      *)
AllOperations ==
  {"updateItem", "manual", "book", "edit", "delete", "send", "void", "return", "repeat"}

ASSUME StockAssumption ==
  /\ KindOf \in [Docs -> RefTypes]
  /\ Kinds \subseteq ItemKind
  /\ \A m \in Manuals : m \in Manual
  /\ \A b \in Baskets : b \in Basket
  /\ \A b \in Bills : b \in Bill
  /\ MaxMoves \in Nat
  /\ Operations \subseteq AllOperations

VARIABLES
  item,    \* inventory_items that exist
  stock,   \* inventory_stock: units on hand, units rented out, average cost
  moves,   \* inventory_transactions in the order they were written
  lots,    \* inventory_lots in the order they were written
  uses,    \* lot_consumptions
  doc,     \* the documents: their state and the lines they stand for
  rental,  \* inventory_rentals by the invoice that made them
  req      \* the requests between their read and their write

vars == <<item, stock, moves, lots, uses, doc, rental, req>>

Item   == [method : Methods, mode : Modes, negative : BOOLEAN, active : BOOLEAN]
Stock  == [onHand : Int, rentedOut : Nat, average : Int]
Refs   == ({"MANUAL"} \X {0}) \union ({"RENTAL"} \X Docs) \union {<<KindOf[d], d>> : d \in Docs}
Move   == [item : Items, type : MoveTypes, quantity : Int, unit : Int, cogs : Int,
           ref : Refs, reverses : 0 .. MaxMoves]
Lot    == [item : Items, unit : Int, in : Nat \ {0}, remaining : Nat, move : 1 .. MaxMoves]
Signed == [item : Items, quantity : Int]
Rental == [status : {"ACTIVE", "RETURNED", "CANCELLED"},
           lines : Seq([item : Items, quantity : Nat \ {0}, returned : Nat])]

Idle    == [pc |-> "idle"]
Request == {Idle} \union [pc : {"manual"}, move : Manuals]
             \union [pc : {"return"}, rental : Docs, lines : UNION {{rental[d].lines} : d \in DOMAIN rental}]

TypeOK ==
  /\ DOMAIN item \subseteq Items /\ DOMAIN stock = DOMAIN item
  /\ \A i \in DOMAIN item : item[i] \in Item /\ stock[i] \in Stock
  /\ \A m \in DOMAIN moves : moves[m] \in Move
  /\ \A k \in DOMAIN lots : lots[k] \in Lot
  /\ uses \subseteq [lot : DOMAIN lots, move : DOMAIN moves, quantity : Nat \ {0}]
  /\ doc \in [Docs -> [status : {"none", "live", "gone"}, lines : Seq(Signed)]]
  /\ DOMAIN rental \subseteq {d \in Docs : KindOf[d] = "INVOICE"}
  /\ \A d \in DOMAIN rental : rental[d] \in Rental
  /\ \A r \in Requests : req[r].pc \in {"idle", "manual", "return"}

-----------------------------------------------------------------------------
(* Costs.                                                                  *)

(* n / d as a Decimal(20,4) column keeps it: half away from zero.          *)
Rounded(n, d) == IF n >= 0 THEN (2 * n + d) \div (2 * d) ELSE -((2 * (-n) + d) \div (2 * d))

(* The running average after q units at the given cost came in.            *)
Average(s, q, cost) ==
  IF s.onHand + q > 0 THEN Rounded(s.average * s.onHand + cost * q, s.onHand + q) ELSE 0

(* FIFO and LIFO keep lots, WEIGHTED_AVERAGE does not.                     *)
Layered(i) == item[i].method \in {"FIFO", "LIFO"}

(* resolveCostFIFO: open lots, oldest first or newest first, each giving   *)
(* what is still asked for when its turn comes.  First two altered forms,  *)
(* one that forgets the lots ahead, one that reaches for empty lots.       *)
OpenLots(w, i) == {k \in DOMAIN w.lots : w.lots[k].item = i /\ w.lots[k].remaining > 0}

Ahead(w, i, k) ==
  {j \in OpenLots(w, i) : IF item[i].method = "LIFO" THEN j > k ELSE j < k}

Taken_IgnoringOthers(w, i, q) ==
  [k \in OpenLots(w, i) |-> Min({q, w.lots[k].remaining})]

Taken(w, i, q) ==
  LET left(k) == q - MapThenSumSet(LAMBDA j : w.lots[j].remaining, Ahead(w, i, k))
  IN  [k \in {k \in OpenLots(w, i) : left(k) > 0} |-> Min({left(k), w.lots[k].remaining})]

(* What q units cost when they leave: the lots they come from, with zero   *)
(* for what no lot covers, or the average (resolveCostWAC).                *)
CostOf(w, i, q) ==
  IF Layered(i)
  THEN LET taken == Taken(w, i, q)
       IN  MapThenSumSet(LAMBDA k : taken[k] * w.lots[k].unit, DOMAIN taken)
  ELSE w.stock[i].average * q

-----------------------------------------------------------------------------
(* The working copy w of a transaction: the tables it writes, and whether  *)
(* it is still going; one that stops rolls everything back.                *)

Working == [ok |-> TRUE, stock |-> stock, moves |-> moves, lots |-> lots, uses |-> uses]

Refuse(w) == [w EXCEPT !.ok = FALSE]

(* processStockIn.  Goods back from rent cost nothing, leave the average   *)
(* alone, lower the rented count and make no lot.                          *)
StockIn(w, i, type, q, cost, ref) ==
  LET s    == w.stock[i]
      back == type = "RENTAL_IN"
      paid == IF back THEN 0 ELSE cost
  IN [w EXCEPT
        !.stock[i] = [onHand    |-> s.onHand + q,
                      average   |-> IF back THEN s.average ELSE Average(s, q, paid),
                      rentedOut |-> IF back THEN s.rentedOut - Min({q, s.rentedOut}) ELSE s.rentedOut],
        !.moves = Append(@, [item |-> i, type |-> type, quantity |-> q, unit |-> paid, cogs |-> 0,
                             ref |-> ref, reverses |-> 0]),
        !.lots = IF ~back /\ Layered(i)
                 THEN Append(@, [item |-> i, unit |-> paid, in |-> q, remaining |-> q,
                                 move |-> Len(w.moves) + 1])
                 ELSE @]

(* processStockOut.  A rental takes from the lots as a sale does, and is   *)
(* written at no cost.                                                     *)
Enough(w, i, q) == item[i].negative \/ w.stock[i].onHand >= q

StockOut(w, i, type, q, ref) ==
  LET s     == w.stock[i]
      out   == type = "RENTAL_OUT"
      taken == IF Layered(i) THEN Taken(w, i, q) ELSE << >>
      cogs  == IF out THEN 0 ELSE CostOf(w, i, q)
  IN IF ~Enough(w, i, q) THEN Refuse(w)
     ELSE [w EXCEPT
        !.stock[i] = [s EXCEPT !.onHand = @ - q, !.rentedOut = IF out THEN @ + q ELSE @],
        !.moves = Append(@, [item |-> i, type |-> type, quantity |-> -q, unit |-> Rounded(cogs, q),
                             cogs |-> cogs, ref |-> ref, reverses |-> 0]),
        !.lots = [k \in DOMAIN @ |->
                    IF k \in DOMAIN taken THEN [@[k] EXCEPT !.remaining = @ - taken[k]] ELSE @[k]],
        !.uses = @ \union {[lot |-> k, move |-> Len(w.moves) + 1, quantity |-> taken[k]] :
                           k \in DOMAIN taken}]

-----------------------------------------------------------------------------
(* reverseInventoryForReference.                                           *)

IsReversed(ms, m) == \E n \in DOMAIN ms : ms[n].reverses = m

(* The movements of a document that are to be undone; first an altered     *)
(* form without isReversal: false.                                         *)
Linked_WithReversals(w, ref) ==
  {m \in DOMAIN w.moves : w.moves[m].ref = ref /\ ~IsReversed(w.moves, m)}

Linked(w, ref) ==
  {m \in DOMAIN w.moves :
     w.moves[m].ref = ref /\ w.moves[m].reverses = 0 /\ ~IsReversed(w.moves, m)}

Reversal(w, m, q, unit, cogs) ==
  [item |-> w.moves[m].item, type |-> "ADJUSTMENT", quantity |-> q, unit |-> unit, cogs |-> cogs,
   ref |-> w.moves[m].ref, reverses |-> m]

(* What is left of the lot of a purchase that is undone.                   *)
Reduced(lot, q) == Max({0, lot.remaining - q})

(* A purchase goes out again whether or not it is still there; its lot is  *)
(* emptied and the average stays.                                          *)
UndoIn(w, m) ==
  LET i == w.moves[m].item
      q == w.moves[m].quantity
      s == w.stock[i]
  IN [w EXCEPT
        !.stock[i].onHand = @ - q,
        !.moves = Append(@, Reversal(w, m, -q, s.average, s.average * q)),
        !.lots = [k \in DOMAIN @ |-> IF Layered(i) /\ @[k].move = m
                                     THEN [@[k] EXCEPT !.remaining = Reduced(w.lots[k], q)]
                                     ELSE @[k]]]

(* A sale comes back at the unit cost it left at, as a lot of its own.     *)
UndoOut(w, m) ==
  LET i    == w.moves[m].item
      q    == -w.moves[m].quantity
      unit == w.moves[m].unit
      s    == w.stock[i]
  IN [w EXCEPT
        !.stock[i] = [s EXCEPT !.onHand = @ + q, !.average = Average(s, q, unit)],
        !.moves = Append(@, Reversal(w, m, q, unit, 0)),
        !.lots = IF Layered(i)
                 THEN Append(@, [item |-> i, unit |-> unit, in |-> q, remaining |-> q,
                                 move |-> Len(w.moves) + 1])
                 ELSE @]

Undo(w, m) == IF w.moves[m].quantity > 0 THEN UndoIn(w, m) ELSE UndoOut(w, m)

Oldest(S) == SetToSortSeq(S, <)

ReverseInventory(w, ref) == FoldLeft(Undo, w, Oldest(Linked(w, ref)))

(* processEntryInventory, processAccountTransactionInventory and           *)
(* processObligationInventory: line by line, money out brings goods in.    *)
Tradable(i) == i \in DOMAIN item /\ item[i].active /\ item[i].mode # "RENT_ONLY"

BuyLine(w, l, ref) ==
  IF w.ok /\ Tradable(l.item) THEN StockIn(w, l.item, "PURCHASE", l.quantity, l.cost, ref) ELSE Refuse(w)

SellLine(w, l, ref) ==
  IF w.ok /\ Tradable(l.item) THEN StockOut(w, l.item, "SALE", l.quantity, ref) ELSE Refuse(w)

ProcessObligation(w, basket, ref) ==
  FoldLeft(LAMBDA v, l : BuyLine(v, l, ref), w, basket.lines)

ProcessLines(w, basket, ref) ==
  IF basket.purchase THEN FoldLeft(LAMBDA v, l : BuyLine(v, l, ref), w, basket.lines)
  ELSE FoldLeft(LAMBDA v, l : SellLine(v, l, ref), w, basket.lines)

SignedLines(basket) ==
  [n \in DOMAIN basket.lines |->
     [item |-> basket.lines[n].item,
      quantity |-> IF basket.purchase THEN basket.lines[n].quantity ELSE -basket.lines[n].quantity]]

(* A transaction that was not refused writes its working copy.             *)
Commit(w) ==
  /\ w.ok
  /\ Len(w.moves) <= MaxMoves                                    \* bound
  /\ stock' = w.stock /\ moves' = w.moves /\ lots' = w.lots /\ uses' = w.uses

RefOf(d) == <<KindOf[d], d>>

Finish(r) == req' = [req EXCEPT ![r] = Idle]

-----------------------------------------------------------------------------
Init ==
  /\ item = << >> /\ stock = << >>
  /\ moves = << >> /\ lots = << >> /\ uses = {}
  /\ doc = [d \in Docs |-> [status |-> "none", lines |-> << >>]]
  /\ rental = << >>
  /\ req = [r \in Requests |-> Idle]

With(f, x, value) == [y \in DOMAIN f \union {x} |-> IF y = x THEN value ELSE f[y]]

(* createItem: the item and an empty stock row.                            *)
CreateItem(i, kind) ==
  /\ i \notin DOMAIN item
  /\ item' = With(item, i, [method |-> kind.method, mode |-> kind.mode,
                            negative |-> kind.negative, active |-> TRUE])
  /\ stock' = With(stock, i, [onHand |-> 0, rentedOut |-> 0, average |-> 0])
  /\ UNCHANGED <<moves, lots, uses, doc, rental, req>>

(* updateItem: the cost method stays what it was.                          *)
UpdateItem(i, mode, negative, active) ==
  /\ "updateItem" \in Operations
  /\ i \in DOMAIN item
  /\ item' = [item EXCEPT ![i].mode = mode, ![i].negative = negative, ![i].active = active]
  /\ UNCHANGED <<stock, moves, lots, uses, doc, rental, req>>

DeactivateItem(i) ==
  /\ "updateItem" \in Operations
  /\ i \in DOMAIN item
  /\ item' = [item EXCEPT ![i].active = FALSE]
  /\ UNCHANGED <<stock, moves, lots, uses, doc, rental, req>>

(* createTransaction: the item is read, then the movement written.         *)
ReadManual(r, m) ==
  /\ "manual" \in Operations
  /\ req[r] = Idle
  /\ m.item \in DOMAIN item /\ item[m.item].active
  /\ req' = [req EXCEPT ![r] = [pc |-> "manual", move |-> m]]
  /\ UNCHANGED <<item, stock, moves, lots, uses, doc, rental>>

CommitManual(r) ==
  LET m == req[r].move
  IN /\ req[r].pc = "manual"
     /\ Commit(IF m.type \in StockInTypes \union {"ADJUSTMENT"}
               THEN StockIn(Working, m.item, m.type, m.quantity, m.cost, <<"MANUAL", 0>>)
               ELSE StockOut(Working, m.item, m.type, m.quantity, <<"MANUAL", 0>>))
     /\ Finish(r)
     /\ UNCHANGED <<item, doc, rental>>

(* createEntry, createDirectTransaction, createObligation with lines; an   *)
(* obligation takes goods in when it is a payable.                         *)
Book(d, basket) ==
  /\ "book" \in Operations
  /\ doc[d].status = "none"
  /\ \/ /\ KindOf[d] \in {"ENTRY", "ACCOUNT_TRANSACTION"}
        /\ Commit(ProcessLines(Working, basket, RefOf(d)))
     \/ /\ KindOf[d] = "OBLIGATION" /\ basket.purchase
        /\ Commit(ProcessObligation(Working, basket, RefOf(d)))
  /\ doc' = [doc EXCEPT ![d] = [status |-> "live", lines |-> SignedLines(basket)]]
  /\ UNCHANGED <<item, rental, req>>

(* updateEntry that sends lines, updateDirectTransaction with or without.  *)
Edit(d, basket) ==
  /\ "edit" \in Operations
  /\ KindOf[d] \in {"ENTRY", "ACCOUNT_TRANSACTION"} /\ doc[d].status = "live"
  /\ Commit(ProcessLines(ReverseInventory(Working, RefOf(d)), basket, RefOf(d)))
  /\ doc' = [doc EXCEPT ![d].lines = SignedLines(basket)]
  /\ UNCHANGED <<item, rental, req>>

(* deleteEntry, deleteDirectTransaction.                                   *)
Delete(d) ==
  /\ "delete" \in Operations
  /\ KindOf[d] \in {"ENTRY", "ACCOUNT_TRANSACTION"} /\ doc[d].status = "live"
  /\ Commit(ReverseInventory(Working, RefOf(d)))
  /\ doc' = [doc EXCEPT ![d] = [status |-> "gone", lines |-> << >>]]
  /\ UNCHANGED <<item, rental, req>>

-----------------------------------------------------------------------------
(* sendInvoice: rental lines first, each with a line of the rental, then   *)
(* the sales; nobody asks whether the item is active.                      *)
Rentals(bill) == SelectSeq(bill, LAMBDA l : l.rental)
Sales(bill)   == SelectSeq(bill, LAMBDA l : ~l.rental)

RentOut(w, bill, d) ==
  LET line(v, l) ==
        IF ~v.ok THEN v
        ELSE IF item[l.item].mode = "SELL_ONLY" THEN Refuse(v)
        ELSE StockOut(v, l.item, "RENTAL_OUT", l.quantity, RefOf(d))
  IN FoldLeft(line, w, Rentals(bill))

SellOut(w, bill, d) ==
  LET line(v, l) == IF ~v.ok THEN v ELSE StockOut(v, l.item, "SALE", l.quantity, RefOf(d))
  IN FoldLeft(line, w, Sales(bill))

RentalLines(bill) ==
  [n \in DOMAIN Rentals(bill) |->
     [item |-> Rentals(bill)[n].item, quantity |-> Rentals(bill)[n].quantity, returned |-> 0]]

SendInvoice(d, bill) ==
  /\ "send" \in Operations
  /\ KindOf[d] = "INVOICE" /\ doc[d].status = "none"
  /\ \A n \in DOMAIN bill : bill[n].item \in DOMAIN item
  /\ Commit(SellOut(RentOut(Working, bill, d), bill, d))
  /\ doc' = [doc EXCEPT ![d] = [status |-> "live",
               lines |-> [n \in DOMAIN bill |-> [item |-> bill[n].item, quantity |-> -bill[n].quantity]]]]
  /\ rental' = IF Rentals(bill) = << >> THEN rental
               ELSE With(rental, d, [status |-> "ACTIVE", lines |-> RentalLines(bill)])
  /\ UNCHANGED <<item, req>>

(* reverseInvoiceInventory, as voidInvoice calls it: every sale returns at *)
(* its cost and every rental at none, returned or not, and the rental is   *)
(* cancelled if it was not over.  First an altered form without rentals.   *)
BringBack_SalesOnly(w, d) ==
  LET back(v, m) == StockIn(v, v.moves[m].item, "RETURN_IN", -v.moves[m].quantity,
                            v.moves[m].unit, RefOf(d))
  IN FoldLeft(back, w, Oldest({m \in DOMAIN w.moves :
                                 w.moves[m].ref = RefOf(d) /\ w.moves[m].type = "SALE"}))

BringBack(w, d) ==
  LET of(type)   == Oldest({m \in DOMAIN w.moves : w.moves[m].ref = RefOf(d) /\ w.moves[m].type = type})
      sale(v, m) == StockIn(v, v.moves[m].item, "RETURN_IN", -v.moves[m].quantity,
                            v.moves[m].unit, RefOf(d))
      rent(v, m) == StockIn(v, v.moves[m].item, "RENTAL_IN", -v.moves[m].quantity, 0, RefOf(d))
  IN FoldLeft(rent, FoldLeft(sale, w, of("SALE")), of("RENTAL_OUT"))

VoidInvoice(d) ==
  /\ "void" \in Operations
  /\ KindOf[d] = "INVOICE" /\ doc[d].status = "live"
  /\ Commit(BringBack(Working, d))
  /\ doc' = [doc EXCEPT ![d] = [status |-> "gone", lines |-> << >>]]
  /\ rental' = [x \in DOMAIN rental |->
                  IF x = d /\ rental[x].status = "ACTIVE"
                  THEN [rental[x] EXCEPT !.status = "CANCELLED"]
                  ELSE rental[x]]
  /\ UNCHANGED <<item, req>>

(* returnRental: the lines are read before the transaction and are not     *)
(* read again, neither by an overlapping return nor by the next element of *)
(* the same list.                                                          *)
ReadReturn(r, d) ==
  /\ "return" \in Operations
  /\ req[r] = Idle
  /\ d \in DOMAIN rental /\ rental[d].status = "ACTIVE"
  /\ req' = [req EXCEPT ![r] = [pc |-> "return", rental |-> d, lines |-> rental[d].lines]]
  /\ UNCHANGED <<item, stock, moves, lots, uses, doc, rental>>

Outstanding(l) == l.quantity - l.returned

(* Everything that is out, or the list <<line, quantity>> the client sends. *)
Returned(lines) == [n \in DOMAIN lines |-> <<n, Outstanding(lines[n])>>]

CommitReturn(r, list) ==
  LET d     == req[r].rental
      read  == req[r].lines
      line(w, x) == StockIn(w, read[x[1]].item, "RENTAL_IN", x[2], 0, <<"RENTAL", d>>)
      written ==
        [n \in DOMAIN read |->
           LET mine == {k \in DOMAIN list : list[k][1] = n}
           IN  IF mine = {} THEN rental[d].lines[n]
               ELSE [read[n] EXCEPT !.returned = @ + list[Max(mine)][2]]]
      over == \A n \in DOMAIN written : written[n].returned >= written[n].quantity
  IN /\ req[r].pc = "return"
     /\ \A k \in DOMAIN list : list[k][2] > 0 /\ list[k][2] <= Outstanding(read[list[k][1]])
     /\ Commit(FoldLeft(line, Working, list))
     /\ rental' = [rental EXCEPT ![d] = [status |-> IF over THEN "RETURNED" ELSE "ACTIVE",
                                         lines |-> written]]
     /\ Finish(r)
     /\ UNCHANGED <<item, doc>>

(* The transaction stops: too little stock, an invalid list, a failure.    *)
GiveUp(r) ==
  /\ req[r] # Idle
  /\ Finish(r)
  /\ UNCHANGED <<item, stock, moves, lots, uses, doc, rental>>

Next ==
  \/ \E i \in Items, kind \in Kinds : CreateItem(i, kind)
  \/ \E i \in Items, kind \in Kinds, active \in BOOLEAN : UpdateItem(i, kind.mode, kind.negative, active)
  \/ \E i \in Items : DeactivateItem(i)
  \/ \E r \in Requests, m \in Manuals : ReadManual(r, m)
  \/ \E r \in Requests : req[r].pc = "manual" /\ CommitManual(r)
  \/ \E d \in Docs, b \in Baskets : Book(d, b)
  \/ \E d \in Docs, b \in Baskets \union {[purchase |-> TRUE, lines |-> << >>]} : Edit(d, b)
  \/ \E d \in Docs : Delete(d)
  \/ \E d \in Docs, b \in Bills : SendInvoice(d, b)
  \/ \E d \in Docs : VoidInvoice(d)
  \/ \E r \in Requests, d \in Docs : ReadReturn(r, d)
  \/ \E r \in Requests :
       /\ req[r].pc = "return"
       /\ \E list \in {Returned(req[r].lines)}
                        \union {<<x>> : x \in (DOMAIN req[r].lines) \X {1}}
                        \union {<<x, x>> : x \in (DOMAIN req[r].lines)
                                                     \X {q \in {1} : "repeat" \in Operations}} :
            CommitReturn(r, list)
  \/ \E r \in Requests : GiveUp(r)

Spec == Init /\ [][Next]_vars

-----------------------------------------------------------------------------
(* Reports.                                                                *)

(* getItemAnalytics: units that came in and went out.                      *)
UnitsIn(i)  == MapThenSumSet(LAMBDA m : moves[m].quantity,
                             {m \in DOMAIN moves : moves[m].item = i /\ moves[m].quantity > 0})
UnitsOut(i) == MapThenSumSet(LAMBDA m : -moves[m].quantity,
                             {m \in DOMAIN moves : moves[m].item = i /\ moves[m].quantity < 0})

(* getCogsSummary: the sales whose cost still counts.                      *)
CogsRows == {m \in DOMAIN moves :
               moves[m].type \in {"SALE", "RETURN_OUT"} /\ ~IsReversed(moves, m)}

(* The consumptions of a lot, and those a movement made.                   *)
UsedFrom(k)  == MapThenSumSet(LAMBDA u : u.quantity, {u \in uses : u.lot = k})
UsesOf(m)    == {u \in uses : u.move = m}
DrawnBy(m)   == MapThenSumSet(LAMBDA u : u.quantity, UsesOf(m))
PaidInLots(m) == MapThenSumSet(LAMBDA u : u.quantity * lots[u.lot].unit, UsesOf(m))

-----------------------------------------------------------------------------
(* Properties.                                                             *)

(* Units that came back from the rental of an invoice, and what its lines  *)
(* say went out and came back.                                             *)
BroughtBack(d, i) ==
  MapThenSumSet(LAMBDA m : moves[m].quantity,
                {m \in DOMAIN moves : moves[m].ref = <<"RENTAL", d>> /\ moves[m].item = i})

LinesFor(d, i)   == {n \in DOMAIN rental[d].lines : rental[d].lines[n].item = i}
SaidBack(d, i)   == MapThenSumSet(LAMBDA n : rental[d].lines[n].returned, LinesFor(d, i))
WentOut(d, i)    == MapThenSumSet(LAMBDA n : rental[d].lines[n].quantity, LinesFor(d, i))
StillOut(d, i)   == WentOut(d, i) - SaidBack(d, i)

(* The stock row says what the movements add up to, whatever was edited,   *)
(* returned or undone; no rental says that more came back than was brought *)
(* back, though more may be brought back than it says; a rental is over    *)
(* only when its lines say that all of it is back; and units counted as    *)
(* rented out are on the lines of a rental that was not cancelled          *)
(* (processStockIn, processStockOut, returnRental).                        *)
StockAgrees ==
  /\ TypeOK
  /\ \A i \in DOMAIN item :
       /\ stock[i].onHand = UnitsIn(i) - UnitsOut(i)
       /\ \A d \in DOMAIN rental : SaidBack(d, i) <= BroughtBack(d, i)
       /\ stock[i].rentedOut <=
            MapThenSumSet(LAMBDA d : StillOut(d, i),
                          {d \in DOMAIN rental : rental[d].status # "CANCELLED"})
  /\ \A d \in DOMAIN rental : rental[d].status = "RETURNED" =>
       \A n \in DOMAIN rental[d].lines : Outstanding(rental[d].lines[n]) = 0

(* What returnRental asserts of every line: no more is brought back than   *)
(* is outstanding.  It fails where two returns overlap, and where one list *)
(* names a line twice: the lines are read once, before the transaction.    *)
BackOnce ==
  \A d \in DOMAIN rental, i \in DOMAIN item : BroughtBack(d, i) <= WentOut(d, i)

(* A lot is used up by the movements that drew from it and by nothing      *)
(* else, and is empty once the purchase that made it is undone; a movement *)
(* never draws more than it moved, and its cost is the cost of the lots it *)
(* drew from (resolveCostFIFO, reverseInventoryForReference).              *)
LotsAgree ==
  /\ \A k \in DOMAIN lots :
       /\ lots[k].move \in DOMAIN moves
       /\ lots[k].remaining = IF IsReversed(moves, lots[k].move) THEN 0
                              ELSE lots[k].in - UsedFrom(k)
  /\ \A m \in DOMAIN moves :
       /\ UsesOf(m) # {} => moves[m].quantity < 0 /\ DrawnBy(m) <= -moves[m].quantity
       /\ (Layered(moves[m].item) /\ moves[m].quantity < 0 /\ moves[m].reverses = 0)
            => moves[m].cogs = IF moves[m].type = "RENTAL_OUT" THEN 0 ELSE PaidInLots(m)

(* Lots and stock differ by exactly three things: units back from rent,    *)
(* for which no lot is made, units that left when no lot was open, and     *)
(* units of an undone purchase that had been drawn before.                 *)
LotsExplainStock ==
  \A i \in DOMAIN item : Layered(i) =>
    LET ms        == {m \in DOMAIN moves : moves[m].item = i}
        ks        == {k \in DOMAIN lots : lots[k].item = i}
        back      == MapThenSumSet(LAMBDA m : moves[m].quantity,
                                   {m \in ms : moves[m].type = "RENTAL_IN"})
        uncovered == MapThenSumSet(LAMBDA m : -moves[m].quantity - DrawnBy(m),
                                   {m \in ms : moves[m].quantity < 0 /\ moves[m].reverses = 0})
        drawn     == MapThenSumSet(UsedFrom, {k \in ks : IsReversed(moves, lots[k].move)})
    IN MapThenSumSet(LAMBDA k : lots[k].remaining, ks) = stock[i].onHand - back + uncovered + drawn

(* The cost of a sale counts while its entry stands for it and no longer:  *)
(* the report has as many units for a document as the document sells.      *)
CogsFollowsDocuments ==
  \A d \in Docs : KindOf[d] \in {"ENTRY", "ACCOUNT_TRANSACTION"} =>
    MapThenSumSet(LAMBDA m : moves[m].quantity, {m \in CogsRows : moves[m].ref = RefOf(d)})
      = MapThenSumSet(LAMBDA n : doc[d].lines[n].quantity,
                      {n \in DOMAIN doc[d].lines : doc[d].lines[n].quantity < 0})

(* As long as an item was never short, its average cost lies between zero  *)
(* and the highest cost a client named (processStockIn and the reversal of *)
(* a sale, which both fold a cost into the average).                       *)
HighestCost == Max({0} \union {moves[m].unit : m \in {m \in DOMAIN moves :
                  moves[m].quantity > 0 /\ moves[m].reverses = 0}})

NeverShort(i) ==
  \A n \in DOMAIN moves :
    MapThenSumSet(LAMBDA m : moves[m].quantity, {m \in 1 .. n : moves[m].item = i}) >= 0

AverageIsPlausible ==
  \A i \in DOMAIN item : NeverShort(i) => stock[i].average \in 0 .. HighestCost

(* Costs and reports stay true to the documents.                           *)
CostsAgree == LotsAgree /\ LotsExplainStock /\ CogsFollowsDocuments /\ AverageIsPlausible

(* The stock room keeps the promise of StockPromise: edits and deletions   *)
(* change the shelf by the difference between the lines before and after.  *)
Promise == INSTANCE StockPromise WITH
  lines  <- [d \in Docs |-> doc[d].lines],
  onHand <- [i \in Items |-> IF i \in DOMAIN stock THEN stock[i].onHand ELSE 0]

KeepsPromise == Promise!Spec
=============================================================================
