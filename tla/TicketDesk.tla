---------------------------- MODULE TicketDesk ----------------------------
(***************************************************************************)
(* The ticket desk (src/modules/ticketing): sessions and their tiers, the  *)
(* business days opened for them, sales and their reversal, drawers, and   *)
(* membership cards.                                                       *)
(*                                                                         *)
(* A sale reads the settings, the session and its offers, and opens the    *)
(* day, before its transaction; the transaction locks the day, reads what  *)
(* it prices against, and commits.  Both gaps are steps of their own here, *)
(* the second one while the day is locked.  The other transactions hold    *)
(* the same lock and are one step.  The entry of a sale is its state, its  *)
(* amount, its version and its reconciled mark: how it is posted, and what *)
(* a move to another book does, is EntryLedger's.  The requests of the     *)
(* book it is in read it before they write it, and take no lock of the day.*)
(***************************************************************************)
EXTENDS TicketPricing, Functions

CONSTANTS
  Users,       \* the staff of the workspace
  Staff,       \* their role and staff tag
  Wallets,     \* wallets the desk takes money into
  Sessions,    \* identifiers of sessions
  Runs,        \* what each is for: a weekday or a date, and the dates it covers
  Types,       \* identifiers of ticket types
  TypeOf,      \* the session and the class of each
  Tiers,       \* identifiers of membership tiers
  TierBook,    \* their daily allowance, length, joining fee and own offer
  Cards,       \* identifiers of memberships
  RuleBook,    \* the offers managers configure, by number
  Starts,      \* configurations the workspace may start with
  Shapes,      \* capacities and prices managers choose from
  Orders,      \* what customers ask for: lines, wallet, card, offers by hand
  MaxDate,     \* bound on the business dates
  MaxSales,    \* bound on the number of sales
  MaxShifts,   \* bound on the number of drawers
  MaxRequests, \* bound on the requests; a change of configuration counts twice
  Operations   \* the kinds of request staff make

Dates  == 1 .. MaxDate
Days   == Dates \X Sessions
Roles  == {"OWNER", "ADMIN", "GENERAL_MANAGER", "PROJECT_MANAGER", "HR", "ACCOUNTANT",
           "SUB_ACCOUNTANT", "MEMBER", "DEVELOPER"}
RuleIds == DOMAIN RuleBook
Everywhere == "everywhere"   \* sessionId: null, an offer of every session
NoCap  == -1                 \* capacity: null
NoShift == 0                 \* shiftId: null
Forever == 0                 \* validUntil: null
NoCard == "none"             \* no member number given
NoTier == "none"             \* membershipTierId: null

AllOperations == {"sell", "void", "close", "reopen", "shift", "count", "configure", "offer",
                  "tier", "card", "renew", "book", "feature"}

(* The rows of the configuration; the capacity of a day comes from it.     *)
Capacity   == Nat \union {NoCap}
SessionRow == [state : {"none", "active", "archived"}, capacity : Capacity]
TypeRow    == [state : {"none", "active", "archived"}, price : Nat, capacity : Capacity]
OfferRow   == [state : {"none", "active", "inactive"}, value : Nat]
CardRow    == [status : {"none", "ACTIVE", "SUSPENDED"}, tier : Tiers, until : Nat]

ASSUME DeskAssumption ==
  /\ Staff \in [Users -> [role : Roles, tag : {"NONE", "TICKETING"}]]
  /\ Runs \in [Sessions -> [weekly : BOOLEAN, dates : SUBSET Dates]]
  /\ TypeOf \in [Types -> [session : Sessions, class : Classes]]
  /\ RuleIds \subseteq Nat \ {NoRule}
  /\ RuleBook \in [RuleIds -> [of : Sessions \union {Everywhere},
                              rule : Rule(Types, Tiers \union {NoTier})]]
  /\ \A r \in RuleIds : RuleBook[r].rule.id = r
  /\ Shapes \subseteq [capacity : Capacity, price : Nat]
  /\ TierBook \in [Tiers -> [most : Nat \union {Unlimited}, months : Nat, fee : Nat, rule : RuleIds]]
  /\ \A t \in Tiers : RuleBook[TierBook[t].rule].rule.type = "MEMBERSHIP"
  /\ Starts \subseteq [book : BOOLEAN, session : [Sessions -> SessionRow], type : [Types -> TypeRow],
                     offer : [RuleIds -> OfferRow], tier : [Tiers -> OfferRow],
                     card : [Cards -> CardRow]]
  /\ Orders \subseteq [lines : Seq([type : Types, quantity : Nat]), wallet : Wallets,
                     card : Cards \union {NoCard}, manual : SUBSET RuleIds]
  /\ MaxDate \in Nat \ {0} /\ MaxRequests \in Nat
  /\ IsFiniteSet(Users) /\ IsFiniteSet(Wallets) /\ IsFiniteSet(Types) /\ IsFiniteSet(RuleIds)
  /\ NoCard \notin Cards
  /\ Operations \subseteq AllOperations

VARIABLES
  today,     \* the business date (WorkspaceClock with dayStartMinutes)
  settings,  \* ticket_settings and the feature row of the workspace
  session,   \* ticket_sessions
  type,      \* ticket_types
  offer,     \* ticket_discount_rules
  tier,      \* membership_tiers
  card,      \* memberships
  day,       \* ticket_days that exist
  shift,     \* ticket_shifts in the order they were opened
  sale,      \* ticket_sales with their tickets, redemption and entry
  asked,     \* requests made so far, against MaxRequests
  req        \* the request of each user

config == <<settings, session, type, offer, tier>>
vars   == <<today, config, card, day, shift, sale, asked, req>>

Idle == [pc |-> "idle"]

(* flipped is of the model only: the mark was set or taken off in the book *)
(* since closeDay or reopenDay last wrote it.                              *)
Entry == [status : {"NONE", "POSTED", "REVERSED"}, amount : Nat, version : Nat \ {0},
          reconciled : BOOLEAN, flipped : BOOLEAN]

TypeOK ==
  /\ today \in Dates /\ asked \in 0 .. MaxRequests
  /\ settings \in [enabled : BOOLEAN, book : BOOLEAN, selfVoid : BOOLEAN]
  /\ session \in [Sessions -> SessionRow] /\ type \in [Types -> TypeRow]
  /\ offer \in [RuleIds -> OfferRow] /\ tier \in [Tiers -> OfferRow]
  /\ card \in [Cards -> CardRow]
  /\ DOMAIN day \subseteq Days
  /\ \A d \in DOMAIN day : day[d].status \in {"OPEN", "CLOSED"} /\ day[d].next \in Nat \ {0}
  /\ \A k \in DOMAIN shift : shift[k].status \in {"OPEN", "CLOSED"} /\ shift[k].day \in DOMAIN day
  /\ \A k \in DOMAIN sale : /\ sale[k].status \in {"COMPLETED", "VOIDED"}
                            /\ sale[k].day \in DOMAIN day
                            /\ sale[k].entry \in Entry
  /\ DOMAIN req = Users

-----------------------------------------------------------------------------
(* Who may do what.                                                        *)

TagGrants == {"VIEW_TICKETING", "SELL_TICKETS", "VOID_TICKET_SALE"}
Everything == TagGrants \union {"MANAGE_TICKETING", "RECONCILE_TICKET_SHIFT",
                                "MANAGE_MEMBERSHIPS", "VIEW_TICKET_ANALYTICS"}

(* The ticketing columns of WORKSPACE_PERMISSION_MATRIX.                   *)
RoleGrants(role) ==
  CASE role \in {"OWNER", "ADMIN", "GENERAL_MANAGER"} -> Everything
    [] role \in {"ACCOUNTANT", "SUB_ACCOUNTANT"} -> {"VIEW_TICKETING", "VIEW_TICKET_ANALYTICS"}
    [] OTHER -> {}

(* ticketDeskCapabilities: what the role grants and what the tag grants.   *)
Capabilities(u) ==
  RoleGrants(Staff[u].role) \union IF Staff[u].tag = "TICKETING" THEN TagGrants ELSE {}

(* requireTicketing: the module is unlocked and the caller holds the       *)
(* permission.  A user has one request at a time.                          *)
Counted(n) == asked + n <= MaxRequests /\ asked' = asked + n

Allowed(u, operation, permission) ==
  /\ operation \in Operations
  /\ req[u] = Idle
  /\ settings.enabled
  /\ permission \in Capabilities(u)

May(u, operation, permission) == Allowed(u, operation, permission) /\ Counted(1)

Manager(u) == "MANAGE_TICKETING" \in Capabilities(u)
Asks(u, r) == req' = [req EXCEPT ![u] = r]
Done(u)    == req' = [req EXCEPT ![u] = Idle]

-----------------------------------------------------------------------------
(* The session that is running, and the day that is open for it.           *)

ActiveOn(date, weekly) ==
  {s \in Sessions : session[s].state = "active" /\ Runs[s].weekly = weekly /\ date \in Runs[s].dates}

(* resolveSession: a session of the date before one of the weekday.        *)
Running(date) ==
  IF ActiveOn(date, FALSE) # {} THEN ActiveOn(date, FALSE) ELSE ActiveOn(date, TRUE)

(* The types and the offers a request read along with its session.         *)
TypesOf(s) == {t \in Types : TypeOf[t].session = s /\ type[t].state = "active"}

TypeSnapshots(s) ==
  {[id |-> t, class |-> TypeOf[t].class, price |-> type[t].price,
    capacity |-> type[t].capacity] : t \in TypesOf(s)}

Offered(s) == {r \in RuleIds : offer[r].state = "active" /\ RuleBook[r].of \in {s, Everywhere}}
RuleSnapshots(s) ==
  {[RuleBook[r].rule EXCEPT !.value = offer[r].value] : r \in Offered(s)}

(* requireSettings and requireSession.                                     *)
Configured == settings.book
Open(s) == s \in Running(today) /\ TypesOf(s) # {}

(* ensureDay: its row, found or created with the session's capacity.       *)
Ensured(d) ==
  [e \in DOMAIN day \union {d} |->
    IF e \in DOMAIN day THEN day[e]
    ELSE [status |-> "OPEN", capacity |-> session[d[2]].capacity, next |-> 1]]

(* The transactions that lock a day wait for the sale that holds it.       *)
Unlocked(d) == \A u \in Users : req[u].pc = "selling" => req[u].row.day # d

-----------------------------------------------------------------------------
(* Sales.                                                                  *)

SalesOf(d)  == {k \in DOMAIN sale : sale[k].day = d}
Completed(d) == {k \in SalesOf(d) : sale[k].status = "COMPLETED"}

(* countIssued: a reversed sale puts its seats back.                       *)
Issued(d) == SumOver([k \in Completed(d) |-> Len(sale[k].tickets)])

HeadsOf(tickets, t) == {i \in DOMAIN tickets : tickets[i].type = t}
IssuedOf(d, t) == SumOver([k \in Completed(d) |-> Cardinality(HeadsOf(sale[k].tickets, t))])

Wanted(lines, t) ==
  SumOver([l \in {j \in DOMAIN lines : lines[j].type = t} |-> lines[l].quantity])
WantedInAll(lines) == SumOver([l \in DOMAIN lines |-> lines[l].quantity])

(* assertCapacity: of the day and of each type.  The altered form counts   *)
(* the seats before those of this basket only.                             *)
Room_ForOneMore(d, lines, types) ==
  day[d].capacity = NoCap \/ Issued(d) < day[d].capacity

Room(d, lines, types) ==
  /\ day[d].capacity = NoCap \/ Issued(d) + WantedInAll(lines) <= day[d].capacity
  /\ \A t \in types : \/ t.capacity = NoCap \/ Wanted(lines, t.id) = 0
                      \/ IssuedOf(d, t.id) + Wanted(lines, t.id) <= t.capacity

(* resolveMembership: the card if it is valid, with what it has used up on *)
(* the business date, over all sessions.  An unknown or lapsed number is   *)
(* no error.                                                               *)
Redeemed(ks) == SumOver([k \in ks |-> sale[k].redeemed])
UsedOn(c, date) == Redeemed({k \in DOMAIN sale : sale[k].card = c /\ sale[k].day[1] = date})

Valid(c) == /\ c \in Cards
            /\ card[c].status = "ACTIVE"
            /\ tier[card[c].tier].state = "active"
            /\ card[c].until = Forever \/ today <= card[c].until

Membership(c, date) ==
  IF Valid(c) THEN [id |-> c, tier |-> card[c].tier, most |-> TierBook[card[c].tier].most,
                    used |-> UsedOn(c, date)]
  ELSE [id |-> NoCard, tier |-> NoTier, most |-> Unlimited, used |-> 0]

(* createSale, before its transaction.                                     *)
BeginSale(u, order) ==
  /\ May(u, "sell", "SELL_TICKETS")
  /\ Configured
  /\ order.manual = {} \/ Manager(u)
  /\ \E s \in Sessions :
       /\ Open(s)
       /\ day' = Ensured(<<today, s>>)
       /\ Asks(u, [pc |-> "sale", day |-> <<today, s>>, order |-> order,
                   types |-> TypeSnapshots(s), rules |-> RuleSnapshots(s)])
  /\ UNCHANGED <<today, config, card, shift, sale>>

(* findOpenShift: of any day.                                              *)
OpenShifts(u) == {k \in DOMAIN shift : shift[k].who = u /\ shift[k].status = "OPEN"}
FoundShift(u) == IF OpenShifts(u) = {} THEN {NoShift} ELSE OpenShifts(u)

(* An entry only for money: a sale comped to zero posts none.              *)
EntryFor(net) == [status |-> IF net = 0 THEN "NONE" ELSE "POSTED", amount |-> net, version |-> 1,
                  reconciled |-> FALSE, flipped |-> FALSE]

(* The row a sale writes, from what it read under the lock.  Types that    *)
(* are gone from the session make the pricing throw.                       *)
Row(u, r, k, c) ==
  LET q == QuoteSale(r.types, r.order.lines, r.rules, c, r.order.manual)
  IN  [day |-> r.day, seller |-> u, shift |-> k, wallet |-> r.order.wallet, card |-> c.id,
       tickets |-> q.heads, first |-> day[r.day].next, net |-> q.net, redeemed |-> q.members,
       status |-> "COMPLETED", entry |-> EntryFor(q.net)]

Priced(r) == \A l \in DOMAIN r.order.lines : \E t \in r.types : t.id = r.order.lines[l].type

(* createSale takes the lock of the day, looks at the day again and reads. *)
(* The altered form goes by what was true before the lock.                 *)
StillOpen_NotRead(d) == d \in DOMAIN day

StillOpen(d) == day[d].status = "OPEN"

LockSale(u) ==
  /\ req[u].pc = "sale" /\ Unlocked(req[u].day)
  /\ StillOpen(req[u].day)
  /\ Priced(req[u]) /\ Room(req[u].day, req[u].order.lines, req[u].types)
  /\ LET c == Membership(req[u].order.card, req[u].day[1])
     IN  \E k \in FoundShift(u) :
           Asks(u, [pc |-> "selling", row |-> Row(u, req[u], k, c), types |-> req[u].types,
                    allowance |-> c.most])
  /\ UNCHANGED <<asked, today, config, card, day, shift, sale>>

(* The numbers on the tickets carry the date, not the session, and are     *)
(* unique in the workspace.                                                *)
Serials(s) == {<<s.day[1], n>> : n \in s.first .. s.first + Len(s.tickets) - 1}
SerialsFree(s) == \A k \in DOMAIN sale : Serials(sale[k]) \intersect Serials(s) = {}

(* The rows a ticket refers to are still there.                            *)
Referred(s) ==
  \A i \in DOMAIN s.tickets :
    /\ type[s.tickets[i].type].state # "none"
    /\ s.tickets[i].rule # NoRule => offer[s.tickets[i].rule].state # "none"

CommitSale(u) ==
  /\ req[u].pc = "selling"
  /\ Len(sale) < MaxSales
  /\ SerialsFree(req[u].row) /\ Referred(req[u].row)
  /\ sale' = Append(sale, req[u].row)
  /\ day' = [day EXCEPT ![req[u].row.day].next = @ + Len(req[u].row.tickets)]
  /\ Done(u)
  /\ UNCHANGED <<asked, today, config, card, shift>>

(* A refusal, or a step of the transaction that fails: nothing is written. *)
GiveUp(u) ==
  /\ req[u] # Idle
  /\ Done(u)
  /\ UNCHANGED <<asked, today, config, card, day, shift, sale>>

(* voidSale: checked before the transaction, and again under the lock,     *)
(* where reverseEntryWithin refuses a reconciled entry.                    *)
BeginVoid(u, k) ==
  /\ May(u, "void", "VOID_TICKET_SALE")
  /\ sale[k].status = "COMPLETED" /\ day[sale[k].day].status = "OPEN"
  /\ Manager(u) \/ (Configured /\ sale[k].seller = u /\ settings.selfVoid)
  /\ Asks(u, [pc |-> "void", sale |-> k])
  /\ UNCHANGED <<today, config, card, day, shift, sale>>

Reversed(e) == IF e.status = "POSTED" THEN [e EXCEPT !.status = "REVERSED"] ELSE e

(* The sale, its tickets and its entry are reversed, and the redemption    *)
(* removed.  The altered form leaves the entry posted.                     *)
Voided_KeepingEntry(s) == [s EXCEPT !.status = "VOIDED", !.redeemed = 0]

Voided(s) == [s EXCEPT !.status = "VOIDED", !.redeemed = 0, !.entry = Reversed(@)]

CommitVoid(u) ==
  /\ req[u].pc = "void"
  /\ LET k == req[u].sale IN
       /\ Unlocked(sale[k].day)
       /\ sale[k].status = "COMPLETED" /\ day[sale[k].day].status = "OPEN"
       /\ sale[k].entry.status = "POSTED" => ~sale[k].entry.reconciled
       /\ sale' = [sale EXCEPT ![k] = Voided(@)]
  /\ Done(u)
  /\ UNCHANGED <<asked, today, config, card, day, shift>>

-----------------------------------------------------------------------------
(* Days and drawers.                                                       *)

(* closeDay reconciles the posted entries of the sales that stand.         *)
ToReconcile(d) == {k \in Completed(d) : sale[k].entry.status = "POSTED"}

WithMark(s, mark) == [s EXCEPT !.entry.reconciled = mark, !.entry.flipped = FALSE]
Marked(ks, mark) == [k \in DOMAIN sale |-> IF k \in ks THEN WithMark(sale[k], mark) ELSE sale[k]]

CloseDay(u, d) ==
  /\ May(u, "close", "RECONCILE_TICKET_SHIFT")
  /\ Unlocked(d)
  /\ day[d].status = "OPEN"
  /\ \A k \in DOMAIN shift : shift[k].day = d => shift[k].status # "OPEN"
  /\ sale' = Marked(ToReconcile(d), TRUE)
  /\ day' = [day EXCEPT ![d].status = "CLOSED"]
  /\ UNCHANGED <<today, config, card, shift, req>>

ReopenDay(u, d) ==
  /\ May(u, "reopen", "MANAGE_TICKETING")
  /\ Unlocked(d)
  /\ day[d].status = "CLOSED"
  /\ sale' = Marked({k \in Completed(d) : sale[k].entry.status # "NONE"}, FALSE)
  /\ day' = [day EXCEPT ![d].status = "OPEN"]
  /\ UNCHANGED <<today, config, card, shift, req>>

(* openShift: one open drawer for an attendant and a day.  It does not ask *)
(* whether the day is open.                                                *)
OpenShift(u, who) ==
  /\ May(u, "shift", "SELL_TICKETS")
  /\ who = u \/ Manager(u)
  /\ Configured /\ Len(shift) < MaxShifts
  /\ \E s \in Sessions :
       /\ Open(s)
       /\ day' = Ensured(<<today, s>>)
       /\ \A k \in OpenShifts(who) : shift[k].day # <<today, s>>
       /\ shift' = Append(shift, [day |-> <<today, s>>, who |-> who, status |-> "OPEN",
                                  expected |-> [w \in Wallets |-> 0]])
  /\ UNCHANGED <<today, config, card, sale, req>>

(* closeShift: what each wallet should hold, from the sales of the drawer  *)
(* that stand, kept with the drawer.                                       *)
TakenIn(ks)  == SumOver([k \in ks |-> sale[k].net])
Taken(ks, w) == TakenIn({k \in ks : sale[k].wallet = w})

CloseShift(u, k) ==
  /\ May(u, "count", "SELL_TICKETS")
  /\ shift[k].status = "OPEN"
  /\ shift[k].who = u \/ "RECONCILE_TICKET_SHIFT" \in Capabilities(u)
  /\ LET mine == {i \in DOMAIN sale : sale[i].shift = k /\ sale[i].status = "COMPLETED"}
     IN  shift' = [shift EXCEPT ![k].status = "CLOSED",
                                ![k].expected = [w \in Wallets |-> Taken(mine, w)]]
  /\ UNCHANGED <<today, config, card, day, sale, req>>

-----------------------------------------------------------------------------
(* The configuration.  Prices and capacities apply from the next sale on.  *)

Configures(u, operation, permission) ==
  /\ Allowed(u, operation, permission) /\ Counted(2)
  /\ UNCHANGED <<today, day, shift, sale>>

(* updateSettings: the desk is configured when there is a book.            *)
UpdateSettings(u, book, selfVoid) ==
  /\ Configures(u, "configure", "MANAGE_TICKETING")
  /\ settings' = [settings EXCEPT !.book = book, !.selfVoid = selfVoid]
  /\ UNCHANGED <<session, type, offer, tier, card, req>>

(* provision: a book of its own, unless there is one.                      *)
Provision(u) ==
  /\ Configures(u, "configure", "MANAGE_TICKETING")
  /\ ~settings.book
  /\ settings' = [settings EXCEPT !.book = TRUE]
  /\ UNCHANGED <<session, type, offer, tier, card, req>>

(* The partial unique indexes: one active session for a weekday, one for a *)
(* date.                                                                   *)
Free(s) == \A d \in Runs[s].dates : ActiveOn(d, Runs[s].weekly) \subseteq {s}

CreateSession(u, s, shape) ==
  /\ Configures(u, "configure", "MANAGE_TICKETING")
  /\ session[s].state = "none" /\ Free(s)
  /\ session' = [session EXCEPT ![s] = [state |-> "active", capacity |-> shape.capacity]]
  /\ UNCHANGED <<settings, type, offer, tier, card, req>>

UpdateSession(u, s, shape, active) ==
  /\ Configures(u, "configure", "MANAGE_TICKETING")
  /\ session[s].state # "none" /\ (active => Free(s))
  /\ session' = [session EXCEPT ![s] = [state |-> IF active THEN "active" ELSE "archived",
                                        capacity |-> shape.capacity]]
  /\ UNCHANGED <<settings, type, offer, tier, card, req>>

(* deleteSession: archived once a day was opened for it, otherwise deleted *)
(* with its types and offers.                                              *)
HasDays(s) == \E d \in DOMAIN day : d[2] = s

DeleteSession(u, s) ==
  /\ Configures(u, "configure", "MANAGE_TICKETING")
  /\ session[s].state # "none"
  /\ session' = [session EXCEPT ![s].state = IF HasDays(s) THEN "archived" ELSE "none"]
  /\ type' = [t \in Types |-> IF TypeOf[t].session = s /\ ~HasDays(s)
                              THEN [type[t] EXCEPT !.state = "none"] ELSE type[t]]
  /\ offer' = [r \in RuleIds |-> IF RuleBook[r].of = s /\ ~HasDays(s)
                                 THEN [offer[r] EXCEPT !.state = "none"] ELSE offer[r]]
  /\ UNCHANGED <<settings, tier, card, req>>

CreateTicketType(u, t, shape) ==
  /\ Configures(u, "configure", "MANAGE_TICKETING")
  /\ type[t].state = "none" /\ session[TypeOf[t].session].state # "none"
  /\ type' = [type EXCEPT ![t] = [state |-> "active", price |-> shape.price,
                                  capacity |-> shape.capacity]]
  /\ UNCHANGED <<settings, session, offer, tier, card, req>>

UpdateTicketType(u, t, shape, active) ==
  /\ Configures(u, "configure", "MANAGE_TICKETING")
  /\ type[t].state # "none"
  /\ type' = [type EXCEPT ![t] = [state |-> IF active THEN "active" ELSE "archived",
                                  price |-> shape.price, capacity |-> shape.capacity]]
  /\ UNCHANGED <<settings, session, offer, tier, card, req>>

(* deleteTicketType: archived once a ticket of it was sold.                *)
Sold(t) == \E k \in DOMAIN sale : \E i \in DOMAIN sale[k].tickets : sale[k].tickets[i].type = t

DeleteTicketType(u, t) ==
  /\ Configures(u, "configure", "MANAGE_TICKETING")
  /\ type[t].state # "none"
  /\ type' = [type EXCEPT ![t].state = IF Sold(t) THEN "archived" ELSE "none"]
  /\ UNCHANGED <<settings, session, offer, tier, card, req>>

(* Offers of managers; those of tiers come with their tier.                *)
CreateDiscountRule(u, r) ==
  /\ Configures(u, "offer", "MANAGE_TICKETING")
  /\ offer[r].state = "none" /\ \A t \in Tiers : TierBook[t].rule # r
  /\ \A s \in Sessions \intersect {RuleBook[r].of} : session[s].state # "none"
  /\ offer' = [offer EXCEPT ![r] = [state |-> "active", value |-> RuleBook[r].rule.value]]
  /\ UNCHANGED <<settings, session, type, tier, card, req>>

UpdateDiscountRule(u, r, value, active) ==
  /\ Configures(u, "offer", "MANAGE_TICKETING")
  /\ offer[r].state # "none"
  /\ offer' = [offer EXCEPT ![r] = [state |-> IF active THEN "active" ELSE "inactive",
                                    value |-> value]]
  /\ UNCHANGED <<settings, session, type, tier, card, req>>

(* deleteDiscountRule: the tickets it discounted only lose the pointer.    *)
Unpointed(s, r) ==
  LET Without(head) == IF head.rule = r THEN [head EXCEPT !.rule = NoRule] ELSE head
  IN  [s EXCEPT !.tickets = [i \in DOMAIN s.tickets |-> Without(s.tickets[i])]]

DeleteDiscountRule(u, r) ==
  /\ Allowed(u, "offer", "MANAGE_TICKETING") /\ Counted(2)
  /\ offer[r].state # "none"
  /\ offer' = [offer EXCEPT ![r].state = "none"]
  /\ sale' = [k \in DOMAIN sale |-> Unpointed(sale[k], r)]
  /\ UNCHANGED <<today, settings, session, type, tier, card, day, shift, req>>

-----------------------------------------------------------------------------
(* Memberships.  A tier and its offer are written one after the other, and *)
(* not in one transaction.                                                 *)

BeginTier(u, t, value, active) ==
  /\ Configures(u, "tier", "MANAGE_MEMBERSHIPS")
  /\ tier[t].state = "none" => active
  /\ tier' = [tier EXCEPT ![t] = [state |-> IF active THEN "active" ELSE "inactive",
                                  value |-> value]]
  /\ Asks(u, [pc |-> "tier", tier |-> t, value |-> value, active |-> active,
              new |-> tier[t].state = "none"])
  /\ UNCHANGED <<settings, session, type, offer, card>>

(* createTier makes the offer; updateTier changes it if it still exists.   *)
FinishTier(u) ==
  /\ req[u].pc = "tier"
  /\ LET r == TierBook[req[u].tier].rule
     IN  offer' = IF req[u].new \/ offer[r].state # "none"
                  THEN [offer EXCEPT ![r] = [state |-> IF req[u].active THEN "active" ELSE "inactive",
                                             value |-> req[u].value]]
                  ELSE offer
  /\ Done(u)
  /\ UNCHANGED <<asked, today, settings, session, type, tier, card, day, shift, sale>>

(* A tier with a fee needs a book to post it to.                           *)
FeeHasABook(t) == TierBook[t].fee = 0 \/ Configured

(* addMonths, in business dates; a tier without a length never expires.    *)
Extended(from, t) == IF TierBook[t].months = 0 THEN Forever ELSE from + TierBook[t].months

(* create: the card, and the fee in the same transaction.                  *)
CreateCard(u, c, t) ==
  /\ Configures(u, "card", "MANAGE_MEMBERSHIPS")
  /\ card[c].status = "none" /\ tier[t].state # "none" /\ FeeHasABook(t)
  /\ card' = [card EXCEPT ![c] = [status |-> "ACTIVE", tier |-> t, until |-> Extended(today, t)]]
  /\ UNCHANGED <<settings, session, type, offer, tier, req>>

UpdateCard(u, c, t, status) ==
  /\ Configures(u, "card", "MANAGE_MEMBERSHIPS")
  /\ card[c].status # "none" /\ tier[t].state # "none"
  /\ card' = [card EXCEPT ![c].status = status, ![c].tier = t]
  /\ UNCHANGED <<settings, session, type, offer, tier, req>>

(* renew computes the new end from the card as it read it, and writes it   *)
(* with the fee later.                                                     *)
BeginRenew(u, c) ==
  /\ May(u, "renew", "MANAGE_MEMBERSHIPS")
  /\ card[c].status # "none" /\ TierBook[card[c].tier].months > 0
  /\ FeeHasABook(card[c].tier)
  /\ Asks(u, [pc |-> "renew", card |-> c,
              until |-> Extended(Max({card[c].until, today}), card[c].tier)])
  /\ UNCHANGED <<today, config, card, day, shift, sale>>

FinishRenew(u) ==
  /\ req[u].pc = "renew"
  /\ card' = [card EXCEPT ![req[u].card].status = "ACTIVE", ![req[u].card].until = req[u].until]
  /\ Done(u)
  /\ UNCHANGED <<asked, today, settings, session, type, offer, tier, day, shift, sale>>

-----------------------------------------------------------------------------
(* The book that the entries of the desk are posted in.                    *)

BookOps == {"edit", "delete", "toggle"}

(* updateEntry with an amount, deleteEntry (or an approved request for it) *)
(* and toggleReconciliation read the entry before they write.  The first   *)
(* two are refused if it is reconciled then.                               *)
BeginBook(u, op, k) ==
  /\ "book" \in Operations
  /\ req[u] = Idle /\ Counted(1)
  /\ sale[k].entry.status = "POSTED"
  /\ op # "toggle" => ~sale[k].entry.reconciled
  /\ Asks(u, [pc |-> "book", op |-> op, sale |-> k, seen |-> sale[k].entry])
  /\ UNCHANGED <<today, config, card, day, shift, sale>>

(* The write of updateEntry is for the version it read, if the entry was   *)
(* not deleted; the others ask for nothing.  The mark becomes the opposite *)
(* of what it was.                                                         *)
Edited(e, x)     == [e EXCEPT !.amount = x, !.version = @ + 1]
Deleted(e)       == [e EXCEPT !.status = "REVERSED"]
Toggled(e, seen) == [e EXCEPT !.reconciled = ~seen.reconciled, !.flipped = TRUE]

Corrects(u, op, k) == req[u].pc = "book" /\ req[u].op = op /\ req[u].sale = k

Rewrites(u, k, e) ==
  /\ sale' = [sale EXCEPT ![k].entry = e]
  /\ Done(u)
  /\ UNCHANGED <<asked, today, config, card, day, shift>>

EditEntry(u, k, x) ==
  /\ Corrects(u, "edit", k)
  /\ sale[k].entry.status = "POSTED" /\ sale[k].entry.version = req[u].seen.version
  /\ Rewrites(u, k, Edited(sale[k].entry, x))

DeleteEntry(u, k) == Corrects(u, "delete", k) /\ Rewrites(u, k, Deleted(sale[k].entry))

ToggleReconciliation(u, k) ==
  Corrects(u, "toggle", k) /\ Rewrites(u, k, Toggled(sale[k].entry, req[u].seen))

-----------------------------------------------------------------------------
(* Around the desk.                                                        *)

(* setWorkspaceFeature.                                                    *)
SetFeature(on) ==
  /\ "feature" \in Operations
  /\ settings.enabled # on /\ Counted(2)
  /\ settings' = [settings EXCEPT !.enabled = on]
  /\ UNCHANGED <<today, session, type, offer, tier, card, day, shift, sale, req>>

(* The business day of WorkspaceClock turns.                               *)
NextDate ==
  /\ today < MaxDate
  /\ today' = today + 1
  /\ UNCHANGED <<asked, config, card, day, shift, sale, req>>

Init ==
  /\ today = 1 /\ asked = 0
  /\ \E start \in Starts :
       /\ settings = [enabled |-> TRUE, book |-> start.book, selfVoid |-> TRUE]
       /\ session = start.session /\ type = start.type
       /\ offer = start.offer /\ tier = start.tier /\ card = start.card
  /\ day = <<>> /\ shift = <<>> /\ sale = <<>>
  /\ req = [u \in Users |-> Idle]

Values == {s.price : s \in Shapes}

AtTheDesk(u) ==
  \/ \E o \in Orders : BeginSale(u, o)
  \/ LockSale(u) \/ CommitSale(u)
  \/ \E k \in DOMAIN sale : BeginVoid(u, k)
  \/ CommitVoid(u)
  \/ \E d \in DOMAIN day : CloseDay(u, d) \/ ReopenDay(u, d)
  \/ \E v \in Users : OpenShift(u, v)
  \/ \E k \in DOMAIN shift : CloseShift(u, k)
  \/ GiveUp(u)

Configuring(u) ==
  \/ \E book, selfVoid \in BOOLEAN : UpdateSettings(u, book, selfVoid)
  \/ Provision(u)
  \/ \E s \in Sessions, shape \in Shapes :
       CreateSession(u, s, shape) \/ \E on \in BOOLEAN : UpdateSession(u, s, shape, on)
  \/ \E s \in Sessions : DeleteSession(u, s)
  \/ \E t \in Types, shape \in Shapes :
       CreateTicketType(u, t, shape) \/ \E on \in BOOLEAN : UpdateTicketType(u, t, shape, on)
  \/ \E t \in Types : DeleteTicketType(u, t)
  \/ \E r \in RuleIds : CreateDiscountRule(u, r) \/ DeleteDiscountRule(u, r)
  \/ \E r \in RuleIds, v \in Values, on \in BOOLEAN : UpdateDiscountRule(u, r, v, on)

Members(u) ==
  \/ \E t \in Tiers, v \in Values, on \in BOOLEAN : BeginTier(u, t, v, on)
  \/ FinishTier(u)
  \/ \E c \in Cards, t \in Tiers :
       CreateCard(u, c, t) \/ \E st \in {"ACTIVE", "SUSPENDED"} : UpdateCard(u, c, t, st)
  \/ \E c \in Cards : BeginRenew(u, c)
  \/ FinishRenew(u)

InTheBook(u) ==
  \E k \in DOMAIN sale :
    \/ \E op \in BookOps : BeginBook(u, op, k)
    \/ \E x \in Values \ {0} : EditEntry(u, k, x)
    \/ DeleteEntry(u, k)
    \/ ToggleReconciliation(u, k)

Next ==
  \/ \E u \in Users : AtTheDesk(u) \/ Configuring(u) \/ Members(u) \/ InTheBook(u)
  \/ \E on \in BOOLEAN : SetFeature(on)
  \/ NextDate

Spec == Init /\ [][Next]_vars

-----------------------------------------------------------------------------
(* Reports, as getDaySummary computes them.                                *)
DayNet(d)      == TakenIn(Completed(d))
ByWallet(d)    == [w \in Wallets |-> Taken(Completed(d), w)]
ByAttendant(d) == [u \in Users |-> TakenIn({k \in Completed(d) : sale[k].seller = u})]

NetOf(tickets, t) == SumOver([i \in HeadsOf(tickets, t) |-> NetPrice(tickets[i])])
ByType(d) == [t \in Types |-> SumOver([k \in Completed(d) |-> NetOf(sale[k].tickets, t)])]

(* What the ledger has of a day: its posted entries, and those deleted in  *)
(* the book of sales that stand, but for those edited there.               *)
Unedited(ks) == {k \in ks : sale[k].entry.version = 1}
Entered(d)  == {k \in SalesOf(d) : sale[k].entry.status = "POSTED" \/ sale[k].status = "COMPLETED"}
EntrySum(d) == SumOver([k \in Unedited(Entered(d)) |-> sale[k].entry.amount])

(* The three breakdowns of a day say the same as its total, and what the   *)
(* entries that nobody edited carry is what their sales took: getDaySummary *)
(* reads tickets and sales, the ledger the entries.  No head is charged    *)
(* less than nothing, and a reversed sale keeps neither its posted entry   *)
(* nor a redemption, though its entry was edited, or marked and unmarked,  *)
(* meanwhile.                                                              *)
TakingsAgree ==
  /\ \A d \in DOMAIN day :
       /\ SumOver(ByWallet(d)) = DayNet(d) /\ SumOver(ByAttendant(d)) = DayNet(d)
       /\ SumOver(ByType(d)) = DayNet(d) /\ EntrySum(d) = TakenIn(Unedited(Completed(d)))
  /\ \A k \in DOMAIN sale :
       /\ \A i \in DOMAIN sale[k].tickets : NetPrice(sale[k].tickets[i]) >= 0
       /\ sale[k].status = "VOIDED" => sale[k].entry.status # "POSTED" /\ sale[k].redeemed = 0

(* Two attendants who confirm at once neither oversell the day nor get one *)
(* number twice: the lock of the day, the count under it and the day's     *)
(* counter.  The seats include those of the sale that holds the lock.      *)
InHand(d) == {u \in Users : req[u].pc = "selling" /\ req[u].row.day = d}

SeatsHold ==
  /\ \A d \in DOMAIN day :
       /\ \A u, v \in InHand(d) : u = v
       /\ day[d].capacity # NoCap =>
            Issued(d) + SumOver([u \in InHand(d) |-> Len(req[u].row.tickets)]) <= day[d].capacity
       /\ \A u \in InHand(d) : \A t \in req[u].types :
            LET wanted == Cardinality(HeadsOf(req[u].row.tickets, t.id))
            IN  t.capacity # NoCap /\ wanted > 0 => IssuedOf(d, t.id) + wanted <= t.capacity
  /\ \A j, k \in DOMAIN sale : j # k => Serials(sale[j]) \intersect Serials(sale[k]) = {}
  /\ \A k \in DOMAIN sale : \A n \in Serials(sale[k]) : n[2] < day[sale[k].day].next

(* A sale about to redeem tickets brings the card to at most the allowance *)
(* of its tier for the day, whatever other sales did since the count: what *)
(* resolveMembership counts stays as it was while the day is locked.       *)
OfCard(d, c) == {k \in SalesOf(d) : sale[k].card = c}

AllowanceHolds ==
  \A d \in DOMAIN day : \A u \in InHand(d) :
    LET r == req[u].row
    IN  r.redeemed > 0 /\ req[u].allowance # Unlimited =>
          Redeemed(OfCard(d, r.card)) + r.redeemed <= req[u].allowance

(* What stands of a closed day is reconciled, and nothing of an open one,  *)
(* but for the marks that were set or taken off in the book.               *)
ClosedIsReconciled ==
  \A k \in DOMAIN sale : ~sale[k].entry.flipped =>
    /\ sale[k].entry.reconciled => day[sale[k].day].status = "CLOSED"
    /\ sale[k].status = "COMPLETED" /\ sale[k].entry.status = "POSTED"
         /\ day[sale[k].day].status = "CLOSED" => sale[k].entry.reconciled

(* While a day stays closed no sale joins it and none is reversed, whoever *)
(* was between the check and the lock when it closed; deleting an offer    *)
(* takes its pointer off the tickets only.  An entry of it changes by a    *)
(* request of the book alone: its mark is toggled, or it is edited or      *)
(* deleted by a request that read it before it was reconciled.             *)
Standing(k) == <<sale[k].status, sale[k].net, sale[k].redeemed>>

Late(u, k) ==
  /\ req[u].pc = "book" /\ req[u].sale = k /\ req'[u] = Idle
  /\ req[u].op = "toggle" \/ ~req[u].seen.reconciled

ClosedDayFrozen ==
  [][\A d \in DOMAIN day : day[d].status = "CLOSED" /\ day'[d].status = "CLOSED" =>
       /\ SalesOf(d)' = SalesOf(d)
       /\ \A k \in SalesOf(d) :
            /\ Standing(k)' = Standing(k)
            /\ sale'[k].entry # sale[k].entry => \E u \in Users : Late(u, k)]_vars

(* What the documentation says of closing: a reconciled entry cannot be    *)
(* deleted or have its amount edited from anywhere in the application.     *)
ReconciledIsFinal ==
  [][\A k \in DOMAIN sale : sale[k].entry.reconciled /\ sale'[k].entry.reconciled =>
       /\ sale'[k].entry.status = sale[k].entry.status
       /\ sale'[k].entry.amount = sale[k].entry.amount]_vars

(* What the desk keeps true of the books: the takings of every day agree   *)
(* with its entries, and a closed day is reconciled, a reopened one not,   *)
(* as far as the book left the entries alone (createSale, voidSale,        *)
(* closeDay, reopenDay).                                                   *)
DeskSafe == TypeOK /\ TakingsAgree /\ ClosedIsReconciled
=============================================================================
