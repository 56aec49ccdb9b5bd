---------------------------- MODULE MCTicketDesk ----------------------------
(* Instances of TicketDesk small enough for TLC.                           *)
EXTENDS TicketDesk

CONSTANTS boss, amy, tin, weekly, holiday, extra, adult, child, special, senior,
          gold, silver, c1, c2

OurStaff == (boss :> [role |-> "OWNER", tag |-> "NONE"])
              @@ (amy :> [role |-> "MEMBER", tag |-> "TICKETING"])

OurRuns == (weekly :> [weekly |-> TRUE, dates |-> {1, 2}])
             @@ (holiday :> [weekly |-> FALSE, dates |-> {1}])
             @@ (extra :> [weekly |-> FALSE, dates |-> {2}])

OurTypes == (adult :> [session |-> weekly, class |-> "ADULT"])
              @@ (child :> [session |-> weekly, class |-> "MINOR"])
              @@ (senior :> [session |-> weekly, class |-> "OTHER"])
              @@ (special :> [session |-> holiday, class |-> "ADULT"])

(* A guardian comp, the discounts of two tiers, an offer made by hand.     *)
Offer(id, kind, valueType, value, few, most, of, tr, priority) ==
  [of |-> of, rule |-> [id |-> id, type |-> kind, valueType |-> valueType, value |-> value,
                        few |-> few, most |-> most, comp |-> "ADULT", only |-> {},
                        tier |-> tr, priority |-> priority, stackable |-> kind = "MANUAL"]]

OurRules == <<Offer(1, "GUARDIAN_COMP", "PERCENT", 100, 2, 1, weekly, "none", 10),
              Offer(2, "MEMBERSHIP", "PERCENT", 50, 0, 0, Everywhere, gold, 50),
              Offer(3, "MANUAL", "AMOUNT", 3, 0, 0, Everywhere, "none", 100),
              Offer(4, "MEMBERSHIP", "PERCENT", 50, 0, 0, Everywhere, silver, 50),
              Offer(5, "GROUP", "PERCENT", 25, 3, 0, weekly, "none", 60)>>

OurTiers == (gold :> [most |-> 1, months |-> 1, fee |-> 2, rule |-> 2])
              @@ (silver :> [most |-> Unlimited, months |-> 0, fee |-> 0, rule |-> 4])

Row0(state, value) == [state |-> state, value |-> value]

(* The desk before and after its book was chosen: the holiday has its      *)
(* prices but is archived, there is no offer for groups yet.               *)
Desk(book) ==
  [book |-> book,
   session |-> (weekly :> [state |-> "active", capacity |-> 4])
                 @@ (holiday :> [state |-> "archived", capacity |-> NoCap])
                 @@ (extra :> [state |-> "none", capacity |-> NoCap]),
   type |-> (adult :> [state |-> "active", price |-> 4, capacity |-> NoCap])
              @@ (child :> [state |-> "active", price |-> 2, capacity |-> 3])
              @@ (special :> [state |-> "active", price |-> 6, capacity |-> NoCap])
              @@ (senior :> [state |-> "none", price |-> 0, capacity |-> NoCap]),
   offer |-> <<Row0("active", 100), Row0("active", 50), Row0("active", 3), Row0("none", 50),
               Row0("none", 25)>>,
   tier |-> (gold :> Row0("active", 50)) @@ (silver :> Row0("none", 0)),
   card |-> (c1 :> [status |-> "ACTIVE", tier |-> gold, until |-> 1])
              @@ (c2 :> [status |-> "none", tier |-> gold, until |-> 0])]

OurStarts == {Desk(TRUE), Desk(FALSE)}

OurShapes == {[capacity |-> 3, price |-> 5]}

Line(t, n) == [type |-> t, quantity |-> n]
Order(lines, c, manual) == [lines |-> lines, wallet |-> tin, card |-> c, manual |-> manual]

OurOrders == {Order(<<Line(adult, 1), Line(child, 2)>>, NoCard, {}),
              Order(<<Line(adult, 2)>>, c1, {}),
              Order(<<Line(special, 1)>>, NoCard, {3})}
=============================================================================
