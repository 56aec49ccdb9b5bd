--------------------------- MODULE TicketPricing ---------------------------
(***************************************************************************)
(* What a basket of tickets costs (src/modules/ticketing/pricing.ts): the  *)
(* basket is expanded into heads, every offer in its turn takes a discount *)
(* off the heads it may touch, and what is left is charged.                *)
(*                                                                         *)
(* Pure: no variables.  Money is counted in the smallest unit the columns  *)
(* hold (Decimal(20,4)).  Offers carry their identifier as a number, and   *)
(* only its order matters.                                                 *)
(***************************************************************************)
EXTENDS Integers, Sequences, FiniteSets, FiniteSetsExt, SequencesExt

Classes == {"ADULT", "MINOR", "OTHER"}
Offers  == {"GUARDIAN_COMP", "MEMBERSHIP", "GROUP", "MANUAL"}

Unlimited == -1  \* maxUsesPerDay: null

(* TicketTypeSnapshot and DiscountRuleSnapshot.  Of the free-form config,  *)
(* few is minMinors or minQuantity, most is maxCompPerSale, comp the class *)
(* that is comped and only the types the offer names, none meaning any.    *)
TypeSnapshot(Types) == [id : Types, class : Classes, price : Nat]
Rule(Types, Tiers)  ==
  [id : Nat, type : Offers, valueType : {"PERCENT", "AMOUNT"}, value : Nat,
   few : Nat, most : Nat, comp : Classes, only : SUBSET Types, tier : Tiers,
   priority : Nat, stackable : BOOLEAN]

Ticket(Types) ==
  [type : Types, class : Classes, gross : Nat, discount : Nat, rule : Nat,
   line : Nat, member : BOOLEAN]

NoRule == 0      \* ruleId: null

(* One head for each ticket of each line.                                  *)
Expand(types, lines) ==
  LET Price(l) == CHOOSE t \in types : t.id = lines[l].type
      Heads(l) == [k \in 1 .. lines[l].quantity |->
                    [type |-> lines[l].type, class |-> Price(l).class,
                     gross |-> Price(l).price, discount |-> 0, rule |-> NoRule,
                     line |-> l, member |-> FALSE]]
  IN  FlattenSeq([l \in DOMAIN lines |-> Heads(l)])

(* discountFor: never more than is left of the price.                      *)
Raw(rule, gross) ==
  IF rule.valueType = "PERCENT" THEN (2 * gross * rule.value + 100) \div 200 ELSE rule.value

DiscountFor(rule, head) == Min({Raw(rule, head.gross), head.gross - head.discount})

(* byValue and slice: the n dearest of the heads, the earlier one of two   *)
(* that cost the same.                                                     *)
Dearer(heads, i, j) ==
  \/ heads[i].gross > heads[j].gross
  \/ heads[i].gross = heads[j].gross /\ i < j

Dearest(heads, S, n) == {i \in S : Cardinality({j \in S : Dearer(heads, j, i)}) < n}

(* The heads an offer may touch at all: those it names and that no other   *)
(* offer has touched, unless it stacks.                                    *)
Untouched(rule, heads) == {i \in DOMAIN heads : rule.stackable \/ heads[i].rule = NoRule}
Named(rule, heads)     == {i \in DOMAIN heads : rule.only = {} \/ heads[i].type \in rule.only}

(* eligibleTickets, one definition for each kind of offer.  The minors     *)
(* that earn a comp and the heads that make a group count whether or not   *)
(* another offer touched them.                                             *)
Comped(rule, heads) ==
  IF Cardinality({i \in DOMAIN heads : heads[i].class = "MINOR"}) < rule.few THEN {}
  ELSE Dearest(heads, {i \in Untouched(rule, heads) : heads[i].class = rule.comp}, rule.most)

(* The altered form forgets what other baskets of the day redeemed.        *)
ForMembers_PerBasket(rule, heads, card) ==
  LET candidates == Untouched(rule, heads) \intersect Named(rule, heads)
  IN  IF card.id = "none" \/ rule.tier # card.tier THEN {}
      ELSE IF card.most = Unlimited THEN candidates
      ELSE Dearest(heads, candidates, card.most)

ForMembers(rule, heads, card) ==
  LET candidates == Untouched(rule, heads) \intersect Named(rule, heads)
  IN  IF card.id = "none" \/ rule.tier # card.tier THEN {}
      ELSE IF card.most = Unlimited THEN candidates
      ELSE Dearest(heads, candidates, card.most - card.used)

Group(rule, heads) ==
  IF Cardinality(Named(rule, heads)) < rule.few THEN {}
  ELSE Named(rule, heads) \intersect Untouched(rule, heads)

ByHand(rule, heads) == Named(rule, heads) \intersect Untouched(rule, heads)

Eligible(rule, heads, card) ==
  CASE rule.type = "GUARDIAN_COMP" -> Comped(rule, heads)
    [] rule.type = "MEMBERSHIP"    -> ForMembers(rule, heads, card)
    [] rule.type = "GROUP"         -> Group(rule, heads)
    [] rule.type = "MANUAL"        -> ByHand(rule, heads)

(* One turn of the loop over the offers.                                   *)
ApplyRule(rule, heads, card) ==
  [i \in DOMAIN heads |->
    IF i \in Eligible(rule, heads, card) /\ DiscountFor(rule, heads[i]) > 0
    THEN [heads[i] EXCEPT !.discount = @ + DiscountFor(rule, heads[i]), !.rule = rule.id,
                          !.member = @ \/ rule.type = "MEMBERSHIP"]
    ELSE heads[i]]

(* Lowest priority number first, then the identifier.  Offers made by hand *)
(* only when somebody named them.                                          *)
Before(r, s) == \/ r.priority < s.priority
                \/ r.priority = s.priority /\ r.id < s.id

LastOf(rules) == CHOOSE r \in rules : \A s \in rules \ {r} : Before(s, r)

Applying(rules, manual) == {r \in rules : r.type # "MANUAL" \/ r.id \in manual}

(* The last of the offers on top of what those before it took.             *)
QuotedHeads(types, lines, rules, card, manual) ==
  MapThenFoldSet(LAMBDA rule, heads : ApplyRule(rule, heads, card), Expand(types, lines),
                 LAMBDA rule : rule, LastOf, Applying(rules, manual))

(* What a function adds up to.                                             *)
SumOver(f) == MapThenSumSet(LAMBDA x : f[x], DOMAIN f)

NetPrice(h)      == h.gross - h.discount
GrossOf(heads)    == SumOver([i \in DOMAIN heads |-> heads[i].gross])
DiscountOf(heads) == SumOver([i \in DOMAIN heads |-> heads[i].discount])

(* The roll-up of quoteSale: what the sale row, the entry and the          *)
(* redemption are written from.                                            *)
QuoteSale(types, lines, rules, card, manual) ==
  LET heads == QuotedHeads(types, lines, rules, card, manual)
  IN  [heads |-> heads, net |-> GrossOf(heads) - DiscountOf(heads),
       members |-> Cardinality({i \in DOMAIN heads : heads[i].member})]
=============================================================================
