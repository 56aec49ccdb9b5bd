---------------------------- MODULE StockPromise ----------------------------
(***************************************************************************)
(* What the stock room promises to the documents that move goods: at any   *)
(* time a document has moved exactly the lines it stands for now, however  *)
(* often they were edited, and nothing once it is gone.  Counts, returns   *)
(* from rent and manual movements shift the stock of one item each, on no  *)
(* document's account.                                                     *)
(***************************************************************************)
EXTENDS Integers, Sequences, FiniteSets, FiniteSetsExt

CONSTANTS
  Items,   \* inventory items
  Docs     \* entries, wallet transactions, obligations and invoices

VARIABLES
  lines,   \* what each document stands for: a sequence of signed movements
  onHand   \* units on the shelf

vars == <<lines, onHand>>

(* What a sequence of lines does to the stock of item i.                   *)
Moved(ls, i) ==
  MapThenSumSet(LAMBDA n : ls[n].quantity, {n \in DOMAIN ls : ls[n].item = i})

Init ==
  /\ lines = [d \in Docs |-> << >>]
  /\ onHand = [i \in Items |-> 0]

(* A document is written, edited, deleted or voided: the shelf changes by  *)
(* the difference and by nothing else.                                     *)
Restate(d) ==
  /\ lines' = [lines EXCEPT ![d] = lines'[d]]
  /\ onHand' = [i \in Items |-> onHand[i] - Moved(lines[d], i) + Moved(lines'[d], i)]

Shift(i) ==
  /\ onHand' = [onHand EXCEPT ![i] = onHand'[i]]
  /\ UNCHANGED lines

(* The lines of a rental come back together.                               *)
TakeBack ==
  /\ \A i \in Items : onHand'[i] >= onHand[i]
  /\ UNCHANGED lines

Next == (\E d \in Docs : Restate(d)) \/ (\E i \in Items : Shift(i)) \/ TakeBack

Spec == Init /\ [][Next]_vars
=============================================================================
