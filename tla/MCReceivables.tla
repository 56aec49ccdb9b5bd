--------------------------- MODULE MCReceivables ---------------------------
(* Instances of Receivables small enough for TLC.                          *)
EXTENDS Receivables, TLC

(* All pairs of operations but those that spoil what is owed: an invoice   *)
(* sent while another request sends, edits or deletes it, and a payment    *)
(* taken back twice or while its obligation is archived.  A void overlaps  *)
(* with everything.                                                        *)
NoneSpoils ==
  {{j, k} : j, k \in Operations}
    \ {{"send"}, {"send", "update"}, {"send", "delete"}, {"unpay"}, {"unpay", "archive"}}

Symmetry == Permutations(Requests) \union Permutations(Payments)
              \union Permutations(Obligations) \union Permutations(Invoices)
=============================================================================
