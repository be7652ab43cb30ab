---------------------------- MODULE InvoiceLedger ----------------------------
(***************************************************************************)
(* What invoicing promises about the money of one invoice, whatever the    *)
(* requests, sessions and webhooks behind it do (docs/invoicing.md,        *)
(* "Partial payments"; src/services/invoice-settlement.js): a draft is     *)
(* edited and issued; an open invoice takes payments of at most what is    *)
(* owed and is paid by the one that covers the total; an invoice without   *)
(* payments may be voided and a void taken back.                           *)
(***************************************************************************)
EXTENDS Naturals

CONSTANT Totals   \* the totals a draft may be given

VARIABLES phase, total, paid
vars == <<phase, total, paid>>

Init ==
  /\ phase \in {"draft", "open"}
  /\ total \in Totals
  /\ paid = 0

Edit ==
  /\ phase = "draft"
  /\ total' \in Totals
  /\ UNCHANGED <<phase, paid>>

Issue ==
  /\ phase = "draft"
  /\ phase' = "open"
  /\ UNCHANGED <<total, paid>>

\* A payment of 0 only closes an invoice that owes nothing.
Pay(amount) ==
  /\ phase = "open"
  /\ paid + amount <= total
  /\ amount = 0 => paid = total
  /\ paid' = paid + amount
  /\ phase' = IF paid' = total THEN "paid" ELSE "open"
  /\ UNCHANGED total

Void ==
  /\ phase \in {"draft", "open"}
  /\ paid = 0
  /\ phase' = "void"
  /\ UNCHANGED <<total, paid>>

Restore ==
  /\ phase = "void"
  /\ phase' \in {"draft", "open"}
  /\ UNCHANGED <<total, paid>>

Next ==
  \/ Edit \/ Issue \/ Void \/ Restore
  \/ \E amount \in 0..total : Pay(amount)

Spec == Init /\ [][Next]_vars

=============================================================================
