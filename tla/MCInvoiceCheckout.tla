-------------------------- MODULE MCInvoiceCheckout --------------------------
\* InvoiceCheckout with the symmetry of the pay requests, which are only ever
\* compared for equality.
EXTENDS InvoiceCheckout, TLC

MCSymmetry == Permutations(Payers)

=============================================================================
