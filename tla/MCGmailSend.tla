----------------------------- MODULE MCGmailSend -----------------------------
\* GmailSend with the symmetry of its identities: keys, contents, envelopes and
\* requests are only ever compared for equality.
EXTENDS GmailSend, TLC

MCSymmetry == Permutations(Keys) \cup Permutations(Bodies)
                \cup Permutations(Senders) \cup Permutations(Clerks)
                \cup Permutations(Envelopes)

=============================================================================
