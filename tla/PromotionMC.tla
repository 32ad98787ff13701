----------------------------- MODULE PromotionMC -----------------------------
\* Constants of Promotion for TLC: the patch of r1 changes two files, that of
\* r2 a third one, so that each makes the other reconcile.
EXTENDS Promotion, TLC

CONSTANTS r1, r2, f1, f2, f3

MCRun == {r1, r2}
MCFile == {f1, f2, f3}
MCTouched == (r1 :> {f1, f2}) @@ (r2 :> {f3})
MCMaxAttempts == (r1 :> 2) @@ (r2 :> 1)

=============================================================================
