--------------------------- MODULE DurableJournalMC ---------------------------
\* Constants of DurableJournal for TLC.
EXTENDS DurableJournal

CONSTANTS e1, e2, e3, p1, p2

MCCall == {e1, e2, e3}
MCProc == {p1, p2}
MCWants == (e1 :> "PAUSED") @@ (e2 :> "SUCCEEDED") @@ (e3 :> Checkpoint)
MCGuarded == {e2}

=============================================================================
