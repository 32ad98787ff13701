------------------------------ MODULE WebRelayMC ------------------------------
(***************************************************************************)
(* Instances of WebRelay: two messages of one conversation, two tabs.      *)
(***************************************************************************)
EXTENDS WebRelay, TLC

CONSTANTS a, b, tab1, tab2

MCJob == {a, b}
MCOneJob == {a}
MCTab == {tab1, tab2}
MCChat == [j \in Job |-> "conversation"]
MCNone == {}
MCSymmetry == Permutations(MCJob) \union Permutations(MCTab)
=============================================================================
