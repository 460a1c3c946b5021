---------------------------- MODULE ElogFilterMC ----------------------------
(***************************************************************************)
(* Tags and settings for the filters' run: two short tags, two that agree  *)
(* in all the characters the table keeps, and a text that the keyword      *)
(* filter selects or not.                                                  *)
(***************************************************************************)
EXTENDS ElogFilter, TLC

CONSTANTS core, net, longA, longB, hello

MCTags == {core, net, longA, longB}
MCTrunc == [t \in MCTags |-> IF t = longB THEN longA ELSE t]
MCTexts == {hello}
MCKeywords == {MCTexts, {}}
MCTagFilters == {MCTags, {longB}}

\* No filter above tells the two short tags apart.
ShortTags == Permutations({core, net})
=============================================================================
