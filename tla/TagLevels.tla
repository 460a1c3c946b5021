----------------------------- MODULE TagLevels -----------------------------
(***************************************************************************)
(* What EasyLogger's per-tag filter promises: a map from tags to levels,   *)
(* of bounded size, in which a tag is set, changed or removed and no other *)
(* tag is touched, and which only initialising empties.                    *)
(***************************************************************************)
EXTENDS Naturals, FiniteSets

CONSTANTS
    Keys,        \* what tags are told apart by
    LevelRange,  \* the levels
    AllLevel,    \* the level that removes a tag's filter
    Capacity     \* most tags that have a level of their own

VARIABLES
    open,        \* initialised
    level        \* the levels set; a tag outside its domain is not filtered

levelsVars == <<open, level>>

Empty == [k \in {} |-> AllLevel]

LevelsInit == open = FALSE /\ level = Empty

Open == ~open /\ open' = TRUE /\ level' = Empty
Close == open /\ open' = FALSE /\ UNCHANGED level

\* Removes the filter of k.
Remove(k) ==
    /\ open /\ UNCHANGED open
    /\ level' = [j \in DOMAIN level \ {k} |-> level[j]]

\* Sets the filter of k, if it has one already or there is room.
Put(k, l) ==
    /\ open /\ UNCHANGED open
    /\ k \in DOMAIN level \/ Cardinality(DOMAIN level) < Capacity
    /\ level' = [j \in DOMAIN level \cup {k} |-> IF j = k THEN l ELSE level[j]]

LevelsNext ==
    \/ Open \/ Close
    \/ \E k \in Keys : Remove(k) \/ \E l \in LevelRange \ {AllLevel} : Put(k, l)

LevelsSpec == LevelsInit /\ [][LevelsNext]_levelsVars
=============================================================================
