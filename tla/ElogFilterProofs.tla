-------------------------- MODULE ElogFilterProofs --------------------------
(***************************************************************************)
(* Proofs about the table of tag levels, for any tags, any truncation, any *)
(* levels and any number of entries, and about the decision of elog_output *)
(* for any texts and settings, and any changes of them during a call.      *)
(***************************************************************************)
EXTENDS ElogFilter, FiniteSetTheorems, WellFoundedInduction, NaturalsInduction, TLAPS

(***************************************************************************)
(* The table: the invariant that ties it to the levels that were asked     *)
(* for, and the refinement of TagLevels.                                   *)
(***************************************************************************)

\* The entries in use, and the tags that were given a level.
UsedIndex == {i \in Index : tag_lvl[i].used}
Given == {k \in Keys : asked[k] # ELOG_FILTER_LVL_ALL}

\* An entry in use holds a truncated tag and the level asked for it, and
\* every tag that was given a level has an entry.
TableAgrees ==
    /\ \A i \in UsedIndex :
          /\ tag_lvl[i].tag \in Given
          /\ tag_lvl[i].level = asked[tag_lvl[i].tag]
    /\ \A k \in Given : \E i \in UsedIndex : tag_lvl[i].tag = k

TableIInv == TableTypeOK /\ NoDuplicateTag /\ TableAgrees

-----------------------------------------------------------------------------

\* A loop that stops at the first match stops at one.
LEMMA FirstIsIn ==
  ASSUME NEW S \in SUBSET Index, S # {}
  PROVE  First(S) \in S
<1>1. S \subseteq Nat
  BY TableAssumption DEF Index
<1>2. \E i \in S : \A j \in S : ~ (<<j, i>> \in OpToRel(<, Nat))
  BY <1>1, NatLessThanWellFounded, WFMin
<1>3. \E i \in S : \A j \in S : ~ (j < i)
  BY <1>1, <1>2 DEF OpToRel
<1>4. \E i \in S : \A j \in S : i <= j
  BY <1>1, <1>3
<1> QED
  BY <1>4 DEF First

\* A tag has at most one entry, so that the search finds it.
LEMMA FoundEntry ==
  ASSUME TableIInv, NEW tag \in Tags, Found(tag) # {}
  PROVE  /\ First(Found(tag)) \in UsedIndex
         /\ tag_lvl[First(Found(tag))].tag = Trunc[tag]
         /\ Trunc[tag] \in Given
         /\ \A i \in UsedIndex : tag_lvl[i].tag = Trunc[tag] => i = First(Found(tag))
<1>1. First(Found(tag)) \in Found(tag)
  BY FirstIsIn DEF Found
<1>2. First(Found(tag)) \in UsedIndex /\ tag_lvl[First(Found(tag))].tag = Trunc[tag]
  BY <1>1 DEF Found, UsedIndex
<1>3. Trunc[tag] \in Given
  BY <1>2 DEF TableIInv, TableAgrees
<1>4. \A i \in UsedIndex : tag_lvl[i].tag = Trunc[tag] => i = First(Found(tag))
  BY <1>2 DEF TableIInv, NoDuplicateTag, UsedIndex
<1> QED
  BY <1>2, <1>3, <1>4

\* A tag is found exactly if it was given a level.
LEMMA FoundIfGiven ==
  ASSUME TableIInv, NEW tag \in Tags
  PROVE  Found(tag) # {} <=> Trunc[tag] \in Given
<1>1. ASSUME Trunc[tag] \in Given
      PROVE  Found(tag) # {}
  BY <1>1 DEF TableIInv, TableAgrees, Found, UsedIndex
<1> QED
  BY <1>1, FoundEntry

\* There are as many tags with a level as entries in use: the table is full
\* exactly when Slots tags were given a level.
LEMMA GivenCount ==
  ASSUME TableIInv
  PROVE  /\ IsFiniteSet(Given)
         /\ Cardinality(Given) \in Nat
         /\ Cardinality(Given) <= Slots
         /\ Cardinality(Given) = Slots <=> Unused = {}
<1> DEFINE f == [i \in UsedIndex |-> tag_lvl[i].tag]
<1>1. IsFiniteSet(Index) /\ Cardinality(Index) = Slots
  BY TableAssumption, FS_Interval DEF Index
<1>2. /\ IsFiniteSet(UsedIndex)
      /\ Cardinality(UsedIndex) <= Slots
      /\ Cardinality(UsedIndex) = Slots => UsedIndex = Index
  BY <1>1, FS_Subset DEF UsedIndex
<1>3. f \in Bijection(UsedIndex, Given)
  <2>1. f \in [UsedIndex -> Given]
    BY DEF TableIInv, TableAgrees
  <2>2. \A i, j \in UsedIndex : f[i] = f[j] => i = j
    BY DEF TableIInv, NoDuplicateTag, UsedIndex
  <2>3. \A k \in Given : \E i \in UsedIndex : f[i] = k
    BY DEF TableIInv, TableAgrees
  <2> QED
    BY <2>1, <2>2, <2>3 DEF Bijection, Injection, Surjection, IsInjective
<1>4. IsFiniteSet(Given) /\ Cardinality(Given) = Cardinality(UsedIndex)
  BY <1>2, <1>3, FS_Bijection DEF ExistsBijection
<1>5. Unused = {} <=> UsedIndex = Index
  BY DEF Unused, UsedIndex
<1> QED
  BY <1>1, <1>2, <1>4, <1>5, FS_CardinalityType

\* A level is dropped exactly when the tag has no entry and none is free.
LEMMA DroppedIfFull ==
  ASSUME TableIInv, NEW tag \in Tags, NEW level \in Levels, level # ELOG_FILTER_LVL_ALL
  PROVE  Dropped(tag, level) <=> Found(tag) = {} /\ Unused = {}
<1>1. Trunc[tag] \in Keys
  BY DEF Keys
<1>2. Cardinality({k \in Keys : asked[k] # ELOG_FILTER_LVL_ALL}) = Slots <=> Unused = {}
  BY GivenCount DEF Given
<1> QED
  BY <1>1, <1>2, FoundIfGiven DEF Dropped, Given

-----------------------------------------------------------------------------
\* The invariant, case by case of elog_set_filter_tag_lvl.

LEMMA RemoveKeeps ==
  ASSUME TableIInv, NEW tag \in Tags, RemoveTagLvl(tag), UNCHANGED init_ok,
         asked' = [asked EXCEPT ![Trunc[tag]] = ELOG_FILTER_LVL_ALL]
  PROVE  TableIInv'
<1> DEFINE e == First(Found(tag))
<1>1. /\ e \in UsedIndex /\ tag_lvl[e].tag = Trunc[tag]
      /\ \A i \in UsedIndex : tag_lvl[i].tag = Trunc[tag] => i = e
  BY FoundEntry DEF RemoveTagLvl
<1>2. tag_lvl' = [tag_lvl EXCEPT ![e] = Free]
  BY DEF RemoveTagLvl
<1> HIDE DEF e
<1>3. /\ tag_lvl \in [Index -> [used : BOOLEAN, tag : Tags \cup {NoTag}, level : AllLevels]]
      /\ asked \in [Keys -> AllLevels] /\ Trunc[tag] \in Keys /\ e \in Index
      /\ Free \in [used : BOOLEAN, tag : Tags \cup {NoTag}, level : AllLevels]
  BY <1>1 DEF TableIInv, TableTypeOK, Keys, UsedIndex, Free, AllLevels, ELOG_FILTER_LVL_SILENT
<1>4. UsedIndex' = UsedIndex \ {e} /\ \A i \in UsedIndex' : tag_lvl'[i] = tag_lvl[i]
  BY <1>2, <1>3 DEF UsedIndex, Free
<1>5. Given' = Given \ {Trunc[tag]} /\ \A k \in Given' : asked'[k] = asked[k]
  BY <1>3 DEF Given
<1>6. TableTypeOK'
  BY <1>2, <1>3 DEF TableIInv, TableTypeOK, AllLevels, ELOG_FILTER_LVL_ALL
<1>7. NoDuplicateTag'
  BY <1>4 DEF TableIInv, NoDuplicateTag, UsedIndex
<1>8. TableAgrees'
  BY <1>1, <1>4, <1>5 DEF TableIInv, TableAgrees
<1> QED
  BY <1>6, <1>7, <1>8 DEF TableIInv

LEMMA ChangeKeeps ==
  ASSUME TableIInv, NEW tag \in Tags, NEW level \in Levels, level # ELOG_FILTER_LVL_ALL,
         ChangeTagLvl(tag, level), UNCHANGED init_ok,
         asked' = [asked EXCEPT ![Trunc[tag]] = level]
  PROVE  TableIInv'
<1> DEFINE e == First(Found(tag))
<1>1. /\ e \in UsedIndex /\ tag_lvl[e].tag = Trunc[tag] /\ Trunc[tag] \in Given
      /\ \A i \in UsedIndex : tag_lvl[i].tag = Trunc[tag] => i = e
  BY FoundEntry DEF ChangeTagLvl
<1>2. tag_lvl' = [tag_lvl EXCEPT ![e].level = level]
  BY DEF ChangeTagLvl
<1> HIDE DEF e
<1>3. /\ tag_lvl \in [Index -> [used : BOOLEAN, tag : Tags \cup {NoTag}, level : AllLevels]]
      /\ asked \in [Keys -> AllLevels] /\ Trunc[tag] \in Keys /\ e \in Index
      /\ level \in AllLevels /\ tag_lvl[e].used
  BY <1>1, TableAssumption DEF TableIInv, TableTypeOK, Keys, UsedIndex
<1>4. /\ \A i \in Index : tag_lvl'[i].used = tag_lvl[i].used /\ tag_lvl'[i].tag = tag_lvl[i].tag
      /\ \A i \in Index : tag_lvl'[i].level = IF i = e THEN level ELSE tag_lvl[i].level
  BY <1>2, <1>3
<1>5. UsedIndex' = UsedIndex
  BY <1>4 DEF UsedIndex
<1>6. Given' = Given /\ \A k \in Given : asked'[k] = IF k = Trunc[tag] THEN level ELSE asked[k]
  BY <1>1, <1>3 DEF Given
<1>7. TableTypeOK'
  <2>1. tag_lvl' \in [Index -> [used : BOOLEAN, tag : Tags \cup {NoTag}, level : AllLevels]]
    BY <1>2, <1>3
  <2>2. asked' \in [Keys -> AllLevels]
    BY <1>3
  <2>3. \A i \in Index : ~tag_lvl'[i].used => tag_lvl'[i] = Free
    BY <1>2, <1>3 DEF TableIInv, TableTypeOK
  <2> QED
    BY <2>1, <2>2, <2>3 DEF TableIInv, TableTypeOK
<1>8. NoDuplicateTag'
  BY <1>4 DEF TableIInv, NoDuplicateTag
<1>9. TableAgrees'
  BY <1>1, <1>4, <1>5, <1>6 DEF TableIInv, TableAgrees, UsedIndex
<1> QED
  BY <1>7, <1>8, <1>9 DEF TableIInv

LEMMA AddKeeps ==
  ASSUME TableIInv, NEW tag \in Tags, NEW level \in Levels, level # ELOG_FILTER_LVL_ALL,
         AddTagLvl(tag, level), UNCHANGED init_ok,
         asked' = [asked EXCEPT ![Trunc[tag]] = level]
  PROVE  TableIInv'
<1> DEFINE e == First(Unused)
           entry == [used |-> TRUE, tag |-> Trunc[tag], level |-> level]
<1>1. e \in Unused
  BY FirstIsIn DEF AddTagLvl, Unused
<1>2. tag_lvl' = [tag_lvl EXCEPT ![e] = entry]
  BY DEF AddTagLvl
<1>3. Trunc[tag] \notin Given
  BY FoundIfGiven DEF AddTagLvl
<1> HIDE DEF e
<1>4. /\ tag_lvl \in [Index -> [used : BOOLEAN, tag : Tags \cup {NoTag}, level : AllLevels]]
      /\ asked \in [Keys -> AllLevels] /\ Trunc[tag] \in Keys /\ e \in Index \ UsedIndex
      /\ level \in AllLevels /\ Trunc[tag] \in Tags
  BY <1>1, TableAssumption DEF TableIInv, TableTypeOK, Keys, UsedIndex, Unused
<1>5. /\ UsedIndex' = UsedIndex \cup {e}
      /\ tag_lvl'[e] = entry
      /\ \A i \in UsedIndex : tag_lvl'[i] = tag_lvl[i]
  BY <1>2, <1>4 DEF UsedIndex
<1>6. /\ Given' = Given \cup {Trunc[tag]}
      /\ asked'[Trunc[tag]] = level
      /\ \A k \in Given : asked'[k] = asked[k]
  BY <1>3, <1>4 DEF Given
<1>7. TableTypeOK'
  BY <1>2, <1>4 DEF TableIInv, TableTypeOK
<1>8. \A i \in UsedIndex : tag_lvl[i].tag # Trunc[tag]
  BY <1>3 DEF TableIInv, TableAgrees
<1>9. NoDuplicateTag'
  BY <1>5, <1>8 DEF TableIInv, NoDuplicateTag, UsedIndex
<1>10. TableAgrees'
  BY <1>4, <1>5, <1>6 DEF TableIInv, TableAgrees
<1> QED
  BY <1>7, <1>9, <1>10 DEF TableIInv

\* Every call of elog_set_filter_tag_lvl keeps the invariant; what it makes of
\* the levels asked for is independent of the table.
LEMMA SetKeeps ==
  ASSUME TableIInv, NEW tag \in Tags, NEW level \in Levels, SetTagLvl(tag, level)
  PROVE  /\ TableIInv'
         /\ \/ asked' = asked
            \/ /\ asked' = [asked EXCEPT ![Trunc[tag]] = level]
               /\ \/ level = ELOG_FILTER_LVL_ALL
                  \/ Trunc[tag] \in Given \/ Cardinality(Given) < Slots
<1>1. /\ asked \in [Keys -> AllLevels] /\ Trunc[tag] \in Keys
      /\ Dropped(tag, level) => asked' = asked
      /\ ~Dropped(tag, level) => asked' = [asked EXCEPT ![Trunc[tag]] = level]
      /\ UNCHANGED init_ok
  BY DEF SetTagLvl, TableIInv, TableTypeOK, Keys
<1>2. CASE level = ELOG_FILTER_LVL_ALL /\ RemoveTagLvl(tag)
  BY <1>1, <1>2, RemoveKeeps DEF Dropped
<1>3. CASE level = ELOG_FILTER_LVL_ALL /\ NothingToRemove(tag)
  <2>1. asked[Trunc[tag]] = ELOG_FILTER_LVL_ALL
    BY <1>1, <1>3, FoundIfGiven DEF NothingToRemove, Given
  <2>2. asked' = asked
    BY <1>1, <1>3, <2>1 DEF Dropped
  <2> QED
    BY <1>1, <1>3, <2>2
       DEF NothingToRemove, TableIInv, TableTypeOK, NoDuplicateTag, TableAgrees, UsedIndex, Given
<1>4. CASE level # ELOG_FILTER_LVL_ALL /\ ChangeTagLvl(tag, level)
  <2>1. Found(tag) # {}
    BY <1>4 DEF ChangeTagLvl
  <2>2. ~Dropped(tag, level)
    BY <1>4, <2>1, DroppedIfFull
  <2> QED
    BY <1>1, <1>4, <2>1, <2>2, ChangeKeeps, FoundIfGiven
<1>5. CASE level # ELOG_FILTER_LVL_ALL /\ AddTagLvl(tag, level)
  <2>1. Unused # {} /\ ~Dropped(tag, level)
    BY <1>5, DroppedIfFull DEF AddTagLvl
  <2>2. Cardinality(Given) < Slots
    BY <2>1, GivenCount, TableAssumption
  <2> QED
    BY <1>1, <1>5, <2>1, <2>2, AddKeeps
<1>6. CASE level # ELOG_FILTER_LVL_ALL /\ TableFull(tag)
  <2>1. asked' = asked
    BY <1>1, <1>6, DroppedIfFull DEF TableFull
  <2> QED
    BY <1>1, <1>6, <2>1
       DEF TableFull, TableIInv, TableTypeOK, NoDuplicateTag, TableAgrees, UsedIndex, Given
<1> QED
  BY <1>2, <1>3, <1>4, <1>5, <1>6 DEF SetTagLvl

\* An empty table agrees with nothing having been asked for.
LEMMA EmptyTable ==
  ASSUME tag_lvl = DefaultTable, asked = [k \in Keys |-> ELOG_FILTER_LVL_ALL],
         init_ok \in BOOLEAN
  PROVE  TableIInv /\ Given = {}
BY DEF TableIInv, TableTypeOK, NoDuplicateTag, TableAgrees, UsedIndex, Given, DefaultTable,
       Free, AllLevels, ELOG_FILTER_LVL_ALL, ELOG_FILTER_LVL_SILENT

\* elog_init empties the table.
LEMMA OpenKeeps == ASSUME OpenTable PROVE TableIInv' /\ Given' = {}
BY DEF OpenTable, TableIInv, TableTypeOK, NoDuplicateTag, TableAgrees, UsedIndex, Given,
       DefaultTable, Free, AllLevels, ELOG_FILTER_LVL_ALL, ELOG_FILTER_LVL_SILENT

LEMMA TableStep == TableIInv /\ [TableNext]_tableVars => TableIInv'
<1> SUFFICES ASSUME TableIInv, [TableNext]_tableVars
             PROVE  TableIInv'
  OBVIOUS
<1>1. CASE CloseTable \/ UNCHANGED tableVars
  BY <1>1 DEF CloseTable, tableVars, TableIInv, TableTypeOK, NoDuplicateTag, TableAgrees,
              UsedIndex, Given
<1>2. CASE OpenTable
  BY <1>2, OpenKeeps
<1>3. CASE \E tag \in Tags, level \in Levels : SetTagLvl(tag, level)
  BY <1>3, SetKeeps
<1> QED
  BY <1>1, <1>2, <1>3 DEF TableNext

\* The table agrees with what was asked for, throughout (elog.c:433-476).
THEOREM TableInvariance == TableSpec => []TableIInv
<1>1. TableInit => TableIInv
  BY EmptyTable DEF TableInit
<1> QED
  BY <1>1, TableStep, PTL DEF TableSpec

\* A freed entry is empty, and an entry in use holds a truncated tag.
THEOREM TableTypeCorrect == TableSpec => []TableTypeOK
BY TableInvariance, PTL DEF TableIInv

\* A tag never has two entries (elog.c:444-472).
THEOREM TagsAreUnique == TableSpec => []NoDuplicateTag
BY TableInvariance, PTL DEF TableIInv

LEMMA GetIsAsked == TableIInv => LevelInEffect
<1> SUFFICES ASSUME TableIInv, init_ok, NEW tag \in Tags
             PROVE  GetTagLvl(tag) = asked[Trunc[tag]]
  BY DEF LevelInEffect
<1>1. CASE Found(tag) # {}
  BY <1>1, FoundEntry DEF GetTagLvl, TableIInv, TableAgrees
<1>2. CASE Found(tag) = {}
  BY <1>2, FoundIfGiven DEF GetTagLvl, Given, Keys
<1> QED
  BY <1>1, <1>2

\* elog_get_filter_tag_lvl returns the level last set for the tag, for any
\* tags, any truncation and any size of the table (elog.c:486-508).
THEOREM LevelIsInEffect == TableSpec => []LevelInEffect
BY TableInvariance, GetIsAsked, PTL

-----------------------------------------------------------------------------
\* The refinement of TagLevels.

\* The map that the table stands for, by the levels asked for.
GivenMap == [k \in Given |-> asked[k]]

LEMMA LevelMapIsGiven ==
  /\ TableIInv => LevelMap = GivenMap
  /\ TableIInv' => LevelMap' = GivenMap'
<1>1. ASSUME TableIInv
      PROVE  LevelMap = GivenMap
  <2>1. UsedTags = Given
    BY <1>1 DEF TableIInv, TableAgrees, UsedTags, UsedIndex
  <2>2. \A k \in Given : EntryOf(k) \in UsedIndex /\ tag_lvl[EntryOf(k)].tag = k
    BY <1>1 DEF TableIInv, TableAgrees, EntryOf, UsedIndex
  <2>3. \A k \in Given : tag_lvl[EntryOf(k)].level = asked[k]
    BY <1>1, <2>2 DEF TableIInv, TableAgrees
  <2> QED
    BY <2>1, <2>3 DEF LevelMap, GivenMap
<1>2. ASSUME TableIInv'
      PROVE  LevelMap' = GivenMap'
  <2>1. UsedTags' = Given'
    BY <1>2 DEF TableIInv, TableAgrees, UsedTags, UsedIndex
  <2>2. \A k \in Given' : /\ EntryOf(k)' \in UsedIndex'
                          /\ tag_lvl'[EntryOf(k)'].tag = k
    BY <1>2 DEF TableIInv, TableAgrees, EntryOf, UsedIndex
  <2>3. \A k \in Given' : tag_lvl'[EntryOf(k)'].level = asked'[k]
    BY <1>2, <2>2 DEF TableIInv, TableAgrees
  <2> QED
    BY <2>1, <2>3 DEF LevelMap, GivenMap
<1> QED
  BY <1>1, <1>2

\* A call for one tag puts it into the map, takes it out, or changes nothing.
LEMMA SetRefines ==
  ASSUME TableIInv, NEW tag \in Tags, NEW level \in Levels, SetTagLvl(tag, level)
  PROVE  [Abstract!LevelsNext]_<<init_ok, LevelMap>>
<1> DEFINE k == Trunc[tag]
<1>1. LevelMap = GivenMap /\ LevelMap' = GivenMap'
  BY SetKeeps, LevelMapIsGiven
<1>2. /\ asked \in [Keys -> AllLevels] /\ k \in Keys /\ level \in AllLevels
      /\ init_ok /\ UNCHANGED init_ok
  BY TableAssumption DEF SetTagLvl, TableIInv, TableTypeOK, Keys
<1>3. DOMAIN GivenMap = Given /\ \A j \in Given : GivenMap[j] = asked[j]
  BY DEF GivenMap
<1>4. CASE asked' = asked
  BY <1>1, <1>2, <1>4 DEF GivenMap, Given
<1>5. CASE asked' = [asked EXCEPT ![k] = level] /\ level = ELOG_FILTER_LVL_ALL
  <2>1. Given' = Given \ {k} /\ \A j \in Given' : asked'[j] = asked[j]
    BY <1>2, <1>5 DEF Given
  <2>2. GivenMap' = [j \in Given \ {k} |-> asked[j]]
    BY <2>1 DEF GivenMap
  <2>3. GivenMap' = [j \in DOMAIN GivenMap \ {k} |-> GivenMap[j]]
    BY <1>3, <2>2
  <2> QED
    BY <1>1, <1>2, <2>3 DEF Abstract!LevelsNext, Abstract!Remove
<1>6. CASE /\ asked' = [asked EXCEPT ![k] = level] /\ level # ELOG_FILTER_LVL_ALL
           /\ k \in Given \/ Cardinality(Given) < Slots
  <2>1. /\ Given' = Given \cup {k}
        /\ \A j \in Given' : asked'[j] = IF j = k THEN level ELSE asked[j]
    BY <1>2, <1>6 DEF Given
  <2>2. GivenMap' = [j \in Given \cup {k} |-> IF j = k THEN level ELSE asked[j]]
    BY <2>1 DEF GivenMap
  <2>3. GivenMap' = [j \in DOMAIN GivenMap \cup {k} |-> IF j = k THEN level ELSE GivenMap[j]]
    BY <1>3, <2>2
  <2>4. k \in DOMAIN LevelMap \/ Cardinality(DOMAIN LevelMap) < Slots
    BY <1>1, <1>3, <1>6
  <2>5. LevelMap' = [j \in DOMAIN LevelMap \cup {k} |-> IF j = k THEN level ELSE LevelMap[j]]
    BY <1>1, <2>3
  <2>6. Abstract!Cardinality(DOMAIN LevelMap) = Cardinality(DOMAIN LevelMap)
    BY DEF Abstract!Cardinality, Cardinality
  <2>7. Abstract!Put(k, level)
    BY <1>2, <2>4, <2>5, <2>6 DEF Abstract!Put
  <2> QED
    BY <1>2, <1>6, <2>7 DEF Abstract!LevelsNext
<1> QED
  BY <1>4, <1>5, <1>6, SetKeeps

LEMMA LevelsStep ==
  TableIInv /\ [TableNext]_tableVars => [Abstract!LevelsNext]_<<init_ok, LevelMap>>
<1> SUFFICES ASSUME TableIInv, [TableNext]_tableVars
             PROVE  [Abstract!LevelsNext]_<<init_ok, LevelMap>>
  OBVIOUS
<1>1. LevelMap = GivenMap /\ LevelMap' = GivenMap'
  BY TableStep, LevelMapIsGiven
<1>2. CASE UNCHANGED tableVars
  BY <1>1, <1>2 DEF tableVars, GivenMap, Given
<1>3. CASE CloseTable
  BY <1>1, <1>3 DEF CloseTable, GivenMap, Given, Abstract!LevelsNext, Abstract!Close
<1>4. CASE OpenTable
  <2>1. Given' = {}
    BY <1>4, OpenKeeps
  <2>2. LevelMap' = Abstract!Empty
    BY <1>1, <2>1 DEF GivenMap, Abstract!Empty
  <2> QED
    BY <1>4, <2>2 DEF OpenTable, Abstract!LevelsNext, Abstract!Open
<1>5. CASE \E tag \in Tags, level \in Levels : SetTagLvl(tag, level)
  BY <1>5, SetRefines
<1> QED
  BY <1>2, <1>3, <1>4, <1>5 DEF TableNext

\* The table of entries, with the reuse of freed ones, implements a bounded
\* map of levels, whatever its size (elog.c:433-476).
THEOREM TableImplementsLevels == TableSpec => ImplementsLevels
<1>1. TableInit => Abstract!LevelsInit
  <2> SUFFICES ASSUME TableInit
               PROVE  Abstract!LevelsInit
    OBVIOUS
  <2>1. TableIInv /\ Given = {}
    BY EmptyTable DEF TableInit
  <2>2. LevelMap = Abstract!Empty
    BY <2>1, LevelMapIsGiven DEF GivenMap, Abstract!Empty
  <2> QED
    BY <2>2 DEF TableInit, Abstract!LevelsInit
<1> QED
  BY <1>1, LevelsStep, TableInvariance, PTL
     DEF TableSpec, ImplementsLevels, Abstract!LevelsSpec, Abstract!levelsVars

-----------------------------------------------------------------------------
(* The decision. *)

\* The filters that a call at point p has been through.
TestedAt(p) ==
    CASE p = "level" -> {} [] p = "tag_lvl" -> {"level"}
      [] p = "tag" -> {"level", "tag_lvl"} [] p = "kw" -> {"level", "tag_lvl", "tag"}
      [] OTHER -> {}

\* What never wavered is what it is now, and is not being written.
HistoryOK ==
    /\ passing \in SUBSET (Passing(msg) \ Unsettled)
    /\ rejecting \in SUBSET (Filters \ (Passing(msg) \cup Unsettled))

\* A call gets past a filter only when it passed, and then the filter did not
\* reject all the while; the verdicts follow.
FilterIInv ==
    /\ FilterTypeOK
    /\ HistoryOK
    /\ TestedAt(pc) \cap rejecting = {}
    /\ pc # "idle" => verdict = "none"
    /\ AcceptedJustified
    /\ RejectedJustified

-----------------------------------------------------------------------------

\* Calls leave the table alone, and settings go through its functions.
LEMMA StepOfTable == [Next]_allVars => [TableNext]_tableVars
BY DEF Next, Settings, ElogInit, ElogDeinit, SetTagLevel, SetLevel, SetTag, SetKeyword,
       BeginSet, EndSet, LogCall, TestFilter, allVars, filterVars, TableNext, tableVars

\* The table under the filters is the table of ElogTagTable.
LEMMA FilterSpecTable == Spec => []TableIInv
<1>1. Spec => TableSpec
  <2>1. Init => TableInit
    BY DEF Init
  <2> QED
    BY <2>1, StepOfTable, PTL DEF Spec, TableSpec
<1> QED
  BY <1>1, TableInvariance, PTL

LEMMA FilterStart == Init => FilterIInv
<1> SUFFICES ASSUME Init
             PROVE  FilterIInv
  OBVIOUS
<1>1. TableTypeOK
  BY EmptyTable DEF Init, TableInit, TableIInv
<1>2. ELOG_FILTER_LVL_SILENT \in AllLevels
  BY DEF ELOG_FILTER_LVL_SILENT, AllLevels
<1>3. FilterTypeOK
  BY <1>1, <1>2, FilterAssumption DEF Init, FilterTypeOK, Msgs
<1> QED
  BY <1>3 DEF Init, FilterIInv, HistoryOK, TestedAt, AcceptedJustified, RejectedJustified

\* A change of the settings: the histories only shrink.
LEMMA SettingsKeep ==
  ASSUME FilterIInv, TableTypeOK', Settings
  PROVE  FilterIInv'
<1>1. /\ UNCHANGED <<pc, msg, verdict>>
      /\ passing' = (passing \cap Passing(msg)') \ Unsettled'
      /\ rejecting' = rejecting \ (Passing(msg)' \cup Unsettled')
  BY DEF Settings
<1>2. filter_level' \in AllLevels /\ filter_tag' \in SUBSET Tags /\ filter_kw' \in SUBSET Texts
  <2>1. /\ filter_level' \in Levels \cup {filter_level, ELOG_FILTER_LVL_ALL}
        /\ filter_tag' \in TagFilters \cup {filter_tag}
        /\ filter_kw' \in Keywords \cup {filter_kw}
    BY DEF Settings, ElogInit, ElogDeinit, SetTagLevel, SetLevel, SetTag, SetKeyword,
           BeginSet, EndSet
  <2>2. ELOG_FILTER_LVL_ALL \in AllLevels
    BY DEF ELOG_FILTER_LVL_ALL, AllLevels
  <2> QED
    BY <2>1, <2>2, TableAssumption, FilterAssumption DEF FilterIInv, FilterTypeOK
<1>7. setting' \in [Strings -> 0 .. Setters]
  <2>1. setting \in [Strings -> 0 .. Setters] /\ Setters \in Nat
    BY FilterAssumption DEF FilterIInv, FilterTypeOK
  <2>2. ASSUME NEW f \in Strings, BeginSet(f) PROVE setting' \in [Strings -> 0 .. Setters]
    BY <2>1, <2>2 DEF BeginSet
  <2>3. ASSUME NEW f \in Strings, EndSet(f) PROVE setting' \in [Strings -> 0 .. Setters]
    BY <2>1, <2>3 DEF EndSet
  <2>4. ASSUME UNCHANGED setting PROVE setting' \in [Strings -> 0 .. Setters]
    BY <2>1, <2>4
  <2> QED
    BY <2>2, <2>3, <2>4
       DEF Settings, ElogInit, ElogDeinit, SetTagLevel, SetLevel, SetTag, SetKeyword
<1>3. FilterTypeOK'
  BY <1>1, <1>2, <1>7 DEF FilterIInv, FilterTypeOK, Msgs
<1>4. HistoryOK'
  BY <1>1 DEF FilterIInv, FilterTypeOK, HistoryOK
<1>5. TestedAt(pc)' = TestedAt(pc)
  BY <1>1 DEF TestedAt
<1>6. AcceptedJustified' /\ RejectedJustified'
  BY <1>1 DEF FilterIInv, FilterTypeOK, AcceptedJustified, RejectedJustified
<1> QED
  BY <1>1, <1>3, <1>4, <1>5, <1>6 DEF FilterIInv

\* A call begins with what the filters say now.
LEMMA CallKeeps ==
  ASSUME FilterIInv, TableTypeOK',
         NEW m \in Msgs, LogCall(m)
  PROVE  FilterIInv'
<1>1. /\ pc' = "level" /\ msg' = m /\ verdict' = "none"
      /\ passing' = Passing(m) \ Unsettled
      /\ rejecting' = Filters \ (Passing(m) \cup Unsettled)
      /\ UNCHANGED <<filter_level, filter_tag, filter_kw, setting, init_ok, tag_lvl>>
  BY DEF LogCall, filterVars, tableVars
<1>2. Passing(msg)' = Passing(m) /\ Passing(m) \subseteq Filters /\ Unsettled' = Unsettled
  BY <1>1 DEF Passing, Passes, GetTagLvl, Found, First, Unsettled
<1>3. FilterTypeOK'
  BY <1>1, <1>2 DEF FilterIInv, FilterTypeOK, Filters
<1> QED
  BY <1>1, <1>2, <1>3
     DEF FilterIInv, HistoryOK, TestedAt, AcceptedJustified, RejectedJustified

\* One filter is tested.
LEMMA TestKeeps ==
  ASSUME FilterIInv, TableTypeOK', NEW f \in Filters, TestFilter(f)
  PROVE  FilterIInv'
<1>1. /\ pc = f /\ UNCHANGED <<filter_level, filter_tag, filter_kw, setting, init_ok, tag_lvl, msg>>
      /\ UNCHANGED <<rejecting, passing>>
  BY DEF TestFilter, filterVars, tableVars
<1>2. Passing(msg)' = Passing(msg) /\ Unsettled' = Unsettled
  BY <1>1 DEF Passing, Passes, GetTagLvl, Found, First, Unsettled
<1>6. PICK pass \in Answers(f, msg) : IF pass THEN GoOn(f) ELSE GiveUp
  BY DEF TestFilter
<1>7. pass \in BOOLEAN /\ (f \notin Unsettled => pass = Passes(f, msg))
  BY DEF Answers, Passes
<1>3. HistoryOK'
  BY <1>1, <1>2 DEF FilterIInv, HistoryOK
<1>4. CASE pass
  <2>1. pc' = After[f] /\ verdict' = IF f = "kw" THEN "accepted" ELSE "none"
    BY <1>4, <1>6 DEF GoOn
  <2>2. f \notin rejecting
    BY <1>4, <1>7 DEF FilterIInv, HistoryOK, Passing
  <2>3. (TestedAt(f) \cup {f}) \cap rejecting = {}
    BY <1>1, <2>2 DEF FilterIInv
  <2>4. /\ f # "kw" => pc' # "idle" /\ TestedAt(pc') = TestedAt(f) \cup {f}
        /\ f = "kw" => pc' = "idle" /\ TestedAt(f) \cup {f} = Filters /\ TestedAt(pc') = {}
        /\ pc' \in Filters \cup {"idle"}
    BY <2>1 DEF After, Filters, TestedAt
  <2>5. rejecting \in SUBSET Filters
    BY DEF FilterIInv, FilterTypeOK
  <2>6. FilterTypeOK'
    BY <1>1, <2>1, <2>4 DEF FilterIInv, FilterTypeOK
  <2>7. AcceptedJustified' /\ RejectedJustified'
    BY <1>1, <2>1, <2>3, <2>4, <2>5 DEF AcceptedJustified, RejectedJustified
  <2> QED
    BY <1>1, <1>3, <2>1, <2>3, <2>4, <2>6, <2>7 DEF FilterIInv
<1>5. CASE ~pass
  <2>1. pc' = "idle" /\ verdict' = "rejected"
    BY <1>5, <1>6 DEF GiveUp
  <2>2. f \notin passing
    BY <1>5, <1>7 DEF FilterIInv, HistoryOK, Passing
  <2>3. FilterTypeOK'
    BY <1>1, <2>1 DEF FilterIInv, FilterTypeOK
  <2> QED
    BY <1>1, <1>3, <2>1, <2>2, <2>3
       DEF FilterIInv, TestedAt, AcceptedJustified, RejectedJustified
<1> QED
  BY <1>4, <1>5, <1>7

LEMMA FilterStep == FilterIInv /\ TableTypeOK' /\ [Next]_allVars => FilterIInv'
<1> SUFFICES ASSUME FilterIInv, TableTypeOK', [Next]_allVars
             PROVE  FilterIInv'
  OBVIOUS
<1>1. CASE UNCHANGED allVars
  BY <1>1 DEF allVars, filterVars, tableVars, callVars, FilterIInv, FilterTypeOK, HistoryOK,
              AcceptedJustified, RejectedJustified, Passing, Passes, GetTagLvl, Found, First,
              Unsettled
<1>2. CASE Settings
  BY <1>2, SettingsKeep
<1>3. CASE \E l \in Levels, t \in Tags, x \in Texts :
              LogCall([level |-> l, tag |-> t, text |-> x])
  BY <1>3, CallKeeps, TableAssumption DEF Msgs
<1>4. CASE \E f \in Filters : TestFilter(f)
  BY <1>4, TestKeeps
<1> QED
  BY <1>1, <1>2, <1>3, <1>4 DEF Next

\* What the histories say holds through every call and every setting
\* (elog.c:588-708).
THEOREM FilterInvariance == Spec => []FilterIInv
<1>1. TableIInv => TableTypeOK
  BY DEF TableIInv
<1> QED
  BY <1>1, FilterStart, FilterStep, FilterSpecTable, PTL DEF Spec

\* A line is output only if no filter rejected it all the while, however the
\* settings changed during the call, one byte of the tag and the keyword after
\* the other (elog.c:364-375, 589-593, 700-708).
THEOREM OutputIsJustified == Spec => []AcceptedJustified
BY FilterInvariance, PTL DEF FilterIInv

\* A line is rejected only if some filter did not pass it all the while or was
\* being written (elog.c:364-375, 589-593, 700-708).
THEOREM RejectionIsJustified == Spec => []RejectedJustified
BY FilterInvariance, PTL DEF FilterIInv
=============================================================================
