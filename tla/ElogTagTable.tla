---------------------------- MODULE ElogTagTable ----------------------------
(***************************************************************************)
(* EasyLogger's table of tag levels (elog.c): a few entries, searched and  *)
(* reused by elog_set_filter_tag_lvl and read by elog_get_filter_tag_lvl,  *)
(* with elog_init and elog_deinit, which decide whether they do anything.  *)
(*                                                                         *)
(* Both functions work between elog_output_lock and elog_output_unlock, so *)
(* each access is one step here (ElogLock).  A tag is a model value; Trunc *)
(* gives its first ELOG_FILTER_TAG_MAX_LEN characters, which is all that   *)
(* strncpy keeps and strncmp compares.                                     *)
(***************************************************************************)
EXTENDS Naturals, FiniteSets

CONSTANTS
    Tags,          \* tags of log lines
    Trunc,         \* [Tags -> Tags], what the table keeps of a tag
    NoTag,         \* the empty tag of a free entry
    Levels,        \* bound: the levels used
    Slots          \* ELOG_FILTER_TAG_LVL_MAX_NUM

\* ELOG_LVL_ASSERT .. ELOG_LVL_VERBOSE
AllLevels == 0 .. 5
ELOG_FILTER_LVL_SILENT == 0
ELOG_FILTER_LVL_ALL == 5

ASSUME TableAssumption ==
    /\ Trunc \in [Tags -> Tags]
    /\ NoTag \notin Tags
    /\ Levels \subseteq AllLevels
    /\ Slots \in Nat

VARIABLES
    init_ok,
    tag_lvl,       \* elog.filter.tag_lvl
    asked          \* history: the level last set for each kept tag, unless a
                   \* further tag was set while Slots tags had a level

tableVars == <<init_ok, tag_lvl, asked>>

Index == 1 .. Slots
Free == [used |-> FALSE, tag |-> NoTag, level |-> ELOG_FILTER_LVL_SILENT]
Keys == {Trunc[t] : t \in Tags}

\* A level for tag is dropped: it would be one tag too many.
Dropped(tag, level) ==
    /\ asked[Trunc[tag]] = ELOG_FILTER_LVL_ALL /\ level # ELOG_FILTER_LVL_ALL
    /\ Cardinality({k \in Keys : asked[k] # ELOG_FILTER_LVL_ALL}) = Slots

-----------------------------------------------------------------------------

\* The entries in use whose tag compares equal to tag.
Found(tag) == {i \in Index : tag_lvl[i].used /\ tag_lvl[i].tag = Trunc[tag]}
Unused == {i \in Index : ~tag_lvl[i].used}

\* The entry a loop over the table stops at.
First(S) == CHOOSE i \in S : \A j \in S : i <= j

\* elog_get_filter_tag_lvl
GetTagLvl(tag) ==
    IF init_ok /\ Found(tag) # {} THEN tag_lvl[First(Found(tag))].level
    ELSE ELOG_FILTER_LVL_ALL

\* The table after elog_set_filter_tag_lvl_default.
DefaultTable == [i \in Index |-> Free]

\* A removal that clears the level but not the use flag and tag.
RemoveTagLvl_KeepsEntry(tag) ==
    /\ Found(tag) # {}
    /\ tag_lvl' = [tag_lvl EXCEPT ![First(Found(tag))].level = ELOG_FILTER_LVL_SILENT]

\* elog_set_filter_tag_lvl(tag, ELOG_FILTER_LVL_ALL), the tag has an entry.
RemoveTagLvl(tag) ==
    /\ Found(tag) # {}
    /\ tag_lvl' = [tag_lvl EXCEPT ![First(Found(tag))] = Free]

\* The tag has an entry: its level is changed.
ChangeTagLvl(tag, level) ==
    /\ Found(tag) # {}
    /\ tag_lvl' = [tag_lvl EXCEPT ![First(Found(tag))].level = level]

\* A full table gives up its last entry.
AddTagLvl_Evicts(tag, level) ==
    /\ Found(tag) = {}
    /\ tag_lvl' = [tag_lvl EXCEPT ![IF Unused = {} THEN Slots ELSE First(Unused)] =
                      [used |-> TRUE, tag |-> Trunc[tag], level |-> level]]

\* The tag has no entry: it takes the first free one.
AddTagLvl(tag, level) ==
    /\ Found(tag) = {} /\ Unused # {}
    /\ tag_lvl' = [tag_lvl EXCEPT ![First(Unused)] =
                      [used |-> TRUE, tag |-> Trunc[tag], level |-> level]]

\* The tag has no entry and there is none free: nothing is done.
TableFull(tag) ==
    /\ Found(tag) = {} /\ Unused = {}
    /\ UNCHANGED tag_lvl

\* The tag has no entry and its level is to be removed.
NothingToRemove(tag) ==
    /\ Found(tag) = {}
    /\ UNCHANGED tag_lvl

\* elog_set_filter_tag_lvl; before elog_init it returns at once.
SetTagLvl(tag, level) ==
    /\ init_ok
    /\ \/ level = ELOG_FILTER_LVL_ALL /\ (RemoveTagLvl(tag) \/ NothingToRemove(tag))
       \/ level # ELOG_FILTER_LVL_ALL
             /\ (ChangeTagLvl(tag, level) \/ AddTagLvl(tag, level) \/ TableFull(tag))
    /\ asked' = IF Dropped(tag, level) THEN asked
                ELSE [asked EXCEPT ![Trunc[tag]] = level]
    /\ UNCHANGED init_ok

-----------------------------------------------------------------------------

\* Before elog_init: the static structure is zero.
TableInit ==
    /\ init_ok = FALSE
    /\ tag_lvl = DefaultTable
    /\ asked = [k \in Keys |-> ELOG_FILTER_LVL_ALL]

\* elog_init
OpenTable ==
    /\ ~init_ok
    /\ init_ok' = TRUE
    /\ tag_lvl' = DefaultTable
    /\ asked' = [k \in Keys |-> ELOG_FILTER_LVL_ALL]

\* elog_deinit
CloseTable ==
    /\ init_ok
    /\ init_ok' = FALSE
    /\ UNCHANGED <<tag_lvl, asked>>

TableNext ==
    \/ OpenTable \/ CloseTable
    \/ \E tag \in Tags, level \in Levels : SetTagLvl(tag, level)

TableSpec == TableInit /\ [][TableNext]_tableVars

-----------------------------------------------------------------------------

TableTypeOK ==
    /\ init_ok \in BOOLEAN
    /\ tag_lvl \in [Index -> [used : BOOLEAN, tag : Tags \cup {NoTag}, level : AllLevels]]
    /\ asked \in [Keys -> AllLevels]
    /\ \A i \in Index : ~tag_lvl[i].used => tag_lvl[i] = Free

\* The tags that have a level, and the map the table stands for.
UsedTags == {tag_lvl[i].tag : i \in {j \in Index : tag_lvl[j].used}}
EntryOf(k) == CHOOSE i \in Index : tag_lvl[i].used /\ tag_lvl[i].tag = k
LevelMap == [k \in UsedTags |-> tag_lvl[EntryOf(k)].level]

Abstract == INSTANCE TagLevels WITH
    open <- init_ok, level <- LevelMap, LevelRange <- AllLevels,
    AllLevel <- ELOG_FILTER_LVL_ALL, Capacity <- Slots

\* The few entries, with the reuse of freed ones, behave as a map: setting or
\* removing one tag's level never touches another's (elog.c:433-476).
ImplementsLevels == Abstract!LevelsSpec

\* No tag has two entries: a removal leaves no stale level behind that a later
\* lookup would find.
NoDuplicateTag ==
    \A i, j \in Index :
        /\ tag_lvl[i].used /\ tag_lvl[j].used
        /\ tag_lvl[i].tag = tag_lvl[j].tag
        => i = j

\* The level in effect for a tag is the one last set for it, whatever was set,
\* removed and reused for other tags meanwhile; a level is dropped only when
\* as many other tags have one as the table has entries (elog.c:433-508).
LevelInEffect == init_ok => \A t \in Tags : GetTagLvl(t) = asked[Trunc[t]]
=============================================================================
