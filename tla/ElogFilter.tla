----------------------------- MODULE ElogFilter -----------------------------
(***************************************************************************)
(* EasyLogger's filters (elog.c): the level, the tag and the keyword that  *)
(* elog_set_filter* write without the output lock, the table of tag levels *)
(* that is kept under it, and the decision of elog_output, which reads     *)
(* them one after the other while another context may be changing them.    *)
(*                                                                         *)
(* A substring filter is the set of what contains the substring.  The tag  *)
(* and the keyword are written by strncpy, byte after byte, without a      *)
(* lock: while that goes on the buffer selects anything that half-written  *)
(* strings select, and strstr, reading it meanwhile, may answer either way.*)
(***************************************************************************)
EXTENDS ElogTagTable

CONSTANTS
    Texts,         \* what log lines say
    TagFilters,    \* bound: the sets of tags that elog.filter.tag can select,
                   \* half-written strings included
    Keywords,      \* bound: the same for elog.filter.keyword and texts
    Setters        \* bound: calls that write the same filter at once

ASSUME FilterAssumption ==
    /\ TagFilters \subseteq SUBSET Tags
    /\ Keywords \subseteq SUBSET Texts
    /\ Setters \in Nat

VARIABLES
    filter_level,  \* elog.filter.level
    filter_tag,    \* the tags that contain elog.filter.tag
    filter_kw,     \* the texts that contain elog.filter.keyword
    setting,       \* calls in the middle of writing the tag and the keyword
    pc,            \* where elog_output is
    msg,           \* its arguments
    verdict,       \* what became of the last line
    rejecting,     \* history: filters that rejected msg ever since the call
    passing        \* history: filters that passed msg ever since the call

filterVars == <<tableVars, filter_level, filter_tag, filter_kw, setting>>
callVars == <<pc, msg, verdict, rejecting, passing>>
allVars == <<filterVars, callVars>>

Msgs == [level : AllLevels, tag : Tags, text : Texts]
Filters == {"level", "tag_lvl", "tag", "kw"}
Strings == {"tag", "kw"}

\* The filters that are half written.
Unsettled == {f \in Strings : setting[f] > 0}

-----------------------------------------------------------------------------
\* Settings

\* elog_init; what elog_set_filter_tag and _kw were given is kept.
ElogInit ==
    /\ OpenTable
    /\ filter_level' = ELOG_FILTER_LVL_ALL
    /\ UNCHANGED <<filter_tag, filter_kw, setting>>

\* elog_deinit and elog_set_filter_tag_lvl
ElogDeinit ==
    /\ CloseTable
    /\ UNCHANGED <<filter_level, filter_tag, filter_kw, setting>>

SetTagLevel ==
    /\ \E tag \in Tags, level \in Levels : SetTagLvl(tag, level)
    /\ UNCHANGED <<filter_level, filter_tag, filter_kw, setting>>

\* elog_set_filter_lvl, elog_set_filter_tag and elog_set_filter_kw, which
\* elog_set_filter calls one after the other.
SetLevel ==
    /\ filter_level' \in Levels
    /\ UNCHANGED <<tableVars, filter_tag, filter_kw, setting>>

\* elog_set_filter_tag and elog_set_filter_kw begin to copy, ...
BeginSet(f) ==
    /\ setting[f] < Setters
    /\ setting' = [setting EXCEPT ![f] = @ + 1]
    /\ UNCHANGED <<tableVars, filter_level, filter_tag, filter_kw>>

\* ... write one byte of the buffer, ...
SetTag ==
    /\ setting["tag"] > 0
    /\ filter_tag' \in TagFilters
    /\ UNCHANGED <<tableVars, filter_level, filter_kw, setting>>

SetKeyword ==
    /\ setting["kw"] > 0
    /\ filter_kw' \in Keywords
    /\ UNCHANGED <<tableVars, filter_level, filter_tag, setting>>

\* ... and have written the last one.
EndSet(f) ==
    /\ setting[f] > 0
    /\ setting' = [setting EXCEPT ![f] = @ - 1]
    /\ UNCHANGED <<tableVars, filter_level, filter_tag, filter_kw>>

-----------------------------------------------------------------------------
\* The decision of elog_output, output being enabled

\* What each filter says of a line now.
Passes(f, m) ==
    \/ f = "level"   /\ m.level <= filter_level
    \/ f = "tag_lvl" /\ m.level <= GetTagLvl(m.tag)
    \/ f = "tag"     /\ m.tag \in filter_tag
    \/ f = "kw"      /\ m.text \in filter_kw

Passing(m) == {f \in Filters : Passes(f, m)}

\* What the test of a filter may find: a string that is being written is read
\* partly before and partly after some of its bytes change.
Answers(f, m) == IF f \in Unsettled THEN BOOLEAN ELSE {Passes(f, m)}

\* The point after each filter's test.
After == [level |-> "tag_lvl", tag_lvl |-> "tag", tag |-> "kw", kw |-> "idle"]

LogCall(m) ==
    /\ pc = "idle"
    /\ pc' = "level"
    /\ msg' = m
    /\ verdict' = "none"
    /\ passing' = Passing(m) \ Unsettled
    /\ rejecting' = Filters \ (Passing(m) \cup Unsettled)
    /\ UNCHANGED filterVars

\* The call goes on to the next test, or, the keyword found, outputs the line.
GoOn(f) ==
    /\ pc' = After[f]
    /\ verdict' = IF f = "kw" THEN "accepted" ELSE "none"

GiveUp == pc' = "idle" /\ verdict' = "rejected"

\* The test of a filter that the tag's own level is left out of.
TestFilter_NoTagLvl(f) ==
    /\ pc = f
    /\ \E pass \in Answers(f, msg) :
          IF pass \/ f = "tag_lvl" THEN GoOn(f) ELSE GiveUp
    /\ UNCHANGED <<filterVars, msg, rejecting, passing>>

\* A level that is equal to the tag's or the global level is rejected.
TestFilter_Strict(f) ==
    /\ pc = f
    /\ \E pass \in Answers(f, IF f \in Strings THEN msg
                              ELSE [msg EXCEPT !.level = @ + 1]) :
          IF pass THEN GoOn(f) ELSE GiveUp
    /\ UNCHANGED <<filterVars, msg, rejecting, passing>>

\* One filter is tested: the call goes on or returns.
TestFilter(f) ==
    /\ pc = f
    /\ \E pass \in Answers(f, msg) : IF pass THEN GoOn(f) ELSE GiveUp
    /\ UNCHANGED <<filterVars, msg, rejecting, passing>>

-----------------------------------------------------------------------------

\* Before elog_init: the static structure is zero.
Init ==
    /\ TableInit
    /\ filter_level = ELOG_FILTER_LVL_SILENT
    /\ filter_tag = Tags
    /\ filter_kw = Texts
    /\ setting = [f \in Strings |-> 0]
    /\ pc = "idle"
    /\ msg \in [level : {ELOG_FILTER_LVL_SILENT}, tag : Tags, text : Texts]
    /\ verdict = "none"
    /\ rejecting = {} /\ passing = {}

\* A setting is changed; the history keeps the filters that did not waver and
\* were not being written.
Settings ==
    /\ \/ ElogInit \/ ElogDeinit \/ SetTagLevel \/ SetLevel \/ SetTag \/ SetKeyword
       \/ \E f \in Strings : BeginSet(f) \/ EndSet(f)
    /\ UNCHANGED <<pc, msg, verdict>>
    /\ passing' = (passing \cap Passing(msg)') \ Unsettled'
    /\ rejecting' = rejecting \ (Passing(msg)' \cup Unsettled')

Next ==
    \/ Settings
    \/ \E l \in Levels, t \in Tags, x \in Texts :
          LogCall([level |-> l, tag |-> t, text |-> x])
    \/ \E f \in Filters : TestFilter(f)

Spec == Init /\ [][Next]_allVars

-----------------------------------------------------------------------------

FilterTypeOK ==
    /\ TableTypeOK
    /\ filter_level \in AllLevels
    /\ filter_tag \in SUBSET Tags /\ filter_kw \in SUBSET Texts
    /\ setting \in [Strings -> 0 .. Setters]
    /\ pc \in Filters \cup {"idle"}
    /\ msg \in Msgs
    /\ verdict \in {"none", "accepted", "rejected"}
    /\ rejecting \in SUBSET Filters /\ passing \in SUBSET Filters

\* However the settings change during a call, a line is output only if no
\* filter rejected it all the while; a tag or a keyword that was being written
\* at some time of the call explains nothing (elog.c:589-593, 700-708).
AcceptedJustified == verdict = "accepted" => rejecting = {}

\* And it is rejected only if some filter did not pass it all the while, or was
\* being written.
RejectedJustified == verdict = "rejected" => passing # Filters
=============================================================================
