------------------------------ MODULE ElogLine ------------------------------
(***************************************************************************)
(* What EasyLogger writes into log_buf between elog_output_lock and        *)
(* elog_output_unlock (elog.c, elog_utils.c): the pieces of a line, copied *)
(* one after the other and cut at the buffer's end, the text by vsnprintf, *)
(* the room reserved for the end of the line, the keyword filter, and the  *)
(* rows of elog_hexdump with their 16-bit counters.                        *)
(*                                                                         *)
(* A character is a cell <<s, x, k>>: the k-th character of the string s   *)
(* (of level, byte or tag x).  What a previous call left in log_buf is     *)
(* Stale.  ElogLock shows that one context at a time is in here; only      *)
(* elog_set_text_color_enabled and elog_set_fmt, which take no lock,       *)
(* interfere: elog_output reads the format anew for each piece.            *)
(***************************************************************************)
EXTENDS Integers, Sequences, FiniteSets, SequencesExt

CONSTANTS
    Size,          \* ELOG_LINE_BUF_SIZE
    StrLen,        \* [StrNames -> Nat], the lengths of the fixed strings
    TagMax,        \* ELOG_FILTER_TAG_MAX_LEN
    LineNumMax,    \* ELOG_LINE_NUM_MAX_LEN
    Group,         \* bytes of a row between two gaps, 8 in the code
    Wrap,          \* 2^16, the range of elog_hexdump's counters
    MaxFmts,       \* a bound: the formats that one line reads
    \* what callers ask for
    Levels, TagLens, Fmts, Givens, Texts, Keywords, Headers, Widths, Sizes

Fail == -1                              \* vsnprintf's result when it fails
StrNames == {"csi_start", "color", "csi_end", "level", "time", "p_info",
             "t_info", "file", "line", "func", "newline"}
Flags == {"LVL", "TAG", "TIME", "P_INFO", "T_INFO", "DIR", "FUNC", "LINE"}
Reserve == StrLen["csi_end"] + StrLen["newline"]

ASSUME LineAssumption ==
    /\ StrLen \in [StrNames -> Nat]
    /\ Size \in Nat
    /\ Reserve < Size
    /\ StrLen["newline"] > 0
    /\ StrLen["color"] > 0      \* the colour of each level is some text
    /\ TagMax \in Nat /\ LineNumMax \in Nat \ {0} /\ Group \in Nat \ {0}
    /\ Wrap \in Nat \ {0}
    /\ Levels \subseteq 0 .. 5
    /\ TagLens \subseteq Nat
    /\ Fmts \subseteq SUBSET Flags
    /\ Givens \subseteq SUBSET {"DIR", "FUNC", "LINE"}
    /\ Texts \subseteq Nat /\ Headers \subseteq Nat
    /\ Keywords \subseteq Seq(STRING \X Nat \X Nat)
    /\ Widths \subseteq Nat /\ Sizes \subseteq 0 .. Wrap - 1

VARIABLES
    pc,
    call,                \* arguments of the current call
    text_color_enabled,  \* elog.text_color_enabled
    enabled_fmt,         \* elog.enabled_fmt_set of the level of the line
    colored,             \* history: the line began, ended with colour
    log_buf, log_len,
    point,               \* elog_output: where it next asks for the format
    todo,                \* strings still to be copied
    chosen,              \* history: the strings of the line so far
    fmts,                \* history: the formats that the line has read
    fmt_result,
    i,                   \* elog_hexdump: offset of the row
    rows,                \* history: rows output so far, up to Wrap
    out                  \* what the call handed to elog_buf_output last

head == <<enabled_fmt, point, chosen, fmts>>
vars == <<pc, call, text_color_enabled, head, colored, log_buf, log_len, todo,
          fmt_result, i, rows, out>>

-----------------------------------------------------------------------------
(* Strings and the buffer *)

Stale == <<"stale", 0, 0>>
Nul == <<"nul", 0, 0>>
StrOf(s, x, n) == [k \in 1 .. n |-> <<s, x, k>>]
Fixed(s) == StrOf(s, 0, StrLen[s])
Mark(s) == StrOf(s, 0, 1)               \* " ", "[", "(", ":", ")"
When(p, seq) == IF p THEN seq ELSE <<>>
Least(a, b) == IF a < b THEN a ELSE b

StaleBuf == [k \in 0 .. Size - 1 |-> Stale]

\* str written from position at on
Write(buf, at, str) ==
    [k \in 0 .. Size - 1 |->
        IF k >= at /\ k < at + Len(str) THEN str[k - at + 1] ELSE buf[k]]

\* without the test of cur_len
Copied_NoCut(cur_len, str) == Len(str)

\* elog_strcpy(cur_len, log_buf + cur_len, str): how much of str is copied
Copied(cur_len, str) ==
    Least(Len(str), IF cur_len < Size THEN Size - cur_len ELSE 0)

\* snprintf(buf + at, room, ...) of str: at most room - 1 characters and the
\* end sign; it returns Len(str)
Snprintf(buf, at, room, str) ==
    IF room = 0 THEN buf
    ELSE LET n == Least(Len(str), room - 1)
         IN  Write(buf, at, SubSeq(str, 1, n) \o <<Nul>>)

\* log_len after snprintf: "using max length" when it failed or did not fit
LenAfter(at, result) ==
    IF result # Fail /\ at + result <= Size THEN at + result ELSE Size

Line(buf, n) == [k \in 1 .. n |-> buf[k - 1]]

\* strstr(buf, word): the string ends at the first end sign
Holds(buf, word) ==
    \E p \in 0 .. Size - Len(word) :
        /\ \A k \in 1 .. Len(word) : buf[p + k - 1] = word[k]
        /\ \A q \in 0 .. p + Len(word) - 1 : buf[q] # Nul

-----------------------------------------------------------------------------
(* The strings of a line and of a row *)

Space == Mark(" ")
BracketEnd == StrOf("] ", 0, 2)
LevelString(c) == StrOf("level", c.level, StrLen["level"])

\* the tag, filled up to half of ELOG_FILTER_TAG_MAX_LEN
TagStrings(c) ==
    <<StrOf("tag", c.tag, c.tag),
      StrOf(" ", 0, IF c.tag <= TagMax \div 2 THEN TagMax \div 2 - c.tag ELSE 0),
      Space>>

\* line_num holds ELOG_LINE_NUM_MAX_LEN characters with the end sign
LineNum == StrOf("line", 0, Least(StrLen["line"], LineNumMax - 1))

\* the colour before the CSI start
ColorStrings_Swapped(c) ==
    <<StrOf("color", c.level, StrLen["color"]), Fixed("csi_start")>>

ColorStrings(c) ==
    <<Fixed("csi_start"), StrOf("color", c.level, StrLen["color"])>>

\* the test of the end of the data with <=
RowStrings_OnePast(c, offset) ==
    LET byte(j) == IF offset + j <= c.size THEN StrOf("hex", offset + j, 3)
                                           ELSE StrOf(" ", 0, 3)
        hex == [j \in 1 .. c.width |->
                    byte(j - 1) \o When(j % Group = 0, Mark(" "))]
        char == [j \in 1 .. c.width |->
                    When(offset + j - 1 < c.size,
                         <<<<"char", offset + j - 1, 1>>>>)]
    IN  hex \o <<StrOf(" ", 0, 2)>> \o char

\* one row of elog_hexdump: the bytes from offset on, then their characters
RowStrings(c, offset) ==
    LET byte(j) == IF offset + j < c.size THEN StrOf("hex", offset + j, 3)
                                          ELSE StrOf(" ", 0, 3)
        hex == [j \in 1 .. c.width |->
                    byte(j - 1) \o When(j % Group = 0, Mark(" "))]
        char == [j \in 1 .. c.width |->
                    When(offset + j - 1 < c.size,
                         <<<<"char", offset + j - 1, 1>>>>)]
    IN  hex \o <<StrOf(" ", 0, 2)>> \o char

-----------------------------------------------------------------------------
(* The calls *)

LineCalls == [kind : {"line"}, level : Levels, tag : TagLens, given : Givens,
              keyword : Keywords]
RawCall == [kind |-> "raw"]
DumpCalls == [kind : {"dump"}, width : Widths, size : Sizes]

LineInit ==
    /\ pc = "idle"
    /\ text_color_enabled \in BOOLEAN
    /\ call = RawCall /\ colored = {}
    /\ enabled_fmt = {} /\ point = "text" /\ chosen = <<>> /\ fmts = {}
    /\ log_buf = StaleBuf /\ log_len = 0
    /\ todo = <<>> /\ fmt_result = 0
    /\ i = 0 /\ rows = 0 /\ out = <<>>

\* elog_output, with a level and a tag that pass the filters (ElogFilter);
\* what the format of its level has been set to comes into view
ElogOutput(c) ==
    /\ pc = "idle" /\ pc' = "package"
    /\ call' = c
    /\ enabled_fmt' \in Fmts
    /\ colored' = IF text_color_enabled THEN {"begin"} ELSE {}
    /\ todo' = When(text_color_enabled, ColorStrings(c))
    /\ chosen' = todo'
    /\ point' = "level"
    /\ UNCHANGED <<text_color_enabled, fmts, log_buf, log_len, fmt_result, i,
                   rows, out>>

\* One question of elog_output: it copies yes and goes on at then, or copies
\* no and goes on at other.
Take(at, on, yes, then, no, other) ==
    /\ pc = "package" /\ todo = <<>> /\ point = at
    /\ todo' = IF on THEN yes ELSE no
    /\ chosen' = chosen \o todo'
    /\ point' = IF on THEN then ELSE other
    /\ UNCHANGED <<pc, call, text_color_enabled, enabled_fmt, colored, log_buf,
                   log_len, fmt_result, i, rows, out>>

\* get_fmt_enabled: one of the flags is set
Ask(at, flags, yes, then, no, other) ==
    /\ Take(at, flags \cap enabled_fmt # {}, yes, then, no, other)
    /\ fmts' = fmts \cup {enabled_fmt}

\* get_fmt_used_and_enabled_ptr, _u32: without the argument it asks nothing
AskUsed(at, flag, yes, then, no, other) ==
    /\ Take(at, flag \in call.given /\ flag \in enabled_fmt, yes, then, no, other)
    /\ fmts' = IF flag \in call.given THEN fmts \cup {enabled_fmt} ELSE fmts

\* The questions in the code's order
AskLevelAndTag ==
    \/ Ask("level", {"LVL"}, <<LevelString(call)>>, "tag", <<>>, "tag")
    \/ Ask("tag", {"TAG"}, TagStrings(call), "info", <<>>, "info")

AskInfo ==
    \/ Ask("info", {"TIME", "P_INFO", "T_INFO"}, <<Mark("[")>>, "time",
           <<>>, "place_dir")
    \/ Ask("time", {"TIME"}, <<Fixed("time")>>, "time_gap", <<>>, "p_info")
    \/ Ask("time_gap", {"P_INFO", "T_INFO"}, <<Space>>, "p_info",
           <<>>, "p_info")
    \/ Ask("p_info", {"P_INFO"}, <<Fixed("p_info")>>, "p_gap", <<>>, "t_info")
    \/ Ask("p_gap", {"T_INFO"}, <<Space>>, "t_info", <<>>, "t_info")
    \/ Ask("t_info", {"T_INFO"}, <<Fixed("t_info"), BracketEnd>>, "place_dir",
           <<BracketEnd>>, "place_dir")

AskPlace ==
    \/ AskUsed("place_dir", "DIR", <<Mark("(")>>, "file", <<>>, "place_func")
    \/ AskUsed("place_func", "FUNC", <<Mark("(")>>, "file", <<>>, "place_line")
    \/ AskUsed("place_line", "LINE", <<Mark("(")>>, "file", <<>>, "text")
    \/ AskUsed("file", "DIR", <<Fixed("file")>>, "file_func", <<>>, "line")
    \/ AskUsed("file_func", "FUNC", <<Mark(":")>>, "line", <<>>, "file_line")
    \/ AskUsed("file_line", "LINE", <<Space>>, "line", <<>>, "line")
    \/ AskUsed("line", "LINE", <<LineNum>>, "line_func", <<>>, "func")
    \/ AskUsed("line_func", "FUNC", <<Space>>, "func", <<>>, "func")
    \/ AskUsed("func", "FUNC", <<Fixed("func"), Mark(")")>>, "text",
               <<Mark(")")>>, "text")

\* elog_raw_output: one vsnprintf into the whole buffer, put out as it is
ElogRawOutput(n) ==
    /\ pc = "idle" /\ pc' = "done"
    /\ fmt_result' = n
    /\ log_buf' = IF n = Fail THEN log_buf
                  ELSE Snprintf(log_buf, 0, Size, StrOf("text", 0, n))
    /\ log_len' = LenAfter(0, n)
    /\ out' = Line(log_buf', log_len')
    /\ UNCHANGED <<call, text_color_enabled, head, colored, todo, i, rows>>

ElogHexdump(c) ==
    /\ pc = "idle" /\ pc' = "row"
    /\ call' = c
    /\ UNCHANGED <<text_color_enabled, head, colored, log_buf, log_len, todo,
                   fmt_result, i, rows, out>>

\* one elog_strcpy
Package ==
    /\ pc = "package" /\ todo # <<>>
    /\ LET n == Copied(log_len, Head(todo))
       IN  /\ log_buf' = Write(log_buf, log_len, SubSeq(Head(todo), 1, n))
           /\ log_len' = log_len + n
    /\ todo' = Tail(todo)
    /\ UNCHANGED <<pc, call, text_color_enabled, head, colored, fmt_result, i, rows, out>>

\* vsnprintf of the caller's format behind the pieces
FormatText ==
    /\ pc = "package" /\ todo = <<>> /\ call.kind = "line" /\ point = "text"
    /\ \E n \in Texts \cup {Fail} :
        /\ fmt_result' = n
        /\ log_buf' = IF n = Fail THEN log_buf
                      ELSE Snprintf(log_buf, log_len, Size - log_len,
                                 StrOf("text", 0, n))
        /\ log_len' = LenAfter(log_len, n)
    /\ pc' = "reserve"
    /\ UNCHANGED <<call, text_color_enabled, head, colored, todo, i, rows, out>>

\* the reserve made for the colour that is on now
ReserveEnd_IfColored ==
    LET room == StrLen["newline"]
                + (IF text_color_enabled THEN StrLen["csi_end"] ELSE 0)
    IN  /\ pc = "reserve"
        /\ log_len' = Least(log_len, Size - room)
        /\ pc' = "filter"
        /\ UNCHANGED <<call, text_color_enabled, head, colored, log_buf, todo,
                       fmt_result, i, rows, out>>

\* room for CSI_END and the newline sign, whether or not colour is on
ReserveEnd ==
    /\ pc = "reserve"
    /\ log_len' = Least(log_len, Size - Reserve)
    /\ pc' = "filter"
    /\ UNCHANGED <<call, text_color_enabled, head, colored, log_buf, todo,
                   fmt_result, i, rows, out>>

\* the keyword searched without the end sign set before
FilterKeyword_NoEnd ==
    /\ pc = "filter"
    /\ pc' = IF call.keyword = <<>> \/ Holds(log_buf, call.keyword)
             THEN "end" ELSE "done"
    /\ UNCHANGED <<call, text_color_enabled, head, colored, log_buf, log_len, todo,
                   fmt_result, i, rows, out>>

FilterKeyword ==
    /\ pc = "filter"
    /\ IF call.keyword = <<>>
       THEN /\ pc' = "end"
            /\ UNCHANGED log_buf
       ELSE /\ log_buf' = [log_buf EXCEPT ![log_len] = Nul]
            /\ pc' = IF Holds(log_buf', call.keyword) THEN "end" ELSE "done"
    /\ UNCHANGED <<call, text_color_enabled, head, colored, log_len, todo,
                   fmt_result, i, rows, out>>

\* text_color_enabled is read a second time for the CSI end sign
AppendEnd ==
    LET n == Copied(log_len, Fixed("csi_end"))
    IN  /\ pc = "end"
        /\ IF text_color_enabled
           THEN /\ log_buf' = Write(log_buf, log_len,
                                    SubSeq(Fixed("csi_end"), 1, n))
                /\ log_len' = log_len + n
                /\ colored' = colored \cup {"end"}
           ELSE UNCHANGED <<log_buf, log_len, colored>>
        /\ pc' = "newline"
        /\ UNCHANGED <<call, text_color_enabled, head, todo, fmt_result, i, rows, out>>

\* the newline sign, and the output of the line or row
AppendNewline ==
    LET n == Copied(log_len, Fixed("newline"))
    IN  /\ pc = "newline"
        /\ log_buf' = Write(log_buf, log_len, SubSeq(Fixed("newline"), 1, n))
        /\ log_len' = log_len + n
        /\ out' = Line(log_buf', log_len')
        /\ IF call.kind = "dump"
           THEN pc' = "next" /\ rows' = Least(rows + 1, Wrap)
           ELSE pc' = "done" /\ UNCHANGED rows
        /\ UNCHANGED <<call, text_color_enabled, head, colored, todo, fmt_result, i>>

\* The head of the loop of elog_hexdump and the header of a row
StartRow ==
    /\ pc = "row"
    /\ IF i < call.size
       THEN \E n \in Headers \cup {Fail} :
                /\ fmt_result' = n
                /\ log_buf' = IF n = Fail THEN StaleBuf
                              ELSE Snprintf(StaleBuf, 0, Size,
                                         StrOf("header", i, n))
                /\ log_len' = LenAfter(0, n)
                /\ todo' = RowStrings(call, i)
                /\ pc' = "package"
       ELSE /\ pc' = "done"
            /\ UNCHANGED <<log_buf, log_len, todo, fmt_result>>
    /\ UNCHANGED <<call, text_color_enabled, head, colored, i, rows, out>>

\* a row without the reserve
ReserveRow_None ==
    /\ pc = "package" /\ todo = <<>> /\ call.kind = "dump"
    /\ pc' = "newline"
    /\ UNCHANGED <<call, text_color_enabled, head, colored, log_buf, log_len, todo,
                   fmt_result, i, rows, out>>

\* room for the newline sign of a row
ReserveRow ==
    /\ pc = "package" /\ todo = <<>> /\ call.kind = "dump"
    /\ log_len' = Least(log_len, Size - StrLen["newline"])
    /\ pc' = "newline"
    /\ UNCHANGED <<call, text_color_enabled, head, colored, log_buf, todo,
                   fmt_result, i, rows, out>>

\* a counter of half the width
NextRow_Narrow ==
    /\ pc = "next"
    /\ i' = (i + call.width) % (Wrap \div 2)
    /\ pc' = "row"
    /\ UNCHANGED <<call, text_color_enabled, head, colored, log_buf, log_len, todo,
                   fmt_result, rows, out>>

\* i += width, 16 bits wide
NextRow ==
    /\ pc = "next"
    /\ i' = (i + call.width) % Wrap
    /\ pc' = "row"
    /\ UNCHANGED <<call, text_color_enabled, head, colored, log_buf, log_len, todo,
                   fmt_result, rows, out>>

\* The locals are gone, and what is in log_buf is stale.
Return ==
    /\ pc = "done" /\ pc' = "idle"
    /\ call' = RawCall /\ colored' = {}
    /\ enabled_fmt' = {} /\ point' = "text" /\ chosen' = <<>> /\ fmts' = {}
    /\ log_buf' = StaleBuf /\ log_len' = 0
    /\ todo' = <<>> /\ fmt_result' = 0
    /\ i' = 0 /\ rows' = 0 /\ out' = <<>>
    /\ UNCHANGED text_color_enabled

\* elog_set_text_color_enabled, from any context and without the lock
SetTextColor ==
    /\ text_color_enabled' = ~text_color_enabled
    /\ UNCHANGED <<pc, call, head, colored, log_buf, log_len, todo, fmt_result, i,
                   rows, out>>

\* elog_set_fmt of the level of the line, without the lock, while the line
\* still asks for it
SetFmt(set) ==
    /\ point # "text"
    /\ Cardinality(fmts \cup {set}) <= MaxFmts
    /\ enabled_fmt' = set
    /\ UNCHANGED <<pc, call, text_color_enabled, point, chosen, fmts, colored,
                   log_buf, log_len, todo, fmt_result, i, rows, out>>

Call ==
    \/ \E c \in LineCalls : ElogOutput(c)
    \/ \E n \in Texts \cup {Fail} : ElogRawOutput(n)
    \/ \E c \in DumpCalls : ElogHexdump(c)

Step ==
    \/ AskLevelAndTag \/ AskInfo \/ AskPlace \/ Package \/ FormatText
    \/ ReserveEnd \/ FilterKeyword \/ AppendEnd \/ AppendNewline
    \/ StartRow \/ ReserveRow \/ NextRow \/ Return

LineNext == Call \/ Step \/ SetTextColor \/ \E set \in Fmts : SetFmt(set)

\* Once called, the code runs on; nobody has to call or to set anything.
LineSpec == LineInit /\ [][LineNext]_vars /\ WF_vars(Step)

-----------------------------------------------------------------------------
(* elog_find_lvl and elog_find_tag, which read a line back *)

NotFound == -1

\* elog_find_lvl: the first level whose colour follows the CSI start
ElogFindLvl(log) ==
    LET at == StrLen["csi_start"]
        found == {l \in 0 .. 5 :
                    SubSeq(log, at + 1, at + StrLen["color"])
                        = StrOf("color", l, StrLen["color"])}
    IN  IF found = {} THEN NotFound ELSE CHOOSE l \in found : \A m \in found : l <= m

\* elog_find_tag: what lies between the level and the first space within
\* ELOG_FILTER_TAG_MAX_LEN characters
ElogFindTag(log) ==
    LET at == StrLen["csi_start"] + StrLen["color"] + StrLen["level"]
        spaces == {k \in 1 .. Least(TagMax, Len(log) - at) :
                    log[at + k] = <<" ", 0, 1>>}
    IN  IF spaces = {} THEN <<>>
        ELSE SubSeq(log, at + 1, at + (CHOOSE k \in spaces :
                                          \A m \in spaces : k <= m) - 1)

-----------------------------------------------------------------------------
(* Properties *)

\* log_len never passes the end of log_buf, so that ELOG_LINE_BUF_SIZE -
\* log_len, which is unsigned, is the room left; and when the reserve has
\* been made the end of the line fits, although the colour flag may have
\* changed since the line began (elog.c:674, 685-696, 699).
LineBounded ==
    /\ log_len <= Size
    /\ pc \in {"filter", "end"} => log_len + Reserve <= Size
    /\ pc = "newline" => log_len + StrLen["newline"] <= Size

\* What a format f has between the colour and the text of a line
LevelHead(c, f) == When("LVL" \in f, <<LevelString(c)>>)
TagHead(c, f) == When("TAG" \in f, TagStrings(c))

TimeHead(f) ==
    When("TIME" \in f,
         <<Fixed("time")>> \o When({"P_INFO", "T_INFO"} \cap f # {}, <<Space>>))
PInfoHead(f) ==
    When("P_INFO" \in f, <<Fixed("p_info")>> \o When("T_INFO" \in f, <<Space>>))
TInfoHead(f) == When("T_INFO" \in f, <<Fixed("t_info")>>) \o <<BracketEnd>>
InfoHead(f) ==
    When({"TIME", "P_INFO", "T_INFO"} \cap f # {},
         <<Mark("[")>> \o TimeHead(f) \o PInfoHead(f) \o TInfoHead(f))

Used(c, f) == c.given \cap f
FileHead(c, f) ==
    When("DIR" \in Used(c, f),
         <<Fixed("file")>> \o (IF "FUNC" \in Used(c, f) THEN <<Mark(":")>>
                               ELSE When("LINE" \in Used(c, f), <<Space>>)))
NumHead(c, f) ==
    When("LINE" \in Used(c, f),
         <<LineNum>> \o When("FUNC" \in Used(c, f), <<Space>>))
FuncHead(c, f) == When("FUNC" \in Used(c, f), <<Fixed("func")>>) \o <<Mark(")")>>
PlaceHead(c, f) ==
    When({"DIR", "FUNC", "LINE"} \cap Used(c, f) # {},
         <<Mark("(")>> \o FileHead(c, f) \o NumHead(c, f) \o FuncHead(c, f))

HeadStrings(c, f) ==
    LevelHead(c, f) \o TagHead(c, f) \o InfoHead(f) \o PlaceHead(c, f)

\* The line without its end, as a logger with an endless buffer makes it,
\* and what a buffer of Size keeps of it
Ideal == FlattenSeq(chosen) \o StrOf("text", 0, fmt_result)
Kept == SubSeq(Ideal, 1, Least(Len(Ideal), Size - Reserve))

LineDone == pc = "done" /\ call.kind = "line" /\ fmt_result # Fail

\* A line that was output is the beginning of the full line, as much of it as
\* leaves room for the end, then the CSI end sign if the colour is on, then
\* the whole newline sign: no piece is torn at another place, and no
\* character of an earlier line or end sign of vsnprintf is among it.  When
\* every question of the line met the same format, the full line is the one
\* of that format; when elog_set_fmt came in between, it may be a line of
\* none (elog_output, elog.c:599-725; elog_set_fmt, 327-331).
LineWhole ==
    LineDone /\ out # <<>> =>
        /\ out = Kept \o When("end" \in colored, Fixed("csi_end"))
                      \o Fixed("newline")
        /\ \A f \in fmts : fmts = {f} =>
              chosen = When("begin" \in colored, ColorStrings(call))
                       \o HeadStrings(call, f)

\* A raw text shorter than the buffer is output as it is; a longer one is cut
\* to the buffer, whose last character is the end sign (elog.c:533-541).
RawWhole ==
    pc = "done" /\ call = RawCall /\ fmt_result # Fail =>
        IF fmt_result < Size
        THEN out = StrOf("text", 0, fmt_result)
        ELSE out = StrOf("text", 0, Size - 1) \o <<Nul>>

\* Neither a line nor a raw text is ever torn (elog.c:533-541, 599-731).
OutputWhole == LineWhole /\ RawWhole

\* What is put out is what the call wrote: no character that an earlier line
\* left in log_buf and no end sign, in lines and in the rows of a dump whose
\* header may be longer than the buffer (elog.c:674-697, 898-930).
OutFresh ==
    pc \in {"next", "row", "done"} /\ call # RawCall /\ fmt_result # Fail =>
        \A k \in DOMAIN out : out[k] \notin {Stale, Nul}

\* The keyword filter outputs a line exactly when the keyword is in the part
\* of the line that is output: not when it is only in what the reserve cuts
\* off or in what an earlier line left in the buffer (elog.c:698-708).
KeywordExact ==
    LineDone /\ call.keyword # <<>> =>
        (out # <<>> <=>
            \E k \in 0 .. Len(Kept) - Len(call.keyword) :
                SubSeq(Kept, k + 1, k + Len(call.keyword)) = call.keyword)

\* The dump's counters reach the end of the data without wrapping.
RowsNeeded(c) == (c.size + c.width - 1) \div c.width
Ends(c) == c.kind = "dump" =>
    c.width > 0 /\ (c.size = 0 \/ RowsNeeded(c) * c.width < Wrap)

\* the cells of seq that are of the string s
Only(seq, s) ==
    FlattenSeq([k \in 1 .. Len(seq) |-> When(seq[k][1] = s, <<seq[k]>>)])

\* The rows of a dump show the bytes from the first to the last, each one
\* once, in hex and as a character, as far as a row has room in the buffer
\* (elog_hexdump, elog.c:896-925).
DumpExact ==
    call.kind = "dump" /\ Ends(call) =>
        LET first == (rows - 1) * call.width
            n == Least(call.width, call.size - first)
            hex == Only(out, "hex")
            char == Only(out, "char")
        IN  /\ pc = "next" /\ fmt_result # Fail =>
                /\ IsPrefix(hex, [k \in 1 .. 3 * n |->
                        <<"hex", first + (k - 1) \div 3, ((k - 1) % 3) + 1>>])
                /\ IsPrefix(char, [k \in 1 .. n |->
                        <<"char", first + k - 1, 1>>])
                /\ Len(out) < Size => Len(hex) = 3 * n /\ Len(char) = n
            /\ pc = "done" =>
                rows = IF call.size = 0 THEN 0 ELSE RowsNeeded(call)

LogColored == LineDone /\ out # <<>> /\ "begin" \in colored
HeadLen == StrLen["csi_start"] + StrLen["color"] + StrLen["level"]

\* elog_find_lvl finds the level in every line that began with a colour long
\* enough to hold it (elog.c:786-819).
LevelFound ==
    LogColored /\ StrLen["csi_start"] + StrLen["color"] <= Size - Reserve =>
        ElogFindLvl(out) = call.level

\* elog_find_tag finds the whole tag, of any length below the limit, in every
\* such line whose format had the level and the tag (elog.c:822-861).
TagFound ==
    /\ LogColored /\ \A f \in fmts : {"LVL", "TAG"} \subseteq f
    /\ call.tag < TagMax /\ HeadLen + call.tag < Size - Reserve
    => ElogFindTag(out) = StrOf("tag", call.tag, call.tag)

\* What a port asks of the lines it is given, to filter or to store them, is
\* answered with the level and the tag they were logged with (elog.c:786-861).
FoundAgain == LevelFound /\ TagFound

\* Every call returns, a dump if its counters can reach the end of the data
\* (elog.c:896: another one never ends, with the output lock held).
LineReturns == (pc # "idle" /\ Ends(call)) ~> (pc = "idle")
=============================================================================
