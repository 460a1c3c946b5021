--------------------------- MODULE ElogLineProofs ---------------------------
(***************************************************************************)
(* The line buffer of EasyLogger is never overrun and what is put out is   *)
(* what the call wrote, for any buffer size, strings and texts and any     *)
(* formats set while a line asks for them.                                 *)
(*                                                                         *)
(* LineIInv says where the buffer ends and that what is in use of it was   *)
(* written by this call.  TextIInv says what was written: at each step the *)
(* buffer holds the joined strings copied so far, then the ideal line, its *)
(* part that is kept, and its end.  How strings are joined is proved by    *)
(* induction, from the least number for which it would be wrong; from it   *)
(* follow what a dump shows and what elog_find_lvl and elog_find_tag read. *)
(* BeginsInv and FmtInv say which strings have been chosen: as long as all *)
(* questions met one format, those of that format (Rest) are still to come.*)
(***************************************************************************)
EXTENDS ElogLine, SequenceTheorems, WellFoundedInduction, TLAPS

\* The variables of a line's pieces change in the actions that name them.
USE DEF head

\* The characters the code writes, and what a place of log_buf can hold
Sources == StrNames \cup {"tag", "text", "header", "hex", "char",
                          " ", "] ", "[", "(", ":", ")"}
Chars == Sources \X Nat \X Nat
Buffers == [0 .. Size - 1 -> Chars \cup {Stale, Nul}]
Strs == Seq(Chars)

\* The variables' ranges
LineRanges ==
    /\ pc \in {"idle", "package", "reserve", "filter", "end", "newline",
               "row", "next", "done"}
    /\ call \in LineCalls \cup {RawCall} \cup DumpCalls
    /\ log_buf \in Buffers
    /\ log_len \in Nat
    /\ todo \in Seq(Strs) /\ chosen \in Seq(Strs)
    /\ fmt_result \in Nat \cup {Fail}
    /\ i \in Nat

\* Where control can be in which call; a line has put out nothing before its
\* end.
LinePlaces ==
    /\ pc = "idle" => log_len = 0 /\ call = RawCall
    /\ pc = "idle" => fmts = {} /\ point = "text"
    /\ point # "text" => pc = "package" /\ call.kind = "line"
    /\ pc \in {"reserve", "filter", "end"} => call.kind = "line"
    /\ pc = "package" => call # RawCall
    /\ pc \in {"row", "next"} => call.kind = "dump"
    /\ pc = "idle" \/ (call.kind = "line" /\ pc # "done") => out = <<>>

\* The part of the buffer in use holds what the call wrote; until room has
\* been reserved its last place may hold the end sign.
InUse ==
    fmt_result # Fail =>
        /\ pc \in {"package", "reserve"} =>
            \A k \in 0 .. Size - 2 : k < log_len => log_buf[k] \in Chars
        /\ pc \in {"filter", "end", "newline"} =>
            \A k \in 0 .. Size - 1 : k < log_len => log_buf[k] \in Chars

OutInv ==
    pc \in {"next", "row", "done"} /\ call # RawCall /\ fmt_result # Fail =>
        \A k \in DOMAIN out : out[k] \in Chars

\* vsnprintf has not failed before it is called.
LineBegun ==
    pc = "idle" \/ (pc = "package" /\ call.kind = "line") => fmt_result # Fail

LineIInv == LineRanges /\ LinePlaces /\ LineBounded /\ InUse /\ OutInv /\ LineBegun

\* The end sign and stale characters are not among those the code writes.
LEMMA NotChars == Stale \notin Chars /\ Nul \notin Chars
BY DEF Stale, Nul, Chars, Sources, StrNames

-----------------------------------------------------------------------------
(* The strings *)

LEMMA StrOfIsStr ==
  ASSUME NEW s \in Sources, NEW x \in Nat, NEW n \in Nat
  PROVE  StrOf(s, x, n) \in Strs /\ Len(StrOf(s, x, n)) = n
<1>1. \A k \in 1 .. n : <<s, x, k>> \in Chars
  BY DEF Chars
<1> QED
  BY <1>1 DEF StrOf, Strs

LEMMA FixedIsStr == ASSUME NEW s \in StrNames PROVE Fixed(s) \in Strs
BY StrOfIsStr, LineAssumption DEF Fixed, Sources

LEMMA MarkIsStr == ASSUME NEW s \in Sources PROVE Mark(s) \in Strs
BY StrOfIsStr DEF Mark

LEMMA NoneIsStrs == <<>> \in Seq(Strs) /\ <<>> \in Strs
BY EmptySeq DEF Strs

LEMMA OneIsStrs == \A s \in Strs : <<s>> \in Seq(Strs)
OBVIOUS

LEMMA ThreeAreStrs ==
  ASSUME NEW a \in Strs, NEW b \in Strs, NEW c \in Strs
  PROVE  <<a, b, c>> \in Seq(Strs)
OBVIOUS

LEMMA ConcatIsStrs ==
  ASSUME NEW a \in Seq(Strs), NEW b \in Seq(Strs) PROVE a \o b \in Seq(Strs)
BY ConcatProperties

LEMMA CallsInNat ==
  /\ Levels \subseteq Nat /\ TagLens \subseteq Nat
  /\ Widths \subseteq Nat /\ Sizes \subseteq Nat
  /\ Texts \subseteq Nat /\ Headers \subseteq Nat
<1>1. 0 .. 5 \subseteq Nat /\ 0 .. Wrap - 1 \subseteq Nat
  OBVIOUS
<1> QED
  BY <1>1, LineAssumption

\* The strings that elog_output chooses for a line
LEMMA LineNumIsStr == LineNum \in Strs
<1>1. Least(StrLen["line"], LineNumMax - 1) \in Nat
  BY LineAssumption DEF Least, StrNames
<1> QED
  BY <1>1, StrOfIsStr DEF LineNum, Sources, StrNames

LEMMA ColorIsStrs == ASSUME NEW c \in LineCalls PROVE ColorStrings(c) \in Seq(Strs)
<1>1. c.level \in Nat
  <2>1. c.level \in Levels
    BY DEF LineCalls
  <2> QED
    BY <2>1, CallsInNat
<1>2. Fixed("csi_start") \in Strs /\ StrOf("color", c.level, StrLen["color"]) \in Strs
  BY <1>1, FixedIsStr, StrOfIsStr, LineAssumption DEF StrNames, Sources
<1> QED
  BY <1>2 DEF ColorStrings

LEMMA LevelAndTagAreStrs ==
  ASSUME NEW c \in LineCalls
  PROVE  LevelString(c) \in Strs /\ TagStrings(c) \in Seq(Strs)
<1>0. c.level \in Levels /\ c.tag \in TagLens
  BY DEF LineCalls
<1>1. c.level \in Nat /\ c.tag \in Nat
  BY <1>0, CallsInNat
<1>2. LevelString(c) \in Strs
  <2>1. "level" \in Sources /\ StrLen["level"] \in Nat
    BY LineAssumption DEF Sources, StrNames
  <2> QED
    BY <1>1, <2>1, StrOfIsStr DEF LevelString
<1>3. TagStrings(c) \in Seq(Strs)
  <2> DEFINE fill == IF c.tag <= TagMax \div 2 THEN TagMax \div 2 - c.tag ELSE 0
  <2>1. fill \in Nat
    BY <1>1, LineAssumption
  <2>2. StrOf("tag", c.tag, c.tag) \in Strs /\ StrOf(" ", 0, fill) \in Strs
    BY <1>1, <2>1, StrOfIsStr DEF Sources
  <2>3. Space \in Strs
    BY MarkIsStr DEF Sources, Space
  <2>4. <<StrOf("tag", c.tag, c.tag), StrOf(" ", 0, fill), Space>> \in Seq(Strs)
    BY <2>2, <2>3, ThreeAreStrs
  <2> QED
    BY <2>4 DEF TagStrings
<1> QED
  BY <1>2, <1>3

LEMMA TwoAreStrs == ASSUME NEW a \in Strs, NEW b \in Strs PROVE <<a, b>> \in Seq(Strs)
OBVIOUS

\* The answers to the questions about the format
LEMMA AnswersAreStrs ==
  /\ \A c \in LineCalls : <<LevelString(c)>> \in Seq(Strs) /\ TagStrings(c) \in Seq(Strs)
  /\ <<Mark("[")>> \in Seq(Strs) /\ <<Space>> \in Seq(Strs)
  /\ <<Mark("(")>> \in Seq(Strs) /\ <<Mark(")")>> \in Seq(Strs)
  /\ <<Mark(":")>> \in Seq(Strs) /\ <<BracketEnd>> \in Seq(Strs)
  /\ <<Fixed("time")>> \in Seq(Strs) /\ <<Fixed("p_info")>> \in Seq(Strs)
  /\ <<Fixed("t_info")>> \in Seq(Strs) /\ <<Fixed("file")>> \in Seq(Strs)
  /\ <<Fixed("func")>> \in Seq(Strs) /\ <<LineNum>> \in Seq(Strs)
  /\ <<Fixed("t_info"), BracketEnd>> \in Seq(Strs)
  /\ <<Fixed("func"), Mark(")")>> \in Seq(Strs)
  /\ <<>> \in Seq(Strs)
<1>1. /\ Mark("[") \in Strs /\ Space \in Strs /\ Mark("(") \in Strs
      /\ Mark(")") \in Strs /\ Mark(":") \in Strs
  BY MarkIsStr DEF Sources, Space
<1>2. BracketEnd \in Strs
  BY StrOfIsStr DEF Sources, BracketEnd
<1>3. /\ Fixed("time") \in Strs /\ Fixed("p_info") \in Strs /\ Fixed("t_info") \in Strs
      /\ Fixed("file") \in Strs /\ Fixed("func") \in Strs
  BY FixedIsStr DEF StrNames
<1>4. <<Fixed("t_info"), BracketEnd>> \in Seq(Strs)
  BY <1>2, <1>3, TwoAreStrs
<1>5. <<Fixed("func"), Mark(")")>> \in Seq(Strs)
  BY <1>1, <1>3, TwoAreStrs
<1> QED
  BY <1>1, <1>2, <1>3, <1>4, <1>5, LineNumIsStr, LevelAndTagAreStrs, OneIsStrs, NoneIsStrs

\* The strings of a row: the bytes in hex, a gap, the characters
ByteString(c, offset, j) ==
    IF offset + j < c.size THEN StrOf("hex", offset + j, 3) ELSE StrOf(" ", 0, 3)
HexStrings(c, offset) ==
    [j \in 1 .. c.width |->
        ByteString(c, offset, j - 1) \o When(j % Group = 0, Mark(" "))]
CharStrings(c, offset) ==
    [j \in 1 .. c.width |->
        When(offset + j - 1 < c.size, <<<<"char", offset + j - 1, 1>>>>)]

LEMMA RowParts ==
  ASSUME NEW c \in DumpCalls, NEW offset \in Nat
  PROVE  /\ c.width \in Nat /\ c.size \in Nat
         /\ HexStrings(c, offset) \in Seq(Strs) /\ Len(HexStrings(c, offset)) = c.width
         /\ CharStrings(c, offset) \in Seq(Strs) /\ Len(CharStrings(c, offset)) = c.width
         /\ \A j \in 1 .. c.width : /\ ByteString(c, offset, j - 1) \in Strs
                                    /\ When(j % Group = 0, Mark(" ")) \in Strs
<1>0. c.width \in Nat /\ c.size \in Nat
  <2>1. c.width \in Widths /\ c.size \in Sizes
    BY DEF DumpCalls
  <2> QED
    BY <2>1, CallsInNat
<1>1. ASSUME NEW j \in 1 .. c.width
      PROVE  /\ ByteString(c, offset, j - 1) \in Strs
             /\ When(j % Group = 0, Mark(" ")) \in Strs
             /\ HexStrings(c, offset)[j] \in Strs
  <2>1. StrOf("hex", offset + (j - 1), 3) \in Strs /\ StrOf(" ", 0, 3) \in Strs
    <3>1. offset + (j - 1) \in Nat
      BY <1>0
    <3> QED
      BY <3>1, StrOfIsStr DEF Sources
  <2>2. ByteString(c, offset, j - 1) \in Strs
    BY <2>1 DEF ByteString
  <2>3. When(j % Group = 0, Mark(" ")) \in Strs
    BY MarkIsStr, EmptySeq DEF When, Strs, Sources
  <2>4. ByteString(c, offset, j - 1) \o When(j % Group = 0, Mark(" ")) \in Strs
    BY <2>2, <2>3, ConcatProperties DEF Strs
  <2> QED
    BY <2>2, <2>3, <2>4 DEF HexStrings
<1>2. ASSUME NEW j \in 1 .. c.width
      PROVE  CharStrings(c, offset)[j] \in Strs
  <2>1. <<"char", offset + j - 1, 1>> \in Chars
    <3>1. offset + j - 1 \in Nat
      BY <1>0
    <3> QED
      BY <3>1 DEF Chars, Sources
  <2>2. When(offset + j - 1 < c.size, <<<<"char", offset + j - 1, 1>>>>) \in Strs
    BY <2>1, EmptySeq DEF When, Strs
  <2> QED
    BY <2>2 DEF CharStrings
<1>3. /\ HexStrings(c, offset) \in [1 .. c.width -> Strs]
      /\ CharStrings(c, offset) \in [1 .. c.width -> Strs]
  <2>1. HexStrings(c, offset) \in [1 .. c.width -> Strs]
    BY <1>1 DEF HexStrings
  <2>2. CharStrings(c, offset) \in [1 .. c.width -> Strs]
    BY <1>2 DEF CharStrings
  <2> QED
    BY <2>1, <2>2
<1>4. /\ HexStrings(c, offset) \in Seq(Strs) /\ Len(HexStrings(c, offset)) = c.width
      /\ CharStrings(c, offset) \in Seq(Strs) /\ Len(CharStrings(c, offset)) = c.width
  BY <1>0, <1>3
<1> QED
  BY <1>0, <1>1, <1>4

LEMMA RowIsStrs ==
  ASSUME NEW c \in DumpCalls, NEW offset \in Nat
  PROVE  /\ RowStrings(c, offset) \in Seq(Strs)
         /\ StrOf(" ", 0, 2) \in Strs
         /\ RowStrings(c, offset) =
                (HexStrings(c, offset) \o <<StrOf(" ", 0, 2)>>) \o CharStrings(c, offset)
<1> DEFINE gap == StrOf(" ", 0, 2)
<1>1. gap \in Strs
  BY StrOfIsStr DEF Sources
<1>2. RowStrings(c, offset) =
          (HexStrings(c, offset) \o <<gap>>) \o CharStrings(c, offset)
  BY DEF RowStrings, HexStrings, CharStrings, ByteString
<1> HIDE DEF gap
<1>3. HexStrings(c, offset) \in Seq(Strs) /\ CharStrings(c, offset) \in Seq(Strs)
  BY RowParts
<1>4. (HexStrings(c, offset) \o <<gap>>) \o CharStrings(c, offset) \in Seq(Strs)
  BY <1>1, <1>3, OneIsStrs, ConcatIsStrs
<1> QED
  BY <1>1, <1>2, <1>4 DEF gap

-----------------------------------------------------------------------------
(* The buffer *)

LEMMA SizeInNat ==
  /\ Size \in Nat \ {0} /\ Reserve \in Nat /\ Reserve < Size
  /\ StrLen["newline"] \in Nat \ {0} /\ StrLen["csi_end"] \in Nat
  /\ Reserve = StrLen["csi_end"] + StrLen["newline"]
<1>1. StrLen["newline"] \in Nat /\ StrLen["csi_end"] \in Nat
  BY LineAssumption DEF StrNames
<1> QED
  BY <1>1, LineAssumption DEF Reserve

\* elog_strcpy copies no more than the string and the room left have
\* (elog_utils.c:47-55).
LEMMA CopiedFits ==
  ASSUME NEW at \in Nat, at <= Size, NEW str \in Strs
  PROVE  /\ Copied(at, str) \in Nat /\ Copied(at, str) <= Len(str)
         /\ at + Copied(at, str) <= Size
<1>1. Len(str) \in Nat
  BY LenProperties DEF Strs
<1> QED
  BY <1>1, SizeInNat DEF Copied, Least

\* The first n characters of a string
LEMMA PrefixIsStr ==
  ASSUME NEW str \in Strs, NEW n \in Nat, n <= Len(str)
  PROVE  SubSeq(str, 1, n) \in Strs /\ Len(SubSeq(str, 1, n)) = n
<1>1. Len(str) \in Nat
  BY LenProperties DEF Strs
<1>2. \A k \in 1 .. n : str[k] \in Chars
  BY <1>1, ElementOfSeq DEF Strs
<1> QED
  BY <1>2, SubSeqProperties DEF Strs

\* Writing changes the places from at on and no others.
LEMMA WriteInBuffer ==
  ASSUME NEW buf \in Buffers, NEW at \in Nat,
         NEW str \in Seq(Chars \cup {Stale, Nul})
  PROVE  /\ Write(buf, at, str) \in Buffers
         /\ \A k \in 0 .. Size - 1 :
              Write(buf, at, str)[k] = IF k >= at /\ k < at + Len(str)
                                       THEN str[k - at + 1] ELSE buf[k]
<1>1. Len(str) \in Nat
  BY LenProperties
<1>2. ASSUME NEW k \in 0 .. Size - 1
      PROVE  (IF k >= at /\ k < at + Len(str) THEN str[k - at + 1] ELSE buf[k])
                \in Chars \cup {Stale, Nul}
  <2>1. CASE k >= at /\ k < at + Len(str)
    <3>1. k - at + 1 \in 1 .. Len(str)
      BY <1>1, <2>1
    <3> QED
      BY <2>1, <3>1, ElementOfSeq
  <2> QED
    BY <2>1 DEF Buffers
<1> QED
  BY <1>2 DEF Write, Buffers

\* A copied string extends the part of the buffer that the call wrote.
LEMMA CopyExtends ==
  ASSUME NEW buf \in Buffers, NEW at \in Nat, at <= Size, NEW str \in Strs,
         NEW n, n = Copied(at, str), NEW b, b = Write(buf, at, SubSeq(str, 1, n)),
         NEW top \in 0 .. Size,
         \A k \in 0 .. top - 1 : k < at => buf[k] \in Chars
  PROVE  /\ b \in Buffers
         /\ \A k \in 0 .. top - 1 : k < at + n => b[k] \in Chars
<1> DEFINE s == SubSeq(str, 1, n)
<1>1. n \in Nat /\ n <= Len(str) /\ at + n <= Size
  BY CopiedFits
<1>2. s \in Strs /\ Len(s) = n
  BY <1>1, PrefixIsStr
<1>3. s \in Seq(Chars \cup {Stale, Nul})
  BY <1>2, SeqMonotonic DEF Strs
<1> HIDE DEF s
<1>4. /\ b \in Buffers
      /\ \A k \in 0 .. Size - 1 :
            b[k] = IF k >= at /\ k < at + n THEN s[k - at + 1] ELSE buf[k]
  <2>1. /\ Write(buf, at, s) \in Buffers
        /\ \A k \in 0 .. Size - 1 :
              Write(buf, at, s)[k] = IF k >= at /\ k < at + Len(s)
                                     THEN s[k - at + 1] ELSE buf[k]
    BY <1>3, WriteInBuffer
  <2>2. b = Write(buf, at, s)
    BY DEF s
  <2> QED
    BY <1>2, <2>1, <2>2
<1>5. ASSUME NEW k \in 0 .. top - 1, k < at + n
      PROVE  b[k] \in Chars
  <2>1. k \in 0 .. Size - 1
    BY SizeInNat
  <2>2. CASE k >= at
    <3>1. b[k] = s[k - at + 1]
      BY <1>4, <1>5, <2>1, <2>2
    <3>2. k - at + 1 \in 1 .. Len(s)
      BY <1>1, <1>2, <1>5, <2>2
    <3> QED
      BY <3>1, <3>2, <1>2, ElementOfSeq DEF Strs
  <2>3. CASE ~(k >= at)
    BY <1>4, <2>1, <2>3
  <2> QED
    BY <2>2, <2>3
<1> QED
  BY <1>4, <1>5

\* snprintf leaves its end sign behind the part in use, or on the last place
\* of the buffer.
LEMMA PrintExtends ==
  ASSUME NEW buf \in Buffers, NEW at \in Nat, at <= Size, NEW str \in Strs,
         \A k \in 0 .. Size - 2 : k < at => buf[k] \in Chars
  PROVE  /\ Snprintf(buf, at, Size - at, str) \in Buffers
         /\ LenAfter(at, Len(str)) \in Nat /\ LenAfter(at, Len(str)) <= Size
         /\ \A k \in 0 .. Size - 2 :
                k < LenAfter(at, Len(str)) =>
                    Snprintf(buf, at, Size - at, str)[k] \in Chars
<1>1. Len(str) \in Nat
  BY LenProperties DEF Strs
<1>2. LenAfter(at, Len(str)) \in Nat /\ LenAfter(at, Len(str)) <= Size
  BY <1>1, SizeInNat DEF LenAfter
<1>3. CASE at = Size
  BY <1>2, <1>3, SizeInNat DEF Snprintf
<1>4. CASE at < Size
  <2> DEFINE n == Least(Len(str), Size - at - 1)
             s == SubSeq(str, 1, n) \o <<Nul>>
             b == Write(buf, at, s)
  <2>1. n \in Nat /\ n <= Len(str) /\ n <= Size - at - 1
    BY <1>1, <1>4, SizeInNat DEF Least
  <2>2. Snprintf(buf, at, Size - at, str) = b
    BY <1>4, SizeInNat DEF Snprintf
  <2>3. SubSeq(str, 1, n) \in Strs /\ Len(SubSeq(str, 1, n)) = n
    BY <2>1, PrefixIsStr
  <2> HIDE DEF n
  <2>4. /\ s \in Seq(Chars \cup {Stale, Nul}) /\ Len(s) = n + 1
        /\ \A k \in 1 .. n : s[k] \in Chars
    <3>1. SubSeq(str, 1, n) \in Seq(Chars \cup {Stale, Nul})
      BY <2>3, SeqMonotonic DEF Strs
    <3>2. <<Nul>> \in Seq(Chars \cup {Stale, Nul}) /\ Len(<<Nul>>) = 1
      OBVIOUS
    <3>3. /\ s \in Seq(Chars \cup {Stale, Nul}) /\ Len(s) = n + 1
          /\ \A k \in 1 .. n + 1 :
                s[k] = IF k <= n THEN SubSeq(str, 1, n)[k] ELSE <<Nul>>[k - n]
      BY <2>1, <2>3, <3>1, <3>2, ConcatProperties
    <3>4. \A k \in 1 .. n : SubSeq(str, 1, n)[k] \in Chars
      BY <2>3, ElementOfSeq DEF Strs
    <3> QED
      BY <2>1, <3>3, <3>4
  <2> HIDE DEF s
  <2>5. /\ b \in Buffers
        /\ \A k \in 0 .. Size - 1 :
              b[k] = IF k >= at /\ k < at + (n + 1) THEN s[k - at + 1] ELSE buf[k]
    <3>1. /\ Write(buf, at, s) \in Buffers
          /\ \A k \in 0 .. Size - 1 :
                Write(buf, at, s)[k] = IF k >= at /\ k < at + Len(s)
                                       THEN s[k - at + 1] ELSE buf[k]
      BY <2>4, WriteInBuffer
    <3> QED
      BY <2>4, <3>1
  <2> HIDE DEF b
  <2>6. ASSUME NEW k \in 0 .. Size - 2, k < LenAfter(at, Len(str))
        PROVE  b[k] \in Chars
    <3>0. k \in 0 .. Size - 1
      BY SizeInNat
    <3>1. CASE k < at
      BY <2>5, <3>0, <3>1
    <3>2. CASE k >= at
      <4>1. k < at + n
        BY <1>1, <1>4, <2>6, <3>2, SizeInNat DEF n, Least, LenAfter, Fail
      <4>2. b[k] = s[k - at + 1] /\ k - at + 1 \in 1 .. n
        BY <2>1, <2>5, <3>0, <3>2, <4>1
      <4> QED
        BY <2>4, <4>2
    <3> QED
      BY <3>1, <3>2
  <2> QED
    BY <1>2, <2>2, <2>5, <2>6
<1> QED
  BY <1>3, <1>4, SizeInNat

LEMMA StaleIsBuffer == StaleBuf \in Buffers
BY DEF StaleBuf, Buffers

-----------------------------------------------------------------------------
(* The invariant *)

LEMMA InitInv == LineInit => LineIInv
<1>1. <<>> \in Seq(Strs)
  BY EmptySeq
<1> QED
  BY <1>1, StaleIsBuffer, SizeInNat
     DEF LineInit, LineIInv, LineRanges, LinePlaces, LineBounded, InUse, OutInv,
         LineBegun, RawCall, Fail

\* What every case below starts from
LEMMA InvFacts ==
  ASSUME LineIInv
  PROVE  /\ log_buf \in Buffers /\ log_len \in Nat /\ log_len <= Size
         /\ todo \in Seq(Strs) /\ chosen \in Seq(Strs)
         /\ i \in Nat /\ fmt_result \in Nat \cup {Fail}
         /\ call \in LineCalls \cup {RawCall} \cup DumpCalls
BY DEF LineIInv, LineRanges, LineBounded

LEMMA Kinds ==
  /\ \A c \in LineCalls : c.kind = "line" /\ c # RawCall
  /\ \A c \in DumpCalls : c.kind = "dump" /\ c # RawCall
  /\ RawCall.kind = "raw"
BY DEF LineCalls, DumpCalls, RawCall

LEMMA OutputInv == ASSUME LineIInv, NEW c \in LineCalls, ElogOutput(c) PROVE LineIInv'
<1>1. todo' \in Seq(Strs) /\ chosen' \in Seq(Strs)
  BY ColorIsStrs, NoneIsStrs DEF ElogOutput, When
<1>2. LineRanges'
  BY <1>1, InvFacts DEF ElogOutput, LineIInv, LineRanges
<1> QED
  BY <1>2, Kinds, SizeInNat
     DEF ElogOutput, LineIInv, LineRanges, LinePlaces, LineBounded, InUse, OutInv,
         LineBegun

LEMMA RawInv ==
  ASSUME LineIInv, NEW n \in Texts \cup {Fail}, ElogRawOutput(n) PROVE LineIInv'
<1>0. n \in Nat \cup {Fail}
  BY CallsInNat
<1>1. log_buf' \in Buffers /\ log_len' \in Nat /\ log_len' <= Size
  <2>1. CASE n = Fail
    BY <2>1, InvFacts, SizeInNat DEF ElogRawOutput, LenAfter
  <2>2. CASE n # Fail
    <3>1. n \in Nat
      BY <1>0, <2>2
    <3>2. StrOf("text", 0, n) \in Strs /\ Len(StrOf("text", 0, n)) = n
      BY <3>1, StrOfIsStr DEF Sources
    <3>3. \A k \in 0 .. Size - 2 : k < 0 => log_buf[k] \in Chars
      OBVIOUS
    <3>4. /\ Snprintf(log_buf, 0, Size - 0, StrOf("text", 0, n)) \in Buffers
          /\ LenAfter(0, n) \in Nat /\ LenAfter(0, n) <= Size
      BY <3>2, <3>3, InvFacts, PrintExtends, SizeInNat, SMTT(30)
    <3> QED
      BY <2>2, <3>4, SizeInNat DEF ElogRawOutput
  <2> QED
    BY <2>1, <2>2
<1>2. call' = RawCall
  BY DEF ElogRawOutput, LineIInv, LinePlaces
<1> QED
  BY <1>0, <1>1, <1>2, Kinds
     DEF ElogRawOutput, LineIInv, LineRanges, LinePlaces, LineBounded, InUse, OutInv,
         LineBegun

LEMMA DumpInv == ASSUME LineIInv, NEW c \in DumpCalls, ElogHexdump(c) PROVE LineIInv'
BY Kinds, SizeInNat
   DEF ElogHexdump, LineIInv, LineRanges, LinePlaces, LineBounded, InUse, OutInv,
         LineBegun

\* One question: what is chosen is still to be copied.
LEMMA TakeInv ==
  ASSUME LineIInv, NEW at, at # "text", NEW on, NEW yes \in Seq(Strs), NEW then,
         NEW no \in Seq(Strs), NEW other, Take(at, on, yes, then, no, other)
  PROVE  LineIInv'
<1>1. todo' \in Seq(Strs)
  BY DEF Take
<1>2. chosen' \in Seq(Strs)
  BY <1>1, InvFacts, ConcatIsStrs DEF Take
<1>3. LineRanges'
  BY <1>1, <1>2 DEF Take, LineIInv, LineRanges
<1>4. LinePlaces'
  BY DEF Take, LineIInv, LinePlaces
<1> QED
  BY <1>3, <1>4 DEF Take, LineIInv, LineBounded, InUse, OutInv, LineBegun

LEMMA AskInv ==
  ASSUME LineIInv, AskLevelAndTag \/ AskInfo \/ AskPlace
  PROVE  LineIInv'
<1>0. call \in LineCalls
  <2>1. point # "text"
    BY DEF AskLevelAndTag, AskInfo, AskPlace, Ask, AskUsed, Take
  <2> QED
    BY <2>1, InvFacts, Kinds DEF LineIInv, LinePlaces
<1>1. CASE AskLevelAndTag
  BY <1>0, <1>1, TakeInv, AnswersAreStrs DEF AskLevelAndTag, Ask
<1>2. CASE AskInfo
  BY <1>2, TakeInv, AnswersAreStrs DEF AskInfo, Ask
<1>3. CASE AskPlace
  BY <1>3, TakeInv, AnswersAreStrs DEF AskPlace, AskUsed
<1> QED
  BY <1>1, <1>2, <1>3

\* What one elog_strcpy does to the buffer and log_len
LEMMA CopyStep ==
  ASSUME LineIInv, NEW str \in Strs,
         log_buf' = Write(log_buf, log_len, SubSeq(str, 1, Copied(log_len, str))),
         log_len' = log_len + Copied(log_len, str)
  PROVE  /\ log_buf' \in Buffers
         /\ log_len' \in Nat /\ log_len' <= Size /\ log_len' <= log_len + Len(str)
         /\ \A top \in 0 .. Size :
              (\A k \in 0 .. top - 1 : k < log_len => log_buf[k] \in Chars)
              => (\A k \in 0 .. top - 1 : k < log_len' => log_buf'[k] \in Chars)
<1> DEFINE n == Copied(log_len, str)
           b == log_buf'
<1>1. log_buf \in Buffers /\ log_len \in Nat /\ log_len <= Size
  BY InvFacts
<1>2. n \in Nat /\ n <= Len(str) /\ log_len + n <= Size
  BY <1>1, CopiedFits
<1>3. n = Copied(log_len, str) /\ b = Write(log_buf, log_len, SubSeq(str, 1, n))
  OBVIOUS
<1> HIDE DEF b, n
<1>4. ASSUME NEW top \in 0 .. Size,
             \A k \in 0 .. top - 1 : k < log_len => log_buf[k] \in Chars
      PROVE  /\ b \in Buffers
             /\ \A k \in 0 .. top - 1 : k < log_len + n => b[k] \in Chars
  BY <1>1, <1>3, <1>4, CopyExtends
<1>5. b \in Buffers
  <2>1. 0 \in 0 .. Size /\ \A k \in 0 .. 0 - 1 : k < log_len => log_buf[k] \in Chars
    BY SizeInNat
  <2> QED
    BY <1>4, <2>1
<1>6. Len(str) \in Nat
  BY LenProperties DEF Strs
<1> QED
  BY <1>1, <1>2, <1>4, <1>5, <1>6 DEF b, n

LEMMA PackageInv == ASSUME LineIInv, Package PROVE LineIInv'
<1>1. Head(todo) \in Strs /\ Tail(todo) \in Seq(Strs)
  BY InvFacts, HeadTailProperties DEF Package
<1>2. /\ log_buf' = Write(log_buf, log_len,
                          SubSeq(Head(todo), 1, Copied(log_len, Head(todo))))
      /\ log_len' = log_len + Copied(log_len, Head(todo))
  BY DEF Package
<1>3. fmt_result # Fail => \A k \in 0 .. (Size - 1) - 1 : k < log_len => log_buf[k] \in Chars
  BY SizeInNat DEF Package, LineIInv, InUse
<1>4. Size - 1 \in 0 .. Size /\ (Size - 1) - 1 = Size - 2
  BY SizeInNat
<1>5. log_buf' \in Buffers /\ log_len' \in Nat /\ log_len' <= Size
  BY <1>1, <1>2, CopyStep
<1>6. fmt_result # Fail =>
        \A k \in 0 .. (Size - 1) - 1 : k < log_len' => log_buf'[k] \in Chars
  BY <1>1, <1>2, <1>3, <1>4, CopyStep
<1>7. LineRanges' /\ LineBounded'
  BY <1>1, <1>5 DEF Package, LineIInv, LineRanges, LineBounded
<1>8. InUse'
  BY <1>4, <1>6 DEF Package, InUse
<1> QED
  BY <1>7, <1>8 DEF Package, LineIInv, LinePlaces, LineBegun, OutInv

LEMMA FormatInv == ASSUME LineIInv, FormatText PROVE LineIInv'
<1>1. PICK n \in Texts \cup {Fail} :
        /\ fmt_result' = n
        /\ log_buf' = IF n = Fail THEN log_buf
                      ELSE Snprintf(log_buf, log_len, Size - log_len,
                                    StrOf("text", 0, n))
        /\ log_len' = LenAfter(log_len, n)
  BY DEF FormatText
<1>2. n \in Nat \cup {Fail}
  BY CallsInNat
<1>3. /\ log_buf' \in Buffers /\ log_len' \in Nat /\ log_len' <= Size
      /\ n # Fail =>
            \A k \in 0 .. Size - 2 : k < log_len' => log_buf'[k] \in Chars
  <2>1. CASE n = Fail
    BY <1>1, <2>1, InvFacts, SizeInNat DEF LenAfter
  <2>2. CASE n # Fail
    <3>1. n \in Nat
      BY <1>2, <2>2
    <3>2. StrOf("text", 0, n) \in Strs /\ Len(StrOf("text", 0, n)) = n
      BY <3>1, StrOfIsStr DEF Sources
    <3>3. fmt_result # Fail
      BY DEF FormatText, LineIInv, LineBegun
    <3>4. \A k \in 0 .. Size - 2 : k < log_len => log_buf[k] \in Chars
      BY <3>3 DEF FormatText, LineIInv, InUse
    <3> QED
      BY <1>1, <2>2, <3>2, <3>4, InvFacts, PrintExtends
  <2> QED
    BY <2>1, <2>2
<1>4. LineRanges' /\ LineBounded'
  BY <1>1, <1>2, <1>3 DEF FormatText, LineIInv, LineRanges, LineBounded
<1>5. InUse'
  BY <1>1, <1>3 DEF FormatText, InUse
<1> QED
  BY <1>4, <1>5, <1>1 DEF FormatText, LineIInv, LinePlaces, LineBegun, OutInv

LEMMA ReserveInv == ASSUME LineIInv, ReserveEnd PROVE LineIInv'
<1>1. /\ log_len' \in Nat /\ log_len' <= log_len /\ log_len' + Reserve <= Size
      /\ log_len' < Size
  <2>1. log_len' = Least(log_len, Size - Reserve)
    BY DEF ReserveEnd
  <2>2. Size \in Nat /\ Reserve \in Nat /\ Reserve < Size /\ Reserve > 0
    BY SizeInNat
  <2>3. log_len \in Nat
    BY InvFacts
  <2> QED
    BY <2>1, <2>2, <2>3 DEF Least
<1>2. LineRanges' /\ LineBounded'
  BY <1>1, SizeInNat DEF ReserveEnd, LineIInv, LineRanges, LineBounded
<1>3. InUse'
  <2> SUFFICES ASSUME fmt_result # Fail, NEW k \in 0 .. Size - 1, k < log_len'
               PROVE  log_buf[k] \in Chars
    BY DEF ReserveEnd, InUse
  <2>1. k \in 0 .. Size - 2 /\ k < log_len
    <3>1. Size \in Nat /\ log_len \in Nat /\ log_len' \in Nat
      BY <1>1, InvFacts, SizeInNat
    <3>2. log_len' <= log_len /\ log_len' < Size
      BY <1>1
    <3>3. k \in Nat /\ k < log_len'
      BY <3>1
    <3> QED
      BY <3>1, <3>2, <3>3
  <2> QED
    BY <2>1 DEF ReserveEnd, LineIInv, InUse
<1> QED
  BY <1>2, <1>3 DEF ReserveEnd, LineIInv, LinePlaces, LineBegun, OutInv

LEMMA KeywordInv == ASSUME LineIInv, FilterKeyword PROVE LineIInv'
<1>1. log_len \in 0 .. Size - 1
  BY InvFacts, SizeInNat DEF FilterKeyword, LineIInv, LineBounded
<1>2. /\ log_buf' \in Buffers
      /\ \A k \in 0 .. Size - 1 : k < log_len => log_buf'[k] = log_buf[k]
  <2>1. CASE call.keyword = <<>>
    BY <2>1, InvFacts DEF FilterKeyword
  <2>2. CASE call.keyword # <<>>
    BY <2>2, <1>1, InvFacts DEF FilterKeyword, Buffers
  <2> QED
    BY <2>1, <2>2
<1>3. pc' \in {"end", "done"}
  BY DEF FilterKeyword
<1>4. LineRanges' /\ LineBounded'
  BY <1>1, <1>2, <1>3 DEF FilterKeyword, LineIInv, LineRanges, LineBounded
<1>5. InUse'
  BY <1>2, <1>3 DEF FilterKeyword, LineIInv, InUse
<1>6. call.kind = "line" /\ out = <<>>
  BY DEF FilterKeyword, LineIInv, LinePlaces
<1> QED
  BY <1>3, <1>4, <1>5, <1>6 DEF FilterKeyword, LineIInv, LinePlaces, LineBegun, OutInv

LEMMA EndInv == ASSUME LineIInv, AppendEnd PROVE LineIInv'
<1> DEFINE str == Fixed("csi_end")
<1>1. str \in Strs /\ Len(str) = StrLen["csi_end"]
  BY StrOfIsStr, SizeInNat DEF Fixed, Sources, StrNames
<1>2. log_len + Reserve <= Size
  BY DEF AppendEnd, LineIInv, LineBounded
<1>3. fmt_result # Fail => \A k \in 0 .. Size - 1 : k < log_len => log_buf[k] \in Chars
  BY DEF AppendEnd, LineIInv, InUse
<1>4. log_len \in Nat /\ log_buf \in Buffers
  BY InvFacts
<1>5. /\ log_buf' \in Buffers
      /\ log_len' \in Nat /\ log_len' + StrLen["newline"] <= Size
      /\ fmt_result # Fail =>
            \A k \in 0 .. Size - 1 : k < log_len' => log_buf'[k] \in Chars
  <2>1. CASE ~text_color_enabled
    BY <1>2, <1>3, <1>4, <2>1, SizeInNat DEF AppendEnd
  <2>2. CASE text_color_enabled
    <3>1. /\ log_buf' = Write(log_buf, log_len, SubSeq(str, 1, Copied(log_len, str)))
          /\ log_len' = log_len + Copied(log_len, str)
      BY <2>2 DEF AppendEnd
    <3> HIDE DEF str
    <3>2. log_buf' \in Buffers /\ log_len' \in Nat /\ log_len' <= log_len + Len(str)
      BY <1>1, <3>1, CopyStep
    <3>3. Size \in 0 .. Size
      BY SizeInNat
    <3>4. fmt_result # Fail =>
            \A k \in 0 .. Size - 1 : k < log_len' => log_buf'[k] \in Chars
      BY <1>1, <1>3, <3>1, <3>3, CopyStep
    <3> QED
      BY <1>1, <1>2, <1>4, <3>2, <3>4, SizeInNat
  <2> QED
    BY <2>1, <2>2
<1>6. LineRanges' /\ LineBounded'
  BY <1>5, SizeInNat DEF AppendEnd, LineIInv, LineRanges, LineBounded
<1>7. InUse'
  BY <1>5 DEF AppendEnd, InUse
<1> QED
  BY <1>6, <1>7 DEF AppendEnd, LineIInv, LinePlaces, LineBegun, OutInv

LEMMA NewlineInv == ASSUME LineIInv, AppendNewline PROVE LineIInv'
<1> DEFINE str == Fixed("newline")
<1>1. str \in Strs
  BY FixedIsStr DEF StrNames
<1>2. /\ log_buf' = Write(log_buf, log_len, SubSeq(str, 1, Copied(log_len, str)))
      /\ log_len' = log_len + Copied(log_len, str)
  BY DEF AppendNewline
<1>3. fmt_result # Fail => \A k \in 0 .. Size - 1 : k < log_len => log_buf[k] \in Chars
  BY DEF AppendNewline, LineIInv, InUse
<1>4. Size \in 0 .. Size
  BY SizeInNat
<1> HIDE DEF str
<1>5. log_buf' \in Buffers /\ log_len' \in Nat /\ log_len' <= Size
  BY <1>1, <1>2, CopyStep
<1>6. fmt_result # Fail =>
        \A k \in 0 .. Size - 1 : k < log_len' => log_buf'[k] \in Chars
  BY <1>1, <1>2, <1>3, <1>4, CopyStep
<1>7. pc' \in {"next", "done"} /\ (pc' = "next" => call.kind = "dump")
  BY DEF AppendNewline
<1>8. ASSUME fmt_result # Fail, NEW k \in DOMAIN out'
      PROVE  out'[k] \in Chars
  <2>1. out' = [j \in 1 .. log_len' |-> log_buf'[j - 1]]
    BY DEF AppendNewline, Line
  <2>2. k \in 1 .. log_len' /\ out'[k] = log_buf'[k - 1]
    BY <1>8, <2>1
  <2>3. k - 1 \in 0 .. Size - 1 /\ k - 1 < log_len'
    BY <1>4, <1>5, <2>2
  <2> QED
    BY <1>6, <1>8, <2>2, <2>3
<1>9. LineRanges' /\ LineBounded'
  BY <1>5, <1>7 DEF AppendNewline, LineIInv, LineRanges, LineBounded
<1>10. InUse' /\ OutInv' /\ LineBegun'
  BY <1>7, <1>8 DEF AppendNewline, InUse, OutInv, LineBegun
<1> QED
  BY <1>7, <1>9, <1>10 DEF AppendNewline, LineIInv, LinePlaces

LEMMA StartRowInv == ASSUME LineIInv, StartRow PROVE LineIInv'
<1>0. call \in DumpCalls
  BY InvFacts, Kinds DEF StartRow, LineIInv, LinePlaces
<1>1. CASE ~(i < call.size)
  BY <1>0, <1>1, Kinds
     DEF StartRow, LineIInv, LineRanges, LinePlaces, LineBounded, InUse, OutInv,
         LineBegun
<1>2. CASE i < call.size
  <2>1. PICK n \in Headers \cup {Fail} :
            /\ fmt_result' = n
            /\ log_buf' = IF n = Fail THEN StaleBuf
                          ELSE Snprintf(StaleBuf, 0, Size, StrOf("header", i, n))
            /\ log_len' = LenAfter(0, n)
            /\ todo' = RowStrings(call, i)
            /\ pc' = "package"
    BY <1>2 DEF StartRow
  <2>2. n \in Nat \cup {Fail}
    BY CallsInNat
  <2>3. todo' \in Seq(Strs)
    BY <1>0, <2>1, InvFacts, RowIsStrs
  <2>4. /\ log_buf' \in Buffers /\ log_len' \in Nat /\ log_len' <= Size
        /\ n # Fail =>
              \A k \in 0 .. Size - 2 : k < log_len' => log_buf'[k] \in Chars
    <3>1. CASE n = Fail
      BY <2>1, <3>1, StaleIsBuffer, SizeInNat DEF LenAfter
    <3>2. CASE n # Fail
      <4>1. n \in Nat
        BY <2>2, <3>2
      <4>2. StrOf("header", i, n) \in Strs /\ Len(StrOf("header", i, n)) = n
        BY <4>1, InvFacts, StrOfIsStr DEF Sources
      <4>3. \A k \in 0 .. Size - 2 : k < 0 => StaleBuf[k] \in Chars
        OBVIOUS
      <4>4. /\ Snprintf(StaleBuf, 0, Size - 0, StrOf("header", i, n)) \in Buffers
            /\ LenAfter(0, n) \in Nat /\ LenAfter(0, n) <= Size
            /\ \A k \in 0 .. Size - 2 : k < LenAfter(0, n) =>
                    Snprintf(StaleBuf, 0, Size - 0, StrOf("header", i, n))[k] \in Chars
        BY <4>2, <4>3, StaleIsBuffer, PrintExtends, SizeInNat
      <4>5. Size - 0 = Size
        BY SizeInNat
      <4> QED
        BY <2>1, <3>2, <4>4, <4>5
    <3> QED
      BY <3>1, <3>2
  <2>5. LineRanges' /\ LineBounded'
    BY <2>1, <2>2, <2>3, <2>4 DEF StartRow, LineIInv, LineRanges, LineBounded
  <2>6. InUse' /\ OutInv' /\ LineBegun'
    BY <1>0, <2>1, <2>4, Kinds DEF StartRow, InUse, OutInv, LineBegun
  <2> QED
    BY <1>0, <2>1, <2>5, <2>6, Kinds DEF StartRow, LineIInv, LinePlaces
<1> QED
  BY <1>1, <1>2

LEMMA ReserveRowInv == ASSUME LineIInv, ReserveRow PROVE LineIInv'
<1>0. Reserve \in Nat /\ StrLen["newline"] <= Reserve /\ Size - StrLen["newline"] \in Nat
  BY SizeInNat
<1>1. /\ log_len' \in Nat /\ log_len' <= log_len
      /\ log_len' + StrLen["newline"] <= Size
  BY <1>0, InvFacts, SizeInNat DEF ReserveRow, Least
<1>2. LineRanges' /\ LineBounded'
  BY <1>0, <1>1, SizeInNat DEF ReserveRow, LineIInv, LineRanges, LineBounded
<1>3. InUse'
  <2> SUFFICES ASSUME fmt_result # Fail, NEW k \in 0 .. Size - 1, k < log_len'
               PROVE  log_buf[k] \in Chars
    BY DEF ReserveRow, InUse
  <2>1. k \in 0 .. Size - 2 /\ k < log_len
    BY <1>1, InvFacts, SizeInNat
  <2> QED
    BY <2>1 DEF ReserveRow, LineIInv, InUse
<1> QED
  BY <1>2, <1>3 DEF ReserveRow, LineIInv, LinePlaces, LineBegun, OutInv

LEMMA NextRowInv == ASSUME LineIInv, NextRow PROVE LineIInv'
<1>1. call \in DumpCalls
  BY InvFacts, Kinds DEF NextRow, LineIInv, LinePlaces
<1>2. call.width \in Widths
  BY <1>1 DEF DumpCalls
<1>3. i' \in Nat
  <2>0. i \in Nat /\ call.width \in Nat
    BY <1>2, CallsInNat, InvFacts
  <2>1. i + call.width \in Nat
    BY <2>0
  <2>2. Wrap \in Nat \ {0}
    BY LineAssumption
  <2> QED
    BY <2>1, <2>2 DEF NextRow
<1> QED
  BY <1>3
     DEF NextRow, LineIInv, LineRanges, LinePlaces, LineBounded, InUse, OutInv,
         LineBegun

LEMMA ReturnInv == ASSUME LineIInv, Return PROVE LineIInv'
BY StaleIsBuffer, NoneIsStrs, SizeInNat
   DEF Return, LineIInv, LineRanges, LinePlaces, LineBounded, InUse, OutInv,
       LineBegun, Fail

LEMMA ColorInv == ASSUME LineIInv, SetTextColor PROVE LineIInv'
BY DEF SetTextColor, LineIInv, LineRanges, LinePlaces, LineBounded, InUse, OutInv,
       LineBegun

LEMMA SetFmtInv == ASSUME LineIInv, NEW set \in Fmts, SetFmt(set) PROVE LineIInv'
BY DEF SetFmt, LineIInv, LineRanges, LinePlaces, LineBounded, InUse, OutInv, LineBegun

LEMMA LineStep == LineIInv /\ [LineNext]_vars => LineIInv'
<1> SUFFICES ASSUME LineIInv, [LineNext]_vars PROVE LineIInv'
  OBVIOUS
<1>1. CASE Call
  BY <1>1, OutputInv, RawInv, DumpInv DEF Call
<1>2. CASE Step
  BY <1>2, AskInv, PackageInv, FormatInv, ReserveInv, KeywordInv, EndInv, NewlineInv,
     StartRowInv, ReserveRowInv, NextRowInv, ReturnInv DEF Step
<1>3. CASE SetTextColor
  BY <1>3, ColorInv
<1>4. CASE \E set \in Fmts : SetFmt(set)
  BY <1>4, SetFmtInv
<1>5. CASE UNCHANGED vars
  BY <1>5 DEF vars, LineIInv, LineRanges, LinePlaces, LineBounded, InUse, OutInv,
              LineBegun
<1> QED
  BY <1>1, <1>2, <1>3, <1>4, <1>5 DEF LineNext

LEMMA LineInvariance == LineSpec => []LineIInv
BY InitInv, LineStep, PTL DEF LineSpec

-----------------------------------------------------------------------------
(* Strings joined to one, by induction over their number *)

\* A set that has 0 and the successor of each of its numbers has every number:
\* the least number that it has not would have a predecessor.
LEMMA Induction ==
  ASSUME NEW T, 0 \in T, \A n \in Nat : n \in T => n + 1 \in T
  PROVE  \A n \in Nat : n \in T
<1> DEFINE R == OpToRel(<, Nat)
           M == {n \in Nat : n \notin T}
<1>1. \A x, y \in Nat : y < x => <<y, x>> \in R
  BY DEF OpToRel
<1>2. IsWellFoundedOn(R, Nat)
  BY NatLessThanWellFounded
<1> HIDE DEF R
<1>3. SUFFICES ASSUME M # {} PROVE FALSE
  OBVIOUS
<1>4. PICK x \in M : \A y \in M : ~ (<<y, x>> \in R)
  BY <1>2, <1>3, WFMin
<1>5. x \in Nat /\ x # 0
  OBVIOUS
<1>6. x - 1 \in Nat /\ x - 1 < x /\ (x - 1) + 1 = x
  BY <1>5
<1>7. x - 1 \in M
  BY <1>6
<1> QED
  BY <1>1, <1>4, <1>5, <1>6, <1>7

\* f holds what is copied after each string
Joins(s, f) ==
    /\ f \in [0 .. Len(s) -> Strs]
    /\ f[0] = <<>>
    /\ \A k \in 1 .. Len(s) : f[k] = f[k - 1] \o s[k]

\* FlattenSeq is the last of these strings.
LEMMA JoinsOne ==
  ASSUME NEW s \in Seq(Strs), NEW f, Joins(s, f), s # <<>>
  PROVE  FlattenSeq(s) = f[Len(s)]
<1> DEFINE Eqn(g) == g = [k \in 1 .. Len(s) |->
                       IF k = 1 THEN s[k] ELSE g[k - 1] \o s[k]]
           c == CHOOSE g : Eqn(g)
           h == [k \in 1 .. Len(s) |-> f[k]]
<1>1. Len(s) \in Nat \ {0}
  BY EmptySeq, LenProperties
<1>2. FlattenSeq(s) = c[Len(s)]
  BY <1>1 DEF FlattenSeq
<1>3. Eqn(h)
  <2>1. \A k \in 1 .. Len(s) : h[k] = IF k = 1 THEN s[k] ELSE h[k - 1] \o s[k]
    <3> SUFFICES ASSUME NEW k \in 1 .. Len(s)
                 PROVE  h[k] = IF k = 1 THEN s[k] ELSE h[k - 1] \o s[k]
      OBVIOUS
    <3>1. h[k] = f[k - 1] \o s[k] /\ s[k] \in Strs
      BY ElementOfSeq DEF Joins
    <3>2. CASE k = 1
      <4>1. h[k] = <<>> \o s[k]
        <5>1. k - 1 = 0
          BY <3>2
        <5> QED
          BY <3>1, <5>1 DEF Joins
      <4> QED
        BY <3>1, <3>2, <4>1, ConcatEmptySeq DEF Strs
    <3>3. CASE k # 1
      <4>1. k - 1 \in 1 .. Len(s)
        BY <1>1, <3>3
      <4> QED
        BY <3>1, <3>3, <4>1
    <3> QED
      BY <3>2, <3>3
  <2> QED
    BY <2>1
<1>4. Eqn(c)
  BY <1>3
<1>5. \A k \in Nat : k + 1 \in 1 .. Len(s) => c[k + 1] = h[k + 1]
  <2> DEFINE T == {k \in Nat : k + 1 \in 1 .. Len(s) => c[k + 1] = h[k + 1]}
  <2>1. \A k \in 1 .. Len(s) : /\ c[k] = IF k = 1 THEN s[k] ELSE c[k - 1] \o s[k]
                               /\ h[k] = IF k = 1 THEN s[k] ELSE h[k - 1] \o s[k]
    BY <1>3, <1>4
  <2> HIDE DEF c, h
  <2>2. 0 \in T
    BY <2>1, <1>1
  <2>3. ASSUME NEW n \in Nat, n \in T PROVE n + 1 \in T
    <3> SUFFICES ASSUME (n + 1) + 1 \in 1 .. Len(s)
                 PROVE  c[(n + 1) + 1] = h[(n + 1) + 1]
      OBVIOUS
    <3>1. n + 1 \in 1 .. Len(s) /\ ((n + 1) + 1) - 1 = n + 1 /\ (n + 1) + 1 # 1
      BY <1>1
    <3>2. c[n + 1] = h[n + 1]
      BY <2>3, <3>1
    <3> QED
      BY <2>1, <3>1, <3>2
  <2> HIDE DEF T
  <2>4. \A n \in Nat : n \in T
    BY <2>2, <2>3, Induction
  <2> QED
    BY <2>4 DEF T
<1>6. (Len(s) - 1) + 1 = Len(s) /\ Len(s) - 1 \in Nat /\ Len(s) \in 1 .. Len(s)
  BY <1>1
<1> HIDE DEF c
<1>7. c[Len(s)] = h[Len(s)]
  BY <1>5, <1>6
<1> QED
  BY <1>2, <1>6, <1>7


\* One more string continues them.
LEMMA JoinsAppend ==
  ASSUME NEW s \in Seq(Strs), NEW x \in Strs, NEW f, Joins(s, f),
         NEW g, g = [k \in 0 .. Len(s) + 1 |-> IF k <= Len(s) THEN f[k] ELSE f[Len(s)] \o x]
  PROVE  Joins(Append(s, x), g)
<1> DEFINE t == Append(s, x)
<1>1. Len(s) \in Nat
  BY LenProperties
<1>2. /\ Len(t) = Len(s) + 1
      /\ \A k \in 1 .. Len(s) : t[k] = s[k]
      /\ t[Len(s) + 1] = x
  BY AppendProperties
<1> HIDE DEF t
<1>3. f[Len(s)] \o x \in Strs
  <2>1. f[Len(s)] \in Strs
    BY <1>1 DEF Joins
  <2> QED
    BY <2>1, ConcatProperties DEF Strs
<1>4. g \in [0 .. Len(t) -> Strs]
  BY <1>1, <1>2, <1>3 DEF Joins
<1>5. g[0] = <<>>
  BY <1>1 DEF Joins
<1>6. ASSUME NEW k \in 1 .. Len(t) PROVE g[k] = g[k - 1] \o t[k]
  <2>1. CASE k <= Len(s)
    <3>1. k \in 1 .. Len(s) /\ k - 1 \in 0 .. Len(s) + 1 /\ k \in 0 .. Len(s) + 1
          /\ k - 1 <= Len(s)
      BY <1>1, <2>1
    <3>2. g[k] = f[k] /\ g[k - 1] = f[k - 1] /\ t[k] = s[k]
      BY <3>1, <1>2, <2>1
    <3> QED
      BY <3>1, <3>2 DEF Joins
  <2>2. CASE ~(k <= Len(s))
    <3>1. k = Len(s) + 1 /\ k - 1 = Len(s) /\ k - 1 \in 0 .. Len(s) + 1
          /\ k \in 0 .. Len(s) + 1
      BY <1>1, <1>2, <2>2
    <3>2. g[k] = f[Len(s)] \o x /\ g[k - 1] = f[Len(s)] /\ t[k] = x
      BY <3>1, <1>2, <2>2
    <3> QED
      BY <3>2
  <2> QED
    BY <2>1, <2>2
<1> QED
  BY <1>4, <1>5, <1>6 DEF Joins, t

\* A sequence is its front with its last element.
LEMMA FrontAndLast ==
  ASSUME NEW S, NEW s \in Seq(S), NEW n \in Nat, Len(s) = n + 1
  PROVE  /\ SubSeq(s, 1, n) \in Seq(S) /\ Len(SubSeq(s, 1, n)) = n
         /\ s[n + 1] \in S /\ s = Append(SubSeq(s, 1, n), s[n + 1])
<1>1. \A k \in 1 .. n + 1 : s[k] \in S
  BY ElementOfSeq
<1> DEFINE p == SubSeq(s, 1, n)
<1>2. /\ p \in Seq(S) /\ Len(p) = n /\ \A k \in 1 .. n : p[k] = s[k]
  <2>1. \A k \in 1 .. n : s[k] \in S
    BY <1>1
  <2>2. /\ p \in Seq(S) /\ Len(p) = IF 1 <= n THEN n - 1 + 1 ELSE 0
        /\ \A k \in 1 .. n - 1 + 1 : p[k] = s[1 + k - 1]
    BY <2>1, SubSeqProperties
  <2> HIDE DEF p
  <2> QED
    BY <2>2
<1> HIDE DEF p
<1>3. s[n + 1] \in S
  BY <1>1
<1>4. /\ Append(p, s[n + 1]) \in Seq(S) /\ Len(Append(p, s[n + 1])) = n + 1
      /\ \A k \in 1 .. n : Append(p, s[n + 1])[k] = s[k]
      /\ Append(p, s[n + 1])[n + 1] = s[n + 1]
  BY <1>2, <1>3, AppendProperties
<1>5. \A k \in 1 .. Len(s) : s[k] = Append(p, s[n + 1])[k]
  BY <1>4
<1>6. s = Append(p, s[n + 1])
  BY <1>4, <1>5, SeqEqual
<1> QED
  BY <1>2, <1>3, <1>6 DEF p

\* There are such strings for every sequence, by induction over its length.
LEMMA JoinsExist == \A s \in Seq(Strs) : \E f : Joins(s, f)
<1> DEFINE T == {n \in Nat : \A s \in Seq(Strs) : Len(s) = n => \E f : Joins(s, f)}
<1>1. 0 \in T
  <2> SUFFICES ASSUME NEW s \in Seq(Strs), Len(s) = 0 PROVE \E f : Joins(s, f)
    OBVIOUS
  <2>1. <<>> \in Strs
    BY NoneIsStrs
  <2>2. Joins(s, [k \in 0 .. 0 |-> <<>>])
    BY <2>1 DEF Joins
  <2> QED
    BY <2>2
<1>2. ASSUME NEW n \in Nat, n \in T PROVE n + 1 \in T
  <2> SUFFICES ASSUME NEW s \in Seq(Strs), Len(s) = n + 1 PROVE \E f : Joins(s, f)
    OBVIOUS
  <2>1. /\ SubSeq(s, 1, n) \in Seq(Strs) /\ Len(SubSeq(s, 1, n)) = n
        /\ s[n + 1] \in Strs /\ s = Append(SubSeq(s, 1, n), s[n + 1])
    BY FrontAndLast
  <2>2. PICK f : Joins(SubSeq(s, 1, n), f)
    BY <1>2, <2>1
  <2> QED
    BY <2>1, <2>2, JoinsAppend
<1> HIDE DEF T
<1>3. \A n \in Nat : n \in T
  BY <1>1, <1>2, Induction
<1> QED
  BY <1>3, LenProperties DEF T

\* What the concatenation of strings is: nothing at first, and each string
\* behind the ones before it.
LEMMA FlattenSteps ==
  /\ FlattenSeq(<<>>) = <<>>
  /\ \A s \in Seq(Strs) : FlattenSeq(s) \in Strs
  /\ \A s \in Seq(Strs), x \in Strs :
        FlattenSeq(Append(s, x)) = FlattenSeq(s) \o x
<1>1. FlattenSeq(<<>>) = <<>>
  BY EmptySeq DEF FlattenSeq
<1>2. ASSUME NEW s \in Seq(Strs), NEW f, Joins(s, f)
      PROVE  FlattenSeq(s) = f[Len(s)] /\ FlattenSeq(s) \in Strs
  <2>1. Len(s) \in Nat /\ (s = <<>> => Len(s) = 0)
    BY LenProperties
  <2>2. CASE s = <<>>
    BY <1>1, <1>2, <2>1, <2>2, NoneIsStrs DEF Joins
  <2>3. CASE s # <<>>
    <3>1. FlattenSeq(s) = f[Len(s)]
      BY <1>2, <2>3, JoinsOne
    <3> QED
      BY <1>2, <2>1, <3>1 DEF Joins
  <2> QED
    BY <2>2, <2>3
<1>3. ASSUME NEW s \in Seq(Strs) PROVE FlattenSeq(s) \in Strs
  BY <1>2, JoinsExist
<1>4. ASSUME NEW s \in Seq(Strs), NEW x \in Strs
      PROVE  FlattenSeq(Append(s, x)) = FlattenSeq(s) \o x
  <2>1. PICK f : Joins(s, f)
    BY JoinsExist
  <2> DEFINE g == [k \in 0 .. Len(s) + 1 |-> IF k <= Len(s) THEN f[k] ELSE f[Len(s)] \o x]
  <2>2. Joins(Append(s, x), g)
    BY <2>1, JoinsAppend
  <2>3. Append(s, x) \in Seq(Strs) /\ Len(Append(s, x)) = Len(s) + 1 /\ Len(s) \in Nat
    BY AppendProperties, LenProperties
  <2>4. g[Len(s) + 1] = f[Len(s)] \o x
    BY <2>3
  <2> HIDE DEF g
  <2>5. FlattenSeq(Append(s, x)) = g[Len(s) + 1]
    BY <1>2, <2>2, <2>3
  <2>6. FlattenSeq(s) = f[Len(s)]
    BY <1>2, <2>1
  <2> QED
    BY <2>4, <2>5, <2>6
<1> QED
  BY <1>1, <1>3, <1>4

\* The strings of two sequences, joined one after the other
LEMMA FlattenConcat ==
  \A a, b \in Seq(Strs) : FlattenSeq(a \o b) = FlattenSeq(a) \o FlattenSeq(b)
<1> SUFFICES ASSUME NEW a \in Seq(Strs)
             PROVE  \A b \in Seq(Strs) : FlattenSeq(a \o b) = FlattenSeq(a) \o FlattenSeq(b)
  OBVIOUS
<1> DEFINE T == {n \in Nat : \A b \in Seq(Strs) :
                    Len(b) = n => FlattenSeq(a \o b) = FlattenSeq(a) \o FlattenSeq(b)}
<1>0. FlattenSeq(a) \in Seq(Chars)
  BY FlattenSteps DEF Strs
<1>1. 0 \in T
  <2> SUFFICES ASSUME NEW b \in Seq(Strs), Len(b) = 0
               PROVE  FlattenSeq(a \o b) = FlattenSeq(a) \o FlattenSeq(b)
    OBVIOUS
  <2>1. b = <<>>
    BY EmptySeq
  <2>2. a \o b = a
    BY <2>1, ConcatEmptySeq
  <2>3. FlattenSeq(a) \o FlattenSeq(b) = FlattenSeq(a)
    BY <1>0, <2>1, FlattenSteps, ConcatEmptySeq
  <2> QED
    BY <2>2, <2>3
<1>2. ASSUME NEW n \in Nat, n \in T PROVE n + 1 \in T
  <2> SUFFICES ASSUME NEW b \in Seq(Strs), Len(b) = n + 1
               PROVE  FlattenSeq(a \o b) = FlattenSeq(a) \o FlattenSeq(b)
    OBVIOUS
  <2> DEFINE p == SubSeq(b, 1, n)
             x == b[n + 1]
  <2>1. p \in Seq(Strs) /\ Len(p) = n /\ x \in Strs /\ b = Append(p, x)
    BY FrontAndLast
  <2> HIDE DEF p, x
  <2>2. a \o b = Append(a \o p, x) /\ a \o p \in Seq(Strs)
    <3>1. Append(a \o p, x) = (a \o p) \o <<x>> /\ b = p \o <<x>> /\ a \o p \in Seq(Strs)
          /\ <<x>> \in Seq(Strs)
      BY <2>1, AppendIsConcat, ConcatIsStrs, OneIsStrs
    <3> QED
      BY <2>1, <3>1, ConcatAssociative
  <2>3. FlattenSeq(a \o b) = (FlattenSeq(a) \o FlattenSeq(p)) \o x
    BY <1>2, <2>1, <2>2, FlattenSteps
  <2>4. FlattenSeq(p) \in Seq(Chars) /\ x \in Seq(Chars) /\ FlattenSeq(b) = FlattenSeq(p) \o x
    BY <2>1, FlattenSteps DEF Strs
  <2>5. (FlattenSeq(a) \o FlattenSeq(p)) \o x = FlattenSeq(a) \o (FlattenSeq(p) \o x)
    <3>1. FlattenSeq(a) \in Seq(Chars) /\ FlattenSeq(p) \in Seq(Chars) /\ x \in Seq(Chars)
      BY <1>0, <2>4
    <3> QED
      BY <3>1, ConcatAssociative, SMTT(30)
  <2> QED
    BY <2>3, <2>4, <2>5
<1> HIDE DEF T
<1>3. \A n \in Nat : n \in T
  BY <1>1, <1>2, Induction
<1> QED
  BY <1>3, LenProperties DEF T

\* One string is itself.
LEMMA FlattenOne == \A x \in Strs : FlattenSeq(<<x>>) = x
<1> SUFFICES ASSUME NEW x \in Strs PROVE FlattenSeq(<<x>>) = x
  OBVIOUS
<1>1. <<x>> = Append(<<>>, x)
  OBVIOUS
<1>2. FlattenSeq(Append(<<>>, x)) = <<>> \o x
  BY FlattenSteps, NoneIsStrs
<1> QED
  BY <1>1, <1>2, ConcatEmptySeq DEF Strs

-----------------------------------------------------------------------------
(* The cells of one string *)

Picks(seq, s) == [k \in 1 .. Len(seq) |-> When(seq[k][1] = s, <<seq[k]>>)]

\* The cells picked are strings of one cell or none.
LEMMA PicksAreStrs ==
  ASSUME NEW seq \in Strs, NEW s
  PROVE  /\ Picks(seq, s) \in Seq(Strs) /\ Len(Picks(seq, s)) = Len(seq)
         /\ \A k \in 1 .. Len(seq) : Picks(seq, s)[k] = When(seq[k][1] = s, <<seq[k]>>)
<1>1. Len(seq) \in Nat
  BY LenProperties DEF Strs
<1>2. \A k \in 1 .. Len(seq) : When(seq[k][1] = s, <<seq[k]>>) \in Strs
  <2> TAKE k \in 1 .. Len(seq)
  <2>1. seq[k] \in Chars
    BY ElementOfSeq DEF Strs
  <2> QED
    BY <2>1, NoneIsStrs DEF When, Strs
<1> QED
  BY <1>1, <1>2 DEF Picks

LEMMA OnlyIsStr == ASSUME NEW seq \in Strs, NEW s PROVE Only(seq, s) \in Strs
<1>1. FlattenSeq(Picks(seq, s)) \in Strs
  BY PicksAreStrs, FlattenSteps
<1> QED
  BY <1>1 DEF Only, Picks

\* The cells of a string and of the one behind it
LEMMA OnlyConcat ==
  ASSUME NEW a \in Strs, NEW b \in Strs, NEW s
  PROVE  Only(a \o b, s) = Only(a, s) \o Only(b, s)
<1>1. /\ a \o b \in Strs /\ Len(a \o b) = Len(a) + Len(b)
      /\ \A k \in 1 .. Len(a) + Len(b) :
            (a \o b)[k] = IF k <= Len(a) THEN a[k] ELSE b[k - Len(a)]
      /\ Len(a) \in Nat /\ Len(b) \in Nat
  BY ConcatProperties, LenProperties DEF Strs
<1>2. /\ Picks(a, s) \o Picks(b, s) \in Seq(Strs)
      /\ Len(Picks(a, s) \o Picks(b, s)) = Len(a) + Len(b)
      /\ \A k \in 1 .. Len(a) + Len(b) :
            (Picks(a, s) \o Picks(b, s))[k] =
                IF k <= Len(a) THEN Picks(a, s)[k] ELSE Picks(b, s)[k - Len(a)]
  <2> DEFINE p == Picks(a, s)
             q == Picks(b, s)
  <2>1. p \in Seq(Strs) /\ Len(p) = Len(a) /\ q \in Seq(Strs) /\ Len(q) = Len(b)
    BY PicksAreStrs
  <2> HIDE DEF p, q
  <2>2. /\ p \o q \in Seq(Strs) /\ Len(p \o q) = Len(p) + Len(q)
        /\ \A k \in 1 .. Len(p) + Len(q) :
              (p \o q)[k] = IF k <= Len(p) THEN p[k] ELSE q[k - Len(p)]
    BY <2>1, ConcatProperties
  <2>3. Len(p) = Len(a) /\ Len(p) + Len(q) = Len(a) + Len(b)
    BY <2>1
  <2> QED
    BY <2>2, <2>3 DEF p, q
<1>3. /\ Picks(a \o b, s) \in Seq(Strs)
      /\ Len(Picks(a \o b, s)) = Len(a) + Len(b)
      /\ \A k \in 1 .. Len(a) + Len(b) :
            Picks(a \o b, s)[k] = When((a \o b)[k][1] = s, <<(a \o b)[k]>>)
  <2> DEFINE ab == a \o b
  <2>1. ab \in Strs /\ Len(ab) = Len(a) + Len(b)
    BY <1>1
  <2> HIDE DEF ab
  <2>2. /\ Picks(ab, s) \in Seq(Strs) /\ Len(Picks(ab, s)) = Len(ab)
        /\ \A k \in 1 .. Len(ab) : Picks(ab, s)[k] = When(ab[k][1] = s, <<ab[k]>>)
    BY <2>1, PicksAreStrs
  <2> QED
    BY <2>1, <2>2 DEF ab
<1>4. ASSUME NEW k \in 1 .. Len(a) + Len(b)
      PROVE  Picks(a \o b, s)[k] = (Picks(a, s) \o Picks(b, s))[k]
  <2>1. Picks(a \o b, s)[k] = When((a \o b)[k][1] = s, <<(a \o b)[k]>>)
    BY <1>3
  <2>2. CASE k <= Len(a)
    <3>1. k \in 1 .. Len(a)
      BY <1>1, <2>2
    <3> QED
      BY <1>1, <1>2, <2>1, <2>2, <3>1, PicksAreStrs
  <2>3. CASE ~(k <= Len(a))
    <3>1. k - Len(a) \in 1 .. Len(b)
      BY <1>1, <2>3
    <3> QED
      BY <1>1, <1>2, <2>1, <2>3, <3>1, PicksAreStrs
  <2> QED
    BY <2>2, <2>3
<1>5. Picks(a \o b, s) = Picks(a, s) \o Picks(b, s)
  BY <1>2, <1>3, <1>4, SeqEqual
<1>6. Picks(a, s) \in Seq(Strs) /\ Picks(b, s) \in Seq(Strs)
  BY PicksAreStrs
<1>7. FlattenSeq(Picks(a \o b, s)) = FlattenSeq(Picks(a, s)) \o FlattenSeq(Picks(b, s))
  BY <1>5, <1>6, FlattenConcat
<1> QED
  BY <1>7 DEF Only, Picks

\* None of them, or nothing else
LEMMA OnlyNone ==
  ASSUME NEW seq \in Strs, NEW s, \A k \in 1 .. Len(seq) : seq[k][1] # s
  PROVE  Only(seq, s) = <<>>
<1> DEFINE T == {n \in Nat : \A p \in Seq(Strs) :
                    Len(p) = n /\ (\A k \in 1 .. n : p[k] = <<>>) => FlattenSeq(p) = <<>>}
<1>1. 0 \in T
  BY EmptySeq, FlattenSteps
<1>2. ASSUME NEW n \in Nat, n \in T PROVE n + 1 \in T
  <2> SUFFICES ASSUME NEW p \in Seq(Strs), Len(p) = n + 1,
                      \A k \in 1 .. n + 1 : p[k] = <<>>
               PROVE  FlattenSeq(p) = <<>>
    OBVIOUS
  <2>1. /\ SubSeq(p, 1, n) \in Seq(Strs) /\ Len(SubSeq(p, 1, n)) = n
        /\ p[n + 1] \in Strs /\ p = Append(SubSeq(p, 1, n), p[n + 1])
    BY FrontAndLast
  <2>2. \A k \in 1 .. n : SubSeq(p, 1, n)[k] = <<>>
    <3>1. \A k \in 1 .. n : p[k] \in Strs
      BY ElementOfSeq
    <3>2. \A k \in 1 .. n - 1 + 1 : SubSeq(p, 1, n)[k] = p[1 + k - 1]
      BY <3>1, SubSeqProperties
    <3> QED
      BY <3>2
  <2>3. FlattenSeq(SubSeq(p, 1, n)) = <<>>
    BY <1>2, <2>1, <2>2
  <2>4. p[n + 1] = <<>>
    OBVIOUS
  <2>5. FlattenSeq(p) = <<>> \o <<>>
    BY <2>1, <2>3, <2>4, FlattenSteps
  <2> QED
    BY <2>5, NoneIsStrs, ConcatEmptySeq DEF Strs
<1> HIDE DEF T
<1>3. \A n \in Nat : n \in T
  BY <1>1, <1>2, Induction
<1>4. Picks(seq, s) \in Seq(Strs) /\ Len(Picks(seq, s)) \in Nat
      /\ \A k \in 1 .. Len(Picks(seq, s)) : Picks(seq, s)[k] = <<>>
  <2>1. /\ Picks(seq, s) \in Seq(Strs) /\ Len(Picks(seq, s)) = Len(seq)
        /\ \A k \in 1 .. Len(seq) : Picks(seq, s)[k] = When(seq[k][1] = s, <<seq[k]>>)
    BY PicksAreStrs
  <2>2. Len(seq) \in Nat
    BY LenProperties DEF Strs
  <2>3. \A k \in 1 .. Len(seq) : When(seq[k][1] = s, <<seq[k]>>) = <<>>
    BY DEF When
  <2> QED
    BY <2>1, <2>2, <2>3
<1>5. FlattenSeq(Picks(seq, s)) = <<>>
  BY <1>3, <1>4 DEF T
<1> QED
  BY <1>5 DEF Only, Picks

LEMMA OnlyAll ==
  ASSUME NEW seq \in Strs, NEW s, \A k \in 1 .. Len(seq) : seq[k][1] = s
  PROVE  Only(seq, s) = seq
<1> DEFINE T == {n \in Nat : \A t \in Strs :
                    Len(t) = n /\ (\A k \in 1 .. n : t[k][1] = s) => Only(t, s) = t}
<1>1. 0 \in T
  <2> SUFFICES ASSUME NEW t \in Strs, Len(t) = 0 PROVE Only(t, s) = t
    OBVIOUS
  <2>1. t = <<>>
    BY EmptySeq DEF Strs
  <2>2. Only(t, s) = <<>>
    BY OnlyNone
  <2> QED
    BY <2>1, <2>2
<1>2. ASSUME NEW n \in Nat, n \in T PROVE n + 1 \in T
  <2> SUFFICES ASSUME NEW t \in Strs, Len(t) = n + 1,
                      \A k \in 1 .. n + 1 : t[k][1] = s
               PROVE  Only(t, s) = t
    OBVIOUS
  <2> DEFINE p == SubSeq(t, 1, n)
             x == t[n + 1]
  <2>1. p \in Strs /\ Len(p) = n /\ x \in Chars /\ t = Append(p, x)
    BY FrontAndLast DEF Strs
  <2>2. \A k \in 1 .. n : p[k][1] = s
    <3>1. \A k \in 1 .. n : t[k] \in Chars
      BY ElementOfSeq DEF Strs
    <3>2. \A k \in 1 .. n - 1 + 1 : SubSeq(t, 1, n)[k] = t[1 + k - 1]
      BY <3>1, SubSeqProperties
    <3> QED
      BY <3>2
  <2>3. x[1] = s
    OBVIOUS
  <2> HIDE DEF p, x
  <2>4. Only(p, s) = p
    BY <1>2, <2>1, <2>2
  <2>5. <<x>> \in Strs /\ t = p \o <<x>>
    BY <2>1, AppendIsConcat DEF Strs
  <2>6. Only(<<x>>, s) = <<x>>
    <3>1. Picks(<<x>>, s) = << <<x>> >>
      <4>1. /\ Picks(<<x>>, s) \in Seq(Strs) /\ Len(Picks(<<x>>, s)) = 1
            /\ Picks(<<x>>, s)[1] = <<x>>
        BY <2>3, <2>5, PicksAreStrs DEF When
      <4>2. << <<x>> >> \in Seq(Strs) /\ Len(<< <<x>> >>) = 1 /\ << <<x>> >>[1] = <<x>>
        BY <2>5, OneIsStrs
      <4> QED
        BY <4>1, <4>2, SeqEqual
    <3> QED
      BY <2>5, <3>1, FlattenOne DEF Only, Picks
  <2>7. Only(p \o <<x>>, s) = Only(p, s) \o Only(<<x>>, s)
    <3> DEFINE y == <<x>>
    <3>1. p \in Strs /\ y \in Strs
      BY <2>1, <2>5
    <3> HIDE DEF y
    <3>2. Only(p \o y, s) = Only(p, s) \o Only(y, s)
      BY <3>1, OnlyConcat
    <3> QED
      BY <3>2 DEF y
  <2> QED
    BY <2>4, <2>5, <2>6, <2>7
<1> HIDE DEF T
<1>3. \A n \in Nat : n \in T
  BY <1>1, <1>2, Induction
<1> QED
  BY <1>3, LenProperties DEF T, Strs

-----------------------------------------------------------------------------
(* What has been written, and what has been output of it *)

\* The strings of a line before its text, or of a row with its header
Pieces ==
    IF call.kind = "line" THEN chosen
    ELSE <<StrOf("header", i, fmt_result)>> \o RowStrings(call, i)

\* The row as an endless buffer has it, and what is kept of it
RowIdeal == FlattenSeq(<<StrOf("header", i, fmt_result)>> \o RowStrings(call, i))
RowKept == SubSeq(RowIdeal, 1, Least(Len(RowIdeal), Size - StrLen["newline"]))

\* What stands before the newline sign
BeforeNewline ==
    IF call.kind = "line" THEN Kept \o When("end" \in colored, Fixed("csi_end"))
                          ELSE RowKept

\* The first n places of buf, of those below top, hold the characters of s.
Matches(buf, n, s, top) == \A k \in 0 .. top - 1 : k < n => buf[k] = s[k + 1]

\* s has been written, as far as it has room: the last place of the buffer
\* may hold the end sign of snprintf.
Written(s) ==
    /\ log_len = Least(Len(s), Size)
    /\ Matches(log_buf, log_len, s, Size - 1)

\* The part of the buffer in use is s.
Shows(s) == log_len = Len(s) /\ Matches(log_buf, log_len, s, Size)

\* The first strings have been written and the others are still to be copied.
PiecesInv ==
    pc = "package" /\ fmt_result # Fail =>
        \E d \in 0 .. Len(Pieces) :
            /\ todo = SubSeq(Pieces, d + 1, Len(Pieces))
            /\ Written(FlattenSeq(SubSeq(Pieces, 1, d)))

TextInv == pc = "reserve" /\ fmt_result # Fail => Written(Ideal)

KeptInv == pc \in {"filter", "end"} /\ fmt_result # Fail => Shows(Kept)

EndedInv == pc = "newline" /\ fmt_result # Fail => Shows(BeforeNewline)

\* What has been output
DoneInv ==
    /\ pc = "next" /\ fmt_result # Fail => out = RowKept \o Fixed("newline")
    /\ LineDone => out \in {<<>>, BeforeNewline \o Fixed("newline")}

\* The colour's end sign comes last; a raw text never comes to a newline sign.
PlacesInv ==
    /\ pc \in {"idle", "package", "reserve", "filter", "end"} \/ call.kind = "dump"
       => "end" \notin colored
    /\ pc = "newline" => call # RawCall
    /\ pc = "idle" => i = 0 /\ rows = 0

\* The keyword filter has let the line pass.
Occurs(word) ==
    \E k \in 0 .. Len(Kept) - Len(word) : SubSeq(Kept, k + 1, k + Len(word)) = word
PassedInv ==
    pc \in {"end", "newline"} /\ call.kind = "line" /\ fmt_result # Fail =>
        call.keyword = <<>> \/ Occurs(call.keyword)

\* The offset of a row is the bytes of the rows before it.
RowsInv ==
    call.kind = "dump" /\ Ends(call) =>
        /\ rows \in 0 .. RowsNeeded(call)
        /\ pc \in {"row", "package", "newline"} => i = rows * call.width
        /\ pc \in {"package", "newline", "next"} => i < call.size
        /\ pc = "next" => rows > 0 /\ i = (rows - 1) * call.width
        /\ pc = "done" => rows = RowsNeeded(call)

TextIInv ==
    /\ LineIInv /\ PiecesInv /\ TextInv /\ KeptInv /\ EndedInv /\ DoneInv
    /\ PlacesInv /\ PassedInv /\ RowsInv /\ RawWhole /\ KeywordExact

-----------------------------------------------------------------------------
(* The characters that a copy and a vsnprintf add *)

\* The places of two strings in a row, and those of a string's beginning
LEMMA ConcatStr ==
  ASSUME NEW s \in Strs, NEW t \in Strs
  PROVE  /\ s \o t \in Strs /\ Len(s) \in Nat /\ Len(t) \in Nat
         /\ Len(s \o t) = Len(s) + Len(t)
         /\ \A k \in 1 .. Len(s) + Len(t) :
                (s \o t)[k] = IF k <= Len(s) THEN s[k] ELSE t[k - Len(s)]
BY ConcatProperties, LenProperties DEF Strs

LEMMA PrefixStr ==
  ASSUME NEW s \in Strs, NEW n \in Nat, n <= Len(s)
  PROVE  /\ SubSeq(s, 1, n) \in Strs /\ Len(SubSeq(s, 1, n)) = n
         /\ \A k \in 1 .. n : SubSeq(s, 1, n)[k] = s[k]
<1>1. Len(s) \in Nat
  BY LenProperties DEF Strs
<1>2. \A k \in 1 .. n : s[k] \in Chars
  BY <1>1, ElementOfSeq DEF Strs
<1>3. /\ SubSeq(s, 1, n) \in Seq(Chars)
      /\ Len(SubSeq(s, 1, n)) = IF 1 <= n THEN n - 1 + 1 ELSE 0
      /\ \A k \in 1 .. n - 1 + 1 : SubSeq(s, 1, n)[k] = s[1 + k - 1]
  BY <1>2, SubSeqProperties
<1> QED
  BY <1>3 DEF Strs

\* elog_strcpy puts the string behind what has been written, as far as it
\* has room.
LEMMA CopyWritten ==
  ASSUME NEW buf \in Buffers, NEW s \in Strs, NEW str \in Strs,
         NEW at, at = Least(Len(s), Size), NEW top \in 0 .. Size,
         Matches(buf, at, s, top)
  PROVE  /\ at + Copied(at, str) = Least(Len(s \o str), Size)
         /\ Matches(Write(buf, at, SubSeq(str, 1, Copied(at, str))),
                    at + Copied(at, str), s \o str, top)
<1> DEFINE n == Copied(at, str)
           b == Write(buf, at, SubSeq(str, 1, n))
<1>0. Len(s) \in Nat /\ Len(str) \in Nat
  BY LenProperties DEF Strs
<1>1. at \in Nat /\ at <= Size /\ at <= Len(s) /\ (at < Size => at = Len(s))
  BY <1>0, SizeInNat DEF Least
<1>2. n \in Nat /\ n <= Len(str) /\ at + n <= Size
      /\ n = Least(Len(str), Size - at)
  <2>1. n \in Nat /\ n <= Len(str) /\ at + n <= Size
    BY <1>1, CopiedFits
  <2>2. n = Least(Len(str), Size - at)
    BY <1>1, SizeInNat DEF Copied
  <2> QED
    BY <2>1, <2>2
<1>3. Len(s \o str) = Len(s) + Len(str)
  BY ConcatStr
<1>4. at + n = Least(Len(s \o str), Size)
  <2>1. CASE at < Size
    BY <1>0, <1>1, <1>2, <1>3, <2>1, SizeInNat, SMTT(30) DEF Least
  <2>2. CASE at = Size
    BY <1>0, <1>1, <1>2, <1>3, <2>2, SizeInNat DEF Least
  <2> QED
    BY <1>1, <2>1, <2>2, SizeInNat
<1> DEFINE p == SubSeq(str, 1, n)
<1>5. p \in Strs /\ Len(p) = n /\ \A k \in 1 .. n : p[k] = str[k]
  BY <1>2, PrefixStr
<1>6. p \in Seq(Chars \cup {Stale, Nul})
  BY <1>5, SeqMonotonic DEF Strs
<1>7. b = Write(buf, at, p)
  OBVIOUS
<1> HIDE DEF p, b, n
<1>8. \A k \in 0 .. Size - 1 :
          b[k] = IF k >= at /\ k < at + Len(p) THEN p[k - at + 1] ELSE buf[k]
  <2>1. \A k \in 0 .. Size - 1 :
            Write(buf, at, p)[k] = IF k >= at /\ k < at + Len(p)
                                   THEN p[k - at + 1] ELSE buf[k]
    BY <1>1, <1>6, WriteInBuffer
  <2> QED
    BY <1>7, <2>1
<1>9. ASSUME NEW k \in 0 .. top - 1, k < at + n PROVE b[k] = (s \o str)[k + 1]
  <2>0. k \in 0 .. Size - 1
    BY SizeInNat
  <2>1. k + 1 \in 1 .. Len(s) + Len(str)
    BY <1>0, <1>1, <1>2, <1>9
  <2>2. (s \o str)[k + 1] = IF k + 1 <= Len(s) THEN s[k + 1] ELSE str[k + 1 - Len(s)]
    BY <2>1, ConcatStr
  <2>3. CASE k < at
    <3>1. b[k] = buf[k] /\ k + 1 <= Len(s)
      BY <1>0, <1>1, <1>8, <2>0, <2>3
    <3> QED
      BY <2>2, <2>3, <3>1 DEF Matches
  <2>4. CASE k >= at
    <3>1. at < Size /\ at = Len(s)
      <4>1. Size \in Nat /\ k \in Int /\ k < Size
        BY <2>0, SizeInNat
      <4> QED
        BY <1>1, <2>4, <4>1
    <3>2. k - at + 1 \in 1 .. n
      BY <1>1, <1>2, <1>9, <2>4
    <3>3. b[k] = str[k - at + 1]
      BY <1>5, <1>8, <1>9, <2>0, <2>4, <3>2
    <3>4. k - at + 1 = k + 1 - Len(s) /\ ~(k + 1 <= Len(s))
      BY <1>0, <1>1, <2>4, <3>1
    <3> QED
      BY <2>2, <3>3, <3>4
  <2>5. k < at \/ k >= at
    BY <1>1, <2>0
  <2> QED
    BY <2>3, <2>4, <2>5
<1> QED
  BY <1>4, <1>9 DEF b, n, Matches

\* vsnprintf does the same, but for the last place of the buffer.
LEMMA PrintWritten ==
  ASSUME NEW buf \in Buffers, NEW s \in Strs, NEW str \in Strs,
         NEW at, at = Least(Len(s), Size),
         Matches(buf, at, s, Size - 1)
  PROVE  /\ LenAfter(at, Len(str)) = Least(Len(s \o str), Size)
         /\ Matches(Snprintf(buf, at, Size - at, str), LenAfter(at, Len(str)),
                    s \o str, Size - 1)
<1>2. /\ \A k \in 0 .. Size - 2 : k < at => buf[k] = s[k + 1]
      /\ (Size - 1) - 1 = Size - 2
  BY SizeInNat DEF Matches
<1>0. Len(s) \in Nat /\ Len(str) \in Nat
  BY LenProperties DEF Strs
<1>1. at \in Nat /\ at <= Size /\ at <= Len(s) /\ (at < Size => at = Len(s))
  BY <1>0, SizeInNat DEF Least
<1>3. Len(s \o str) = Len(s) + Len(str)
  BY ConcatStr
<1>4. LenAfter(at, Len(str)) = Least(Len(s \o str), Size)
  <2>1. CASE at < Size
    BY <1>0, <1>1, <1>3, <2>1, SizeInNat DEF Least, LenAfter, Fail
  <2>2. CASE at = Size
    BY <1>0, <1>1, <1>3, <2>2, SizeInNat DEF Least, LenAfter, Fail
  <2> QED
    BY <1>1, <2>1, <2>2, SizeInNat
<1>5. CASE at = Size
  <2>1. Snprintf(buf, at, Size - at, str) = buf
    BY <1>5, SizeInNat DEF Snprintf
  <2>2. \A k \in 0 .. Size - 2 : /\ k < at /\ k + 1 \in 1 .. Len(s) + Len(str)
                                 /\ k + 1 <= Len(s)
    BY <1>0, <1>1, <1>5, SizeInNat
  <2>3. \A k \in 0 .. Size - 2 : (s \o str)[k + 1] = s[k + 1]
    BY <2>2, ConcatStr
  <2>4. \A k \in 0 .. Size - 2 : buf[k] = (s \o str)[k + 1]
    BY <1>2, <2>2, <2>3
  <2> QED
    BY <1>2, <1>4, <2>1, <2>4 DEF Matches
<1>6. CASE at < Size
  <2> DEFINE n == Least(Len(str), Size - at - 1)
             p == SubSeq(str, 1, n)
             q == p \o <<Nul>>
             b == Write(buf, at, q)
  <2>1. n \in Nat /\ n <= Len(str) /\ n <= Size - at - 1
        /\ (n < Size - at - 1 => n = Len(str))
    <3>1. Size - at - 1 \in Nat
      BY <1>1, <1>6, SizeInNat
    <3> QED
      BY <1>0, <3>1 DEF Least
  <2>2. Snprintf(buf, at, Size - at, str) = b
    BY <1>1, <1>6, SizeInNat DEF Snprintf
  <2> HIDE DEF n
  <2>3. p \in Strs /\ Len(p) = n /\ \A k \in 1 .. n : p[k] = str[k]
    BY <2>1, PrefixStr
  <2>4. /\ q \in Seq(Chars \cup {Stale, Nul}) /\ Len(q) = n + 1
        /\ \A k \in 1 .. n : q[k] = str[k]
    <3>1. p \in Seq(Chars \cup {Stale, Nul})
      BY <2>3, SeqMonotonic DEF Strs
    <3>2. <<Nul>> \in Seq(Chars \cup {Stale, Nul}) /\ Len(<<Nul>>) = 1
      OBVIOUS
    <3> HIDE DEF p
    <3>3. /\ q \in Seq(Chars \cup {Stale, Nul}) /\ Len(q) = Len(p) + Len(<<Nul>>)
          /\ \A k \in 1 .. Len(p) + Len(<<Nul>>) :
                q[k] = IF k <= Len(p) THEN p[k] ELSE <<Nul>>[k - Len(p)]
      BY <3>1, <3>2, ConcatProperties
    <3> QED
      BY <2>1, <2>3, <3>2, <3>3
  <2> HIDE DEF p, q
  <2>5. \A k \in 0 .. Size - 1 :
            b[k] = IF k >= at /\ k < at + (n + 1) THEN q[k - at + 1] ELSE buf[k]
    <3>1. \A k \in 0 .. Size - 1 :
              b[k] = IF k >= at /\ k < at + Len(q) THEN q[k - at + 1] ELSE buf[k]
      BY <1>1, <2>4, WriteInBuffer
    <3> QED
      BY <2>4, <3>1
  <2> HIDE DEF b
  <2>6. ASSUME NEW k \in 0 .. Size - 2, k < LenAfter(at, Len(str))
        PROVE  b[k] = (s \o str)[k + 1]
    <3>0. k \in 0 .. Size - 1
      BY SizeInNat
    <3>1. k + 1 \in 1 .. Len(s) + Len(str) /\ at = Len(s)
      BY <1>0, <1>1, <1>3, <1>4, <1>6, <2>6, SizeInNat DEF Least
    <3>2. (s \o str)[k + 1] = IF k + 1 <= Len(s) THEN s[k + 1] ELSE str[k + 1 - Len(s)]
      BY <3>1, ConcatStr
    <3>3. CASE k < at
      <4>1. b[k] = buf[k] /\ k + 1 <= Len(s)
        BY <1>0, <1>1, <2>5, <3>0, <3>1, <3>3
      <4> QED
        BY <1>2, <2>6, <3>2, <3>3, <4>1
    <3>4. CASE k >= at
      <4>1. k - at + 1 \in 1 .. n
        BY <1>0, <1>1, <1>6, <2>1, <2>6, <3>1, <3>4, SizeInNat
      <4>2. b[k] = str[k - at + 1]
        <5>1. k < at + (n + 1)
          BY <1>1, <2>1, <4>1
        <5>2. b[k] = q[k - at + 1]
          BY <2>5, <3>0, <3>4, <5>1
        <5> QED
          BY <2>4, <4>1, <5>2
      <4>3. k - at + 1 = k + 1 - Len(s) /\ ~(k + 1 <= Len(s))
        BY <1>0, <1>1, <3>1, <3>4
      <4> QED
        BY <3>2, <4>2, <4>3
    <3>5. k < at \/ k >= at
      BY <1>1, <3>0
    <3> QED
      BY <3>3, <3>4, <3>5
  <2> QED
    BY <1>2, <1>4, <2>2, <2>6 DEF Matches
<1>7. at = Size \/ at < Size
  BY <1>1, SizeInNat
<1> QED
  BY <1>5, <1>6, <1>7

-----------------------------------------------------------------------------
(* The strings of a line and of a row *)

\* The strings of a line are strings, and so are the line and what is kept.
LEMMA LineStrs ==
  ASSUME LineIInv, call.kind = "line", fmt_result # Fail
  PROVE  /\ call \in LineCalls
         /\ Pieces = chosen /\ Pieces \in Seq(Strs)
         /\ Ideal = FlattenSeq(Pieces) \o StrOf("text", 0, fmt_result)
         /\ Ideal \in Strs
<1>1. call \in LineCalls /\ fmt_result \in Nat
  BY InvFacts, Kinds
<1>2. Pieces = chosen
  BY DEF Pieces
<1>3. Pieces \in Seq(Strs)
  BY <1>2, InvFacts
<1>4. StrOf("text", 0, fmt_result) \in Strs
  BY <1>1, StrOfIsStr DEF Sources
<1>5. Ideal = FlattenSeq(Pieces) \o StrOf("text", 0, fmt_result)
  BY <1>2 DEF Ideal
<1>6. FlattenSeq(Pieces) \in Strs
  BY <1>3, FlattenSteps
<1> QED
  BY <1>1, <1>2, <1>3, <1>4, <1>5, <1>6, ConcatStr

LEMMA CutStr ==
  ASSUME NEW s \in Strs, NEW n \in Nat
  PROVE  /\ SubSeq(s, 1, Least(Len(s), n)) \in Strs
         /\ Len(SubSeq(s, 1, Least(Len(s), n))) = Least(Len(s), n)
         /\ Least(Len(s), n) \in Nat /\ Least(Len(s), n) <= Len(s) /\ Least(Len(s), n) <= n
         /\ \A k \in 1 .. Least(Len(s), n) : SubSeq(s, 1, Least(Len(s), n))[k] = s[k]
<1>1. Len(s) \in Nat
  BY LenProperties DEF Strs
<1>2. Least(Len(s), n) \in Nat /\ Least(Len(s), n) <= Len(s) /\ Least(Len(s), n) <= n
  BY <1>1 DEF Least
<1> QED
  BY <1>2, PrefixStr

LEMMA KeptStr ==
  ASSUME LineIInv, call.kind = "line", fmt_result # Fail
  PROVE  /\ Kept \in Strs /\ Len(Kept) = Least(Len(Ideal), Size - Reserve)
         /\ Len(Kept) \in Nat /\ Len(Kept) <= Len(Ideal) /\ Len(Kept) <= Size - Reserve
         /\ \A k \in 1 .. Len(Kept) : Kept[k] = Ideal[k]
<1>1. Ideal \in Strs /\ Size - Reserve \in Nat
  BY LineStrs, SizeInNat
<1> QED
  BY <1>1, CutStr DEF Kept

\* The same of a row
LEMMA RowStrs ==
  ASSUME LineIInv, call.kind = "dump", fmt_result # Fail
  PROVE  /\ call \in DumpCalls
         /\ StrOf("header", i, fmt_result) \in Strs
         /\ Len(StrOf("header", i, fmt_result)) = fmt_result
         /\ RowStrings(call, i) \in Seq(Strs)
         /\ Pieces = <<StrOf("header", i, fmt_result)>> \o RowStrings(call, i)
         /\ Pieces \in Seq(Strs)
         /\ RowIdeal = FlattenSeq(Pieces)
         /\ RowIdeal \in Strs
<1>1. call \in DumpCalls /\ fmt_result \in Nat /\ i \in Nat
  BY InvFacts, Kinds
<1>2. Pieces = <<StrOf("header", i, fmt_result)>> \o RowStrings(call, i)
  BY DEF Pieces
<1>3. /\ StrOf("header", i, fmt_result) \in Strs
      /\ Len(StrOf("header", i, fmt_result)) = fmt_result
  BY <1>1, StrOfIsStr DEF Sources
<1>4. <<StrOf("header", i, fmt_result)>> \in Seq(Strs)
  BY <1>3, OneIsStrs
<1>5. RowStrings(call, i) \in Seq(Strs)
  BY <1>1, RowIsStrs
<1>6. Pieces \in Seq(Strs)
  BY <1>2, <1>4, <1>5, ConcatIsStrs
<1>7. RowIdeal = FlattenSeq(Pieces)
  BY <1>2 DEF RowIdeal
<1> QED
  BY <1>1, <1>2, <1>3, <1>5, <1>6, <1>7, FlattenSteps

LEMMA RowKeptStr ==
  ASSUME LineIInv, call.kind = "dump", fmt_result # Fail
  PROVE  /\ RowKept \in Strs
         /\ Len(RowKept) = Least(Len(RowIdeal), Size - StrLen["newline"])
         /\ Len(RowKept) \in Nat /\ Len(RowKept) <= Len(RowIdeal)
         /\ Len(RowKept) <= Size - StrLen["newline"]
         /\ \A k \in 1 .. Len(RowKept) : RowKept[k] = RowIdeal[k]
<1>1. RowIdeal \in Strs /\ Size - StrLen["newline"] \in Nat
  BY RowStrs, SizeInNat
<1> QED
  BY <1>1, CutStr DEF RowKept

\* What the strings depend on
LEMMA SameStrings ==
  ASSUME UNCHANGED <<call, chosen, fmt_result, i>>
  PROVE  Pieces' = Pieces /\ Ideal' = Ideal /\ Kept' = Kept
         /\ RowIdeal' = RowIdeal /\ RowKept' = RowKept
         /\ \A w : Occurs(w)' <=> Occurs(w)
<1>1. Pieces' = Pieces /\ RowIdeal' = RowIdeal /\ Ideal' = Ideal
  BY DEF Pieces, RowIdeal, Ideal, When
<1>2. Kept' = Kept /\ RowKept' = RowKept
  BY <1>1 DEF Kept, RowKept
<1> QED
  BY <1>1, <1>2 DEF Occurs

-----------------------------------------------------------------------------
(* The actions *)

\* The colour is chosen; nothing has been written.
LEMMA OutputText ==
  ASSUME TextIInv, NEW c \in LineCalls, ElogOutput(c)
  PROVE  PiecesInv' /\ TextInv' /\ KeptInv' /\ EndedInv' /\ DoneInv' /\ PlacesInv'
         /\ PassedInv' /\ RowsInv' /\ RawWhole' /\ KeywordExact'
<1>1. /\ pc' = "package" /\ call' = c /\ log_len' = 0 /\ c.kind = "line"
      /\ colored' = IF text_color_enabled THEN {"begin"} ELSE {}
      /\ todo' = When(text_color_enabled, ColorStrings(c)) /\ chosen' = todo'
  BY Kinds DEF ElogOutput, TextIInv, LineIInv, LinePlaces
<1>2. Pieces' = todo'
  BY <1>1 DEF Pieces
<1>3. todo' \in Seq(Strs)
  BY <1>1, ColorIsStrs, NoneIsStrs DEF When
<1>4. SubSeq(todo', 1, Len(todo')) = todo' /\ SubSeq(todo', 1, 0) = <<>>
      /\ Len(todo') \in Nat
  BY <1>3, SubSeqFull, SubSeqEmpty, LenProperties
<1>5. Written(FlattenSeq(SubSeq(Pieces, 1, 0)))'
  <2>1. FlattenSeq(SubSeq(Pieces', 1, 0)) = <<>> /\ Len(<<>>) = 0
    BY <1>2, <1>4, FlattenSteps, EmptySeq
  <2>2. log_len' = Least(0, Size) /\ \A k \in 0 .. (Size - 1) - 1 : ~(k < log_len')
    BY <1>1, SizeInNat DEF Least
  <2> QED
    BY <2>1, <2>2 DEF Written, Matches
<1>6. PiecesInv'
  BY <1>2, <1>4, <1>5 DEF PiecesInv
<1>7. "end" \notin colored'
  BY <1>1
<1> QED
  BY <1>1, <1>6, <1>7
     DEF TextInv, KeptInv, EndedInv, DoneInv, PlacesInv, PassedInv, RowsInv, RawWhole,
         KeywordExact, LineDone

\* A dump begins with its first row.
LEMMA DumpText ==
  ASSUME TextIInv, NEW c \in DumpCalls, ElogHexdump(c)
  PROVE  PiecesInv' /\ TextInv' /\ KeptInv' /\ EndedInv' /\ DoneInv' /\ PlacesInv'
         /\ PassedInv' /\ RowsInv' /\ RawWhole' /\ KeywordExact'
<1>1. pc' = "row" /\ call' = c /\ i' = 0 /\ rows' = 0 /\ "end" \notin colored'
  BY DEF ElogHexdump, TextIInv, PlacesInv
<1>2. c.width \in Nat /\ c.size \in Nat
  <2>1. c.width \in Widths /\ c.size \in Sizes
    BY DEF DumpCalls
  <2> QED
    BY <2>1, CallsInNat
<1>3. c.width > 0 => RowsNeeded(c) \in Nat
  BY <1>2 DEF RowsNeeded
<1>4. RowsInv'
  BY <1>1, <1>2, <1>3, Kinds DEF RowsInv, Ends
<1> QED
  BY <1>1, <1>4
     DEF PiecesInv, TextInv, KeptInv, EndedInv, DoneInv, PlacesInv, PassedInv, RawWhole,
         KeywordExact, LineDone

\* vsnprintf with too long a text ends on the last place of the buffer.
LEMMA PrintFull ==
  ASSUME NEW buf \in Buffers, NEW str \in Strs, Size <= Len(str)
  PROVE  Snprintf(buf, 0, Size, str)[Size - 1] = Nul
<1>0. Len(str) \in Nat
  BY LenProperties DEF Strs
<1> DEFINE p == SubSeq(str, 1, Size - 1)
           q == p \o <<Nul>>
<1>1. Least(Len(str), Size - 1) = Size - 1 /\ Size - 1 \in Nat /\ Size - 1 <= Len(str)
  BY <1>0, SizeInNat DEF Least
<1>2. Snprintf(buf, 0, Size, str) = Write(buf, 0, q)
  BY <1>1, SizeInNat DEF Snprintf
<1>3. p \in Strs /\ Len(p) = Size - 1
  BY <1>1, PrefixStr
<1>4. p \in Seq(Chars \cup {Stale, Nul})
  BY <1>3, SeqMonotonic DEF Strs
<1>5. <<Nul>> \in Seq(Chars \cup {Stale, Nul}) /\ Len(<<Nul>>) = 1 /\ <<Nul>>[1] = Nul
  OBVIOUS
<1> HIDE DEF p
<1>6. /\ q \in Seq(Chars \cup {Stale, Nul}) /\ Len(q) = Len(p) + Len(<<Nul>>)
      /\ \A k \in 1 .. Len(p) + Len(<<Nul>>) :
            q[k] = IF k <= Len(p) THEN p[k] ELSE <<Nul>>[k - Len(p)]
  BY <1>4, <1>5, ConcatProperties
<1>7. Len(q) = Size /\ q[Size] = Nul
  <2>1. Len(p) + Len(<<Nul>>) = Size /\ Size \in 1 .. Size /\ ~(Size <= Len(p))
        /\ Size - Len(p) = 1
    BY <1>1, <1>3, <1>5, SizeInNat
  <2> QED
    BY <1>5, <1>6, <2>1
<1> HIDE DEF q
<1>8. Size - 1 \in 0 .. Size - 1 /\ Size - 1 >= 0 /\ Size - 1 < 0 + Size
      /\ (Size - 1) - 0 + 1 = Size /\ 0 \in Nat
  BY SizeInNat
<1>9. Write(buf, 0, q)[Size - 1] = q[Size]
  <2>1. \A k \in 0 .. Size - 1 :
            Write(buf, 0, q)[k] = IF k >= 0 /\ k < 0 + Len(q) THEN q[k - 0 + 1] ELSE buf[k]
    BY <1>6, <1>8, WriteInBuffer
  <2> QED
    BY <1>7, <1>8, <2>1
<1> QED
  BY <1>2, <1>7, <1>9

\* vsnprintf into the whole buffer
LEMMA PrintFirst ==
  ASSUME NEW buf \in Buffers, NEW str \in Strs
  PROVE  /\ LenAfter(0, Len(str)) = Least(Len(str), Size)
         /\ Matches(Snprintf(buf, 0, Size, str), LenAfter(0, Len(str)), str, Size - 1)
<1> DEFINE e == <<>>
           z == 0
<1>1. e \in Strs /\ z = Least(Len(e), Size)
  <2>1. e \in Strs /\ Len(e) = 0
    BY EmptySeq, NoneIsStrs
  <2> QED
    BY <2>1, SizeInNat DEF Least
<1>2. e \o str = str /\ Size - z = Size
  BY SizeInNat, ConcatEmptySeq DEF Strs
<1>3. Matches(buf, z, e, Size - 1)
  BY SizeInNat DEF Matches
<1> HIDE DEF e, z
<1>4. /\ LenAfter(z, Len(str)) = Least(Len(e \o str), Size)
      /\ Matches(Snprintf(buf, z, Size - z, str), LenAfter(z, Len(str)),
                 e \o str, Size - 1)
  BY <1>1, <1>3, PrintWritten
<1> QED
  BY <1>2, <1>4 DEF z

\* A raw text is output as it is, or cut to the buffer.
LEMMA RawText ==
  ASSUME LineIInv, NEW n \in Nat, ElogRawOutput(n)
  PROVE  IF n < Size THEN out' = StrOf("text", 0, n)
                     ELSE out' = StrOf("text", 0, Size - 1) \o <<Nul>>
<1> DEFINE str == StrOf("text", 0, n)
<1>0. n # Fail
  BY DEF Fail
<1>1. /\ log_buf' = Snprintf(log_buf, 0, Size, str) /\ log_len' = LenAfter(0, n)
      /\ out' = [k \in 1 .. log_len' |-> log_buf'[k - 1]]
  BY <1>0 DEF ElogRawOutput, Line
<1>2. str \in Strs /\ Len(str) = n /\ \A k \in 1 .. n : str[k] = <<"text", 0, k>>
  <2>1. str \in Strs /\ Len(str) = n
    BY StrOfIsStr DEF Sources
  <2> QED
    BY <2>1 DEF StrOf
<1>3. log_buf \in Buffers
  BY InvFacts
<1> HIDE DEF str
<1>4. /\ log_len' = Least(n, Size)
      /\ \A k \in 0 .. Size - 2 : k < log_len' => log_buf'[k] = str[k + 1]
  <2>1. log_len' = Least(n, Size) /\ Matches(log_buf', log_len', str, Size - 1)
    BY <1>1, <1>2, <1>3, PrintFirst
  <2>2. (Size - 1) - 1 = Size - 2
    BY SizeInNat
  <2> QED
    BY <2>1, <2>2 DEF Matches
<1>5. CASE n < Size
  <2>1. log_len' = n
    BY <1>4, <1>5, SizeInNat DEF Least
  <2>2. \A k \in 1 .. n : log_buf'[k - 1] = <<"text", 0, k>>
    <3> TAKE k \in 1 .. n
    <3>1. k - 1 \in 0 .. Size - 2 /\ k - 1 < log_len' /\ (k - 1) + 1 = k
      BY <1>5, <2>1, SizeInNat
    <3> QED
      BY <1>2, <1>4, <3>1
  <2> QED
    BY <1>1, <1>5, <2>1, <2>2 DEF StrOf
<1>6. CASE ~(n < Size)
  <2>1. log_len' = Size /\ Size <= Len(str) /\ Size - 1 \in Nat
    BY <1>2, <1>4, <1>6, SizeInNat DEF Least
  <2>2. log_buf'[Size - 1] = Nul
    BY <1>1, <1>2, <1>3, <2>1, PrintFull
  <2> DEFINE p == StrOf("text", 0, Size - 1)
             T == Chars \cup {Stale, Nul}
  <2>3. p \in Seq(Chars) /\ Len(p) = Size - 1
        /\ \A k \in 1 .. Size - 1 : p[k] = <<"text", 0, k>>
    <3>1. p \in Strs /\ Len(p) = Size - 1
      BY <2>1, StrOfIsStr DEF Sources
    <3> QED
      BY <3>1 DEF StrOf, Strs
  <2>4. p \in Seq(T) /\ <<Nul>> \in Seq(T) /\ Len(<<Nul>>) = 1 /\ <<Nul>>[1] = Nul
    <3>1. p \in Seq(T)
      BY <2>3, SeqMonotonic
    <3> QED
      BY <3>1
  <2> HIDE DEF p, T
  <2>5. /\ p \o <<Nul>> \in Seq(T) /\ Len(p \o <<Nul>>) = Len(p) + Len(<<Nul>>)
        /\ \A k \in 1 .. Len(p) + Len(<<Nul>>) :
              (p \o <<Nul>>)[k] = IF k <= Len(p) THEN p[k] ELSE <<Nul>>[k - Len(p)]
    BY <2>4, ConcatProperties
  <2>6. \A k \in 1 .. Size : log_buf'[k - 1] = (p \o <<Nul>>)[k]
    <3> TAKE k \in 1 .. Size
    <3>0. (p \o <<Nul>>)[k] = IF k <= Size - 1 THEN p[k] ELSE <<Nul>>[k - (Size - 1)]
      BY <2>1, <2>3, <2>4, <2>5, SizeInNat
    <3>1. CASE k = Size
      <4>1. ~(Size <= Size - 1) /\ Size - (Size - 1) = 1
        BY SizeInNat
      <4>2. (p \o <<Nul>>)[Size] = <<Nul>>[1]
        BY <3>0, <3>1, <4>1
      <4> QED
        BY <2>2, <2>4, <3>1, <4>2
    <3>2. CASE k # Size
      <4>1. k - 1 \in 0 .. Size - 2 /\ k - 1 < log_len' /\ (k - 1) + 1 = k
            /\ k \in 1 .. Size - 1 /\ k <= Size - 1 /\ k \in 1 .. n
        BY <1>6, <2>1, <3>2, SizeInNat
      <4>2. log_buf'[k - 1] = <<"text", 0, k>>
        BY <1>2, <1>4, <4>1
      <4> QED
        BY <2>3, <3>0, <4>1, <4>2
    <3> QED
      BY <3>1, <3>2
  <2>7. p \o <<Nul>> = [k \in 1 .. Size |-> log_buf'[k - 1]]
    <3>1. Len(p \o <<Nul>>) = Size
      BY <2>3, <2>4, <2>5, SizeInNat
    <3>2. (p \o <<Nul>>) \in [1 .. Size -> T]
      BY <2>5, <3>1, LenProperties
    <3> QED
      BY <2>6, <3>2
  <2> QED
    BY <1>1, <1>6, <2>1, <2>7 DEF p
<1> QED
  BY <1>5, <1>6

LEMMA RawOutputText ==
  ASSUME TextIInv, NEW n \in Texts \cup {Fail}, ElogRawOutput(n)
  PROVE  PiecesInv' /\ TextInv' /\ KeptInv' /\ EndedInv' /\ DoneInv' /\ PlacesInv'
         /\ PassedInv' /\ RowsInv' /\ RawWhole' /\ KeywordExact'
<1>1. pc' = "done" /\ call' = RawCall /\ fmt_result' = n
  BY DEF ElogRawOutput, TextIInv, LineIInv, LinePlaces
<1>2. n # Fail => n \in Nat
  BY CallsInNat
<1>3. RawWhole'
  BY <1>1, <1>2, RawText DEF TextIInv, RawWhole
<1> QED
  BY <1>1, <1>3, Kinds
     DEF PiecesInv, TextInv, KeptInv, EndedInv, DoneInv, PlacesInv, PassedInv, RowsInv,
         KeywordExact, LineDone

\* A string is copied behind the ones before it.
LEMMA PackageText ==
  ASSUME TextIInv, Package
  PROVE  PiecesInv' /\ TextInv' /\ KeptInv' /\ EndedInv' /\ DoneInv' /\ PlacesInv'
         /\ PassedInv' /\ RowsInv' /\ RawWhole' /\ KeywordExact'
<1> USE DEF Package
<1>1. LineIInv /\ PiecesInv /\ PlacesInv /\ RowsInv
  BY DEF TextIInv
<1>2. Pieces' = Pieces
  BY SameStrings
<1>3. ASSUME fmt_result # Fail
      PROVE  \E d \in 0 .. Len(Pieces) :
                /\ todo' = SubSeq(Pieces, d + 1, Len(Pieces))
                /\ Written(FlattenSeq(SubSeq(Pieces, 1, d)))'
  <2>1. Pieces \in Seq(Strs)
    BY <1>1, <1>3, LineStrs, RowStrs, Kinds, InvFacts DEF LineIInv, LinePlaces
  <2>2. Len(Pieces) \in Nat
    BY <2>1, LenProperties
  <2>3. PICK d \in 0 .. Len(Pieces) :
            /\ todo = SubSeq(Pieces, d + 1, Len(Pieces))
            /\ Written(FlattenSeq(SubSeq(Pieces, 1, d)))
    BY <1>1, <1>3 DEF PiecesInv
  <2>4. d < Len(Pieces)
    <3>1. SUFFICES ASSUME d = Len(Pieces) PROVE FALSE
      BY <2>2
    <3>2. SubSeq(Pieces, d + 1, Len(Pieces)) = <<>>
      BY <2>2, <3>1, SubSeqEmpty
    <3> QED
      BY <2>3, <3>2
  <2>5. d + 1 \in 1 .. Len(Pieces) /\ Len(Pieces) \in d + 1 .. Len(Pieces)
        /\ d + 1 \in 0 .. Len(Pieces) /\ d \in Nat
    BY <2>2, <2>4
  <2> DEFINE x == Pieces[d + 1]
             p == SubSeq(Pieces, 1, d)
  <2>6. Head(todo) = x /\ Tail(todo) = SubSeq(Pieces, (d + 1) + 1, Len(Pieces))
    BY <2>1, <2>3, <2>5, HeadTailOfSubSeq
  <2>7. p \in Seq(Strs) /\ x \in Strs /\ SubSeq(Pieces, 1, d + 1) = Append(p, x)
    <3> DEFINE q == SubSeq(Pieces, 1, d + 1)
    <3>1. \A k \in 1 .. d + 1 : Pieces[k] \in Strs
      BY <2>1, <2>5, ElementOfSeq
    <3>2. /\ q \in Seq(Strs) /\ Len(q) = IF 1 <= d + 1 THEN (d + 1) - 1 + 1 ELSE 0
          /\ \A k \in 1 .. (d + 1) - 1 + 1 : q[k] = Pieces[1 + k - 1]
      BY <2>5, <3>1, SubSeqProperties
    <3>3. \A k \in 1 .. d : Pieces[k] \in Strs
      BY <3>1
    <3>4. /\ p \in Seq(Strs) /\ Len(p) = IF 1 <= d THEN d - 1 + 1 ELSE 0
          /\ \A k \in 1 .. d - 1 + 1 : p[k] = Pieces[1 + k - 1]
      BY <2>5, <3>3, SubSeqProperties
    <3> HIDE DEF p, q
    <3>5. Len(q) = d + 1 /\ Len(p) = d /\ q[d + 1] = x /\ \A k \in 1 .. d : p[k] = q[k]
      BY <2>5, <3>2, <3>4
    <3>6. x \in Strs
      BY <2>5, <3>1
    <3> HIDE DEF x
    <3>7. /\ Append(p, x) \in Seq(Strs) /\ Len(Append(p, x)) = d + 1
          /\ \A k \in 1 .. d : Append(p, x)[k] = q[k]
          /\ Append(p, x)[d + 1] = q[d + 1]
      BY <3>4, <3>5, <3>6, AppendProperties
    <3>8. \A k \in 1 .. Len(q) : q[k] = Append(p, x)[k]
      BY <2>5, <3>5, <3>7
    <3>9. q = Append(p, x)
      BY <3>2, <3>5, <3>7, <3>8, SeqEqual
    <3> QED
      BY <3>4, <3>6, <3>9 DEF q
  <2> HIDE DEF x, p
  <2> DEFINE s == FlattenSeq(p)
  <2>8. s \in Strs /\ FlattenSeq(SubSeq(Pieces, 1, d + 1)) = s \o x
    BY <2>7, FlattenSteps
  <2>9. log_len = Least(Len(s), Size) /\ Matches(log_buf, log_len, s, Size - 1)
    BY <2>3 DEF Written, p
  <2>10. /\ log_buf' = Write(log_buf, log_len, SubSeq(x, 1, Copied(log_len, x)))
         /\ log_len' = log_len + Copied(log_len, x)
         /\ log_buf \in Buffers
    BY <1>1, <2>6, InvFacts
  <2> HIDE DEF s
  <2>11. Size - 1 \in 0 .. Size
    BY SizeInNat
  <2>12. log_len' = Least(Len(s \o x), Size) /\ Matches(log_buf', log_len', s \o x, Size - 1)
    BY <2>7, <2>8, <2>9, <2>10, <2>11, CopyWritten
  <2>13. Written(FlattenSeq(SubSeq(Pieces, 1, d + 1)))'
    BY <1>2, <2>8, <2>12 DEF Written
  <2> QED
    BY <2>5, <2>6, <2>13
<1>4. PiecesInv'
  BY <1>2, <1>3 DEF PiecesInv
<1> QED
  BY <1>1, <1>4
     DEF TextInv, KeptInv, EndedInv, DoneInv, PlacesInv, PassedInv, RowsInv, RawWhole,
         KeywordExact, LineDone

\* All the strings have been copied.
LEMMA AllPieces ==
  ASSUME LineIInv, PiecesInv, pc = "package", todo = <<>>, fmt_result # Fail
  PROVE  /\ Pieces \in Seq(Strs) /\ FlattenSeq(Pieces) \in Strs
         /\ Written(FlattenSeq(Pieces))
<1>1. Pieces \in Seq(Strs)
  BY LineStrs, RowStrs, Kinds, InvFacts DEF LineIInv, LinePlaces
<1>2. Len(Pieces) \in Nat
  BY <1>1, LenProperties
<1>3. PICK d \in 0 .. Len(Pieces) :
          /\ todo = SubSeq(Pieces, d + 1, Len(Pieces))
          /\ Written(FlattenSeq(SubSeq(Pieces, 1, d)))
  BY DEF PiecesInv
<1>4. d = Len(Pieces)
  <2>1. SUFFICES ASSUME d < Len(Pieces) PROVE FALSE
    BY <1>2
  <2>2. \A k \in d + 1 .. Len(Pieces) : Pieces[k] \in Strs
    BY <1>1, <1>2, ElementOfSeq
  <2>3. Len(SubSeq(Pieces, d + 1, Len(Pieces))) =
            IF d + 1 <= Len(Pieces) THEN Len(Pieces) - (d + 1) + 1 ELSE 0
    BY <1>2, <2>2, SubSeqProperties
  <2>4. Len(todo) = Len(Pieces) - (d + 1) + 1
    <3>1. d + 1 <= Len(Pieces)
      BY <1>2, <2>1
    <3>2. Len(SubSeq(Pieces, d + 1, Len(Pieces))) = Len(Pieces) - (d + 1) + 1
      BY <2>3, <3>1
    <3> QED
      BY <1>3, <3>2
  <2>5. Len(todo) = 0
    BY EmptySeq
  <2> QED
    BY <1>2, <2>1, <2>4, <2>5
<1>5. SubSeq(Pieces, 1, d) = Pieces
  BY <1>1, <1>4, SubSeqFull
<1> QED
  BY <1>1, <1>3, <1>5, FlattenSteps

\* The two parts of two sequences in a row
LEMMA ConcatParts ==
  ASSUME NEW a \in Seq(Strs), NEW b \in Seq(Strs)
  PROVE  /\ a \o b \in Seq(Strs) /\ Len(a) \in 0 .. Len(a \o b)
         /\ SubSeq(a \o b, 1, Len(a)) = a
         /\ SubSeq(a \o b, Len(a) + 1, Len(a \o b)) = b
<1> DEFINE c == a \o b
           n == Len(a)
           m == Len(b)
           p == SubSeq(c, 1, n)
           q == SubSeq(c, n + 1, n + m)
<1>1. /\ c \in Seq(Strs) /\ n \in Nat /\ m \in Nat /\ Len(c) = n + m
      /\ \A k \in 1 .. n + m : c[k] = IF k <= n THEN a[k] ELSE b[k - n]
  BY ConcatProperties, LenProperties
<1> HIDE DEF c
<1>2. \A k \in 1 .. n + m : c[k] \in Strs
  BY <1>1, ElementOfSeq
<1> HIDE DEF n, m
<1>3. p = a
  <2>1. \A k \in 1 .. n : c[k] \in Strs
    BY <1>1, <1>2
  <2>2. /\ p \in Seq(Strs) /\ Len(p) = IF 1 <= n THEN n - 1 + 1 ELSE 0
        /\ \A k \in 1 .. n - 1 + 1 : p[k] = c[1 + k - 1]
    BY <1>1, <2>1, SubSeqProperties
  <2> HIDE DEF p
  <2>3. Len(p) = n /\ \A k \in 1 .. n : p[k] = c[k]
    BY <1>1, <2>2
  <2>4. \A k \in 1 .. n : c[k] = a[k]
    BY <1>1
  <2>5. \A k \in 1 .. Len(p) : p[k] = a[k]
    BY <2>3, <2>4
  <2> QED
    BY <2>2, <2>3, <2>5, SeqEqual DEF n
<1>4. q = b
  <2>1. \A k \in n + 1 .. n + m : c[k] \in Strs
    BY <1>1, <1>2
  <2>0. n + 1 \in Int /\ n + m \in Int
    BY <1>1
  <2>2. /\ q \in Seq(Strs)
        /\ Len(q) = IF n + 1 <= n + m THEN (n + m) - (n + 1) + 1 ELSE 0
        /\ \A k \in 1 .. (n + m) - (n + 1) + 1 : q[k] = c[(n + 1) + k - 1]
    BY <2>0, <2>1, SubSeqProperties
  <2> HIDE DEF q
  <2>3. Len(q) = m /\ (n + m) - (n + 1) + 1 = m
    BY <1>1, <2>2
  <2>4. \A k \in 1 .. m : q[k] = b[k]
    <3> TAKE k \in 1 .. m
    <3>1. (n + 1) + k - 1 = n + k /\ n + k \in 1 .. n + m /\ ~(n + k <= n)
          /\ (n + k) - n = k
      BY <1>1
    <3> QED
      BY <1>1, <2>2, <2>3, <3>1
  <2> QED
    BY <2>2, <2>3, <2>4, SeqEqual DEF m
<1>5. n \in 0 .. n + m
  BY <1>1
<1> QED
  BY <1>1, <1>3, <1>4, <1>5 DEF n, c, p, q

\* What a question adds to the line is not yet written.
LEMMA TakeText ==
  ASSUME TextIInv, NEW at, at # "text", NEW on, NEW yes \in Seq(Strs), NEW then,
         NEW no \in Seq(Strs), NEW other, Take(at, on, yes, then, no, other)
  PROVE  PiecesInv' /\ TextInv' /\ KeptInv' /\ EndedInv' /\ DoneInv' /\ PlacesInv'
         /\ PassedInv' /\ RowsInv' /\ RawWhole' /\ KeywordExact'
<1>1. /\ pc = "package" /\ pc' = "package" /\ todo = <<>> /\ point # "text"
      /\ todo' \in Seq(Strs) /\ chosen' = chosen \o todo'
      /\ UNCHANGED <<call, colored, log_buf, log_len, fmt_result, i, rows, out>>
  BY DEF Take
<1>2. LineIInv /\ PiecesInv /\ PlacesInv
  BY DEF TextIInv
<1>3. call.kind = "line" /\ fmt_result # Fail
  BY <1>1, <1>2 DEF LineIInv, LinePlaces, LineBegun
<1>4. Pieces = chosen /\ Pieces' = chosen'
  BY <1>1, <1>3 DEF Pieces
<1>5. chosen \in Seq(Strs) /\ Written(FlattenSeq(chosen))
  BY <1>1, <1>2, <1>3, <1>4, AllPieces
<1> DEFINE d == Len(chosen)
           c == chosen \o todo'
<1>6. /\ d \in 0 .. Len(c)
      /\ SubSeq(c, 1, d) = chosen /\ SubSeq(c, d + 1, Len(c)) = todo'
  BY <1>1, <1>5, ConcatParts
<1>8. log_len' = Least(Len(FlattenSeq(chosen)), Size)
      /\ Matches(log_buf', log_len', FlattenSeq(chosen), Size - 1)
  BY <1>1, <1>5 DEF Written
<1>9. c = chosen'
  BY <1>1
<1> HIDE DEF d, c
<1>10. PiecesInv'
  <2>1. d \in 0 .. Len(Pieces')
    BY <1>4, <1>6, <1>9
  <2>2. todo' = SubSeq(Pieces', d + 1, Len(Pieces'))
    BY <1>4, <1>6, <1>9
  <2>3. SubSeq(Pieces', 1, d) = chosen
    BY <1>4, <1>6, <1>9
  <2>4. \E e \in 0 .. Len(Pieces') :
           /\ todo' = SubSeq(Pieces', e + 1, Len(Pieces'))
           /\ log_len' = Least(Len(FlattenSeq(SubSeq(Pieces', 1, e))), Size)
           /\ Matches(log_buf', log_len', FlattenSeq(SubSeq(Pieces', 1, e)), Size - 1)
    BY <1>8, <2>1, <2>2, <2>3
  <2> QED
    BY <2>4 DEF PiecesInv, Written, Matches
<1> QED
  BY <1>1, <1>2, <1>3, <1>10
     DEF TextInv, KeptInv, EndedInv, DoneInv, PlacesInv, PassedInv, RowsInv, RawWhole,
         KeywordExact, LineDone

LEMMA AskText ==
  ASSUME TextIInv, AskLevelAndTag \/ AskInfo \/ AskPlace
  PROVE  PiecesInv' /\ TextInv' /\ KeptInv' /\ EndedInv' /\ DoneInv' /\ PlacesInv'
         /\ PassedInv' /\ RowsInv' /\ RawWhole' /\ KeywordExact'
<1>0. call \in LineCalls
  <2>1. point # "text"
    BY DEF AskLevelAndTag, AskInfo, AskPlace, Ask, AskUsed, Take
  <2> QED
    BY <2>1, InvFacts, Kinds DEF TextIInv, LineIInv, LinePlaces
<1>1. CASE AskLevelAndTag
  BY <1>0, <1>1, TakeText, AnswersAreStrs DEF AskLevelAndTag, Ask
<1>2. CASE AskInfo
  BY <1>2, TakeText, AnswersAreStrs DEF AskInfo, Ask
<1>3. CASE AskPlace
  BY <1>3, TakeText, AnswersAreStrs DEF AskPlace, AskUsed
<1> QED
  BY <1>1, <1>2, <1>3

\* The text follows the last piece.
LEMMA FormatTextText ==
  ASSUME TextIInv, FormatText
  PROVE  PiecesInv' /\ TextInv' /\ KeptInv' /\ EndedInv' /\ DoneInv' /\ PlacesInv'
         /\ PassedInv' /\ RowsInv' /\ RawWhole' /\ KeywordExact'
<1>1. PICK n \in Texts \cup {Fail} :
        /\ fmt_result' = n
        /\ log_buf' = IF n = Fail THEN log_buf
                      ELSE Snprintf(log_buf, log_len, Size - log_len,
                                    StrOf("text", 0, n))
        /\ log_len' = LenAfter(log_len, n)
  BY DEF FormatText
<1>2. LineIInv /\ PiecesInv /\ PlacesInv
  BY DEF TextIInv
<1>3. fmt_result # Fail /\ pc = "package" /\ todo = <<>> /\ call.kind = "line"
  BY <1>2 DEF FormatText, LineIInv, LineBegun
<1>4. FlattenSeq(Pieces) \in Strs /\ Written(FlattenSeq(Pieces))
  BY <1>2, <1>3, AllPieces
<1>5. ASSUME n # Fail PROVE Written(Ideal)'
  <2> DEFINE s == FlattenSeq(Pieces)
             str == StrOf("text", 0, n)
  <2>1. str \in Strs /\ Len(str) = n
    <3>1. n \in Nat
      BY <1>5, CallsInNat
    <3> QED
      BY <3>1, StrOfIsStr DEF Sources
  <2>2. Ideal' = s \o str
    BY <1>1, <1>3 DEF FormatText, Ideal, Pieces
  <2>3. s \in Strs /\ log_len = Least(Len(s), Size)
        /\ Matches(log_buf, log_len, s, Size - 1)
    BY <1>4 DEF Written
  <2>4. log_buf \in Buffers
    BY <1>2, InvFacts
  <2> HIDE DEF s, str
  <2>5. /\ LenAfter(log_len, Len(str)) = Least(Len(s \o str), Size)
        /\ Matches(Snprintf(log_buf, log_len, Size - log_len, str),
                   LenAfter(log_len, Len(str)), s \o str, Size - 1)
    BY <2>1, <2>3, <2>4, PrintWritten
  <2> QED
    BY <1>1, <1>5, <2>1, <2>2, <2>5 DEF Written, str
<1>6. TextInv'
  BY <1>1, <1>5 DEF TextInv
<1> QED
  BY <1>2, <1>3, <1>6
     DEF FormatText, PiecesInv, KeptInv, EndedInv, DoneInv, PlacesInv, PassedInv, RowsInv,
         RawWhole, KeywordExact, LineDone

\* Of what has been written, the first n characters are shown.
LEMMA CutShows ==
  ASSUME LineIInv, NEW s \in Strs, Written(s), NEW n \in Nat, n < Size,
         NEW t \in Strs, t = SubSeq(s, 1, Least(Len(s), n))
  PROVE  /\ Least(log_len, n) = Len(t)
         /\ Matches(log_buf, Least(log_len, n), t, Size)
<1> DEFINE m == Least(Len(s), n)
<1>1. /\ m \in Nat /\ m <= Len(s) /\ m <= n
      /\ Len(t) = m /\ \A k \in 1 .. m : t[k] = s[k]
  BY CutStr
<1>2. Len(s) \in Nat
  BY LenProperties DEF Strs
<1>3. Least(log_len, n) = m
  BY <1>2, SizeInNat DEF Written, Least
<1> HIDE DEF m
<1>4. ASSUME NEW k \in 0 .. Size - 1, k < m PROVE log_buf[k] = t[k + 1]
  <2>1. k \in 0 .. (Size - 1) - 1 /\ k < log_len /\ k + 1 \in 1 .. m
    BY <1>1, <1>2, <1>4, SizeInNat DEF Written, Least
  <2> QED
    BY <1>1, <2>1 DEF Written, Matches
<1> QED
  BY <1>1, <1>3, <1>4 DEF Matches

\* What leaves room for the end is kept.
LEMMA ReserveText ==
  ASSUME TextIInv, ReserveEnd
  PROVE  PiecesInv' /\ TextInv' /\ KeptInv' /\ EndedInv' /\ DoneInv' /\ PlacesInv'
         /\ PassedInv' /\ RowsInv' /\ RawWhole' /\ KeywordExact'
<1>1. LineIInv /\ TextInv /\ PlacesInv
  BY DEF TextIInv
<1>2. /\ call.kind = "line" /\ pc = "reserve" /\ pc' = "filter"
      /\ log_len' = Least(log_len, Size - Reserve) /\ log_buf' = log_buf
  BY <1>1 DEF ReserveEnd, LineIInv, LinePlaces
<1>3. Kept' = Kept
  BY SameStrings DEF ReserveEnd
<1>4. ASSUME fmt_result # Fail PROVE Shows(Kept)'
  <2>1. Ideal \in Strs /\ Written(Ideal) /\ Kept \in Strs
    BY <1>1, <1>2, <1>4, LineStrs, KeptStr DEF TextInv
  <2>2. Size - Reserve \in Nat /\ Size - Reserve < Size
    BY SizeInNat
  <2>3. Kept = SubSeq(Ideal, 1, Least(Len(Ideal), Size - Reserve))
    BY DEF Kept
  <2>4. /\ Least(log_len, Size - Reserve) = Len(Kept)
        /\ Matches(log_buf, Least(log_len, Size - Reserve), Kept, Size)
    BY <1>1, <2>1, <2>2, <2>3, CutShows
  <2> QED
    BY <1>2, <1>3, <2>4 DEF Shows
<1>5. KeptInv'
  BY <1>4 DEF KeptInv, ReserveEnd
<1> QED
  BY <1>1, <1>2, <1>5
     DEF ReserveEnd, PiecesInv, TextInv, EndedInv, DoneInv, PlacesInv, PassedInv, RowsInv,
         RawWhole, KeywordExact, LineDone

LEMMA ReserveRowText ==
  ASSUME TextIInv, ReserveRow
  PROVE  PiecesInv' /\ TextInv' /\ KeptInv' /\ EndedInv' /\ DoneInv' /\ PlacesInv'
         /\ PassedInv' /\ RowsInv' /\ RawWhole' /\ KeywordExact'
<1>1. LineIInv /\ PiecesInv /\ RowsInv /\ PlacesInv
  BY DEF TextIInv
<1>2. /\ call.kind = "dump" /\ pc = "package" /\ todo = <<>> /\ pc' = "newline"
      /\ log_len' = Least(log_len, Size - StrLen["newline"]) /\ log_buf' = log_buf
      /\ call' = call /\ fmt_result' = fmt_result
  BY DEF ReserveRow
<1>3. RowKept' = RowKept
  BY SameStrings DEF ReserveRow
<1>4. ASSUME fmt_result # Fail PROVE Shows(BeforeNewline)'
  <2>1. RowIdeal \in Strs /\ Written(RowIdeal) /\ RowKept \in Strs
    <3>1. Written(FlattenSeq(Pieces))
      BY <1>1, <1>2, <1>4, AllPieces
    <3> QED
      BY <1>1, <1>2, <1>4, <3>1, RowStrs, RowKeptStr
  <2>2. Size - StrLen["newline"] \in Nat /\ Size - StrLen["newline"] < Size
    BY SizeInNat
  <2>3. RowKept = SubSeq(RowIdeal, 1, Least(Len(RowIdeal), Size - StrLen["newline"]))
    BY DEF RowKept
  <2>4. /\ Least(log_len, Size - StrLen["newline"]) = Len(RowKept)
        /\ Matches(log_buf, Least(log_len, Size - StrLen["newline"]), RowKept, Size)
    BY <1>1, <2>1, <2>2, <2>3, CutShows
  <2>5. BeforeNewline' = RowKept
    BY <1>2, <1>3 DEF BeforeNewline
  <2> QED
    BY <1>2, <2>4, <2>5 DEF Shows
<1>5. EndedInv'
  BY <1>2, <1>4 DEF EndedInv
<1>6. call # RawCall
  BY <1>2 DEF RawCall
<1> QED
  BY <1>1, <1>2, <1>5, <1>6
     DEF ReserveRow, PiecesInv, TextInv, KeptInv, DoneInv, PlacesInv, PassedInv, RowsInv,
         RawWhole, KeywordExact, LineDone

\* strstr finds the keyword exactly when it is in front of the end sign.
LEMMA HoldsKept ==
  ASSUME NEW buf \in Buffers, NEW s \in Strs, NEW n \in Nat, n = Len(s), n < Size,
         Matches(buf, n, s, Size), buf[n] = Nul,
         NEW T, NEW word \in Seq(T), word # <<>>
  PROVE  Holds(buf, word) <=>
            \E k \in 0 .. Len(s) - Len(word) : SubSeq(s, k + 1, k + Len(word)) = word
<1>1. Len(word) \in Nat /\ Len(word) > 0
  BY EmptySeq, LenProperties
<1>2. \A k \in 0 .. n - 1 : buf[k] = s[k + 1] /\ buf[k] \in Chars /\ buf[k] # Nul
  <2> TAKE k \in 0 .. n - 1
  <2>1. k \in 0 .. Size - 1 /\ k < n /\ k + 1 \in 1 .. Len(s)
    BY SizeInNat
  <2>2. buf[k] = s[k + 1]
    BY <2>1 DEF Matches
  <2>3. s[k + 1] \in Chars
    BY <2>1, ElementOfSeq DEF Strs
  <2> QED
    BY <2>2, <2>3, NotChars
<1>3. ASSUME NEW p \in Nat, p + Len(word) <= n
      PROVE  SubSeq(s, p + 1, p + Len(word)) = word
                <=> \A k \in 1 .. Len(word) : buf[p + k - 1] = word[k]
  <2> DEFINE q == SubSeq(s, p + 1, p + Len(word))
  <2>1. \A j \in p + 1 .. p + Len(word) : s[j] \in Chars
    BY <1>1, <1>3, ElementOfSeq DEF Strs
  <2>2. /\ q \in Seq(Chars)
        /\ Len(q) = IF p + 1 <= p + Len(word) THEN (p + Len(word)) - (p + 1) + 1 ELSE 0
        /\ \A k \in 1 .. (p + Len(word)) - (p + 1) + 1 : q[k] = s[(p + 1) + k - 1]
    BY <1>1, <2>1, SubSeqProperties
  <2>3. Len(q) = Len(word) /\ (p + Len(word)) - (p + 1) + 1 = Len(word)
    BY <1>1, <2>2
  <2>4. \A k \in 1 .. Len(word) : q[k] = buf[p + k - 1]
    <3> TAKE k \in 1 .. Len(word)
    <3>1. p + k - 1 \in 0 .. n - 1 /\ (p + k - 1) + 1 = (p + 1) + k - 1
      BY <1>1, <1>3
    <3> QED
      BY <1>2, <2>2, <2>3, <3>1
  <2>5. q \in Seq(Chars \cup T) /\ word \in Seq(Chars \cup T)
    BY <2>2, SeqMonotonic
  <2> HIDE DEF q
  <2>6. q = word <=> \A k \in 1 .. Len(word) : q[k] = word[k]
    BY <2>3, <2>5, SeqEqual
  <2> QED
    BY <2>4, <2>6 DEF q
<1>4. ASSUME Holds(buf, word)
      PROVE  \E k \in 0 .. Len(s) - Len(word) : SubSeq(s, k + 1, k + Len(word)) = word
  <2>1. PICK p \in 0 .. Size - Len(word) :
            /\ \A k \in 1 .. Len(word) : buf[p + k - 1] = word[k]
            /\ \A q \in 0 .. p + Len(word) - 1 : buf[q] # Nul
    BY <1>4 DEF Holds
  <2>2. p + Len(word) <= n
    <3>1. SUFFICES ASSUME n < p + Len(word) PROVE FALSE
      BY <1>1, <2>1, SizeInNat
    <3>2. n \in 0 .. p + Len(word) - 1
      BY <1>1, <2>1, <3>1, SizeInNat
    <3> QED
      BY <2>1, <3>2
  <2>3. p \in Nat /\ p \in 0 .. Len(s) - Len(word)
    BY <1>1, <2>1, <2>2, SizeInNat
  <2> QED
    BY <1>3, <2>1, <2>2, <2>3
<1>5. ASSUME NEW p \in 0 .. Len(s) - Len(word), SubSeq(s, p + 1, p + Len(word)) = word
      PROVE  Holds(buf, word)
  <2>1. p \in Nat /\ p + Len(word) <= n /\ p \in 0 .. Size - Len(word)
    BY <1>1, <1>5, SizeInNat
  <2>2. \A k \in 1 .. Len(word) : buf[p + k - 1] = word[k]
    BY <1>3, <1>5, <2>1
  <2>3. \A q \in 0 .. p + Len(word) - 1 : buf[q] # Nul
    <3> TAKE q \in 0 .. p + Len(word) - 1
    <3>1. q \in 0 .. n - 1
      BY <1>1, <2>1
    <3> QED
      BY <1>2, <3>1
  <2> QED
    BY <2>1, <2>2, <2>3 DEF Holds
<1> QED
  BY <1>4, <1>5

\* The keyword is looked for in what is kept.
LEMMA KeywordText ==
  ASSUME TextIInv, FilterKeyword
  PROVE  PiecesInv' /\ TextInv' /\ KeptInv' /\ EndedInv' /\ DoneInv' /\ PlacesInv'
         /\ PassedInv' /\ RowsInv' /\ RawWhole' /\ KeywordExact'
<1>1. LineIInv /\ KeptInv /\ PlacesInv
  BY DEF TextIInv
<1>2. /\ call.kind = "line" /\ pc = "filter" /\ out = <<>> /\ pc' \in {"end", "done"}
      /\ UNCHANGED <<call, text_color_enabled, colored, log_len, todo, chosen,
                     fmt_result, i, rows, out>>
  BY <1>1 DEF FilterKeyword, LineIInv, LinePlaces
<1>3. Kept' = Kept /\ \A w : Occurs(w)' <=> Occurs(w)
  BY <1>2, SameStrings
<1>4. ASSUME fmt_result # Fail
      PROVE  /\ Shows(Kept)'
             /\ call.keyword # <<>> => (pc' = "end" <=> Occurs(call.keyword))
  <2>1. Kept \in Strs /\ log_len = Len(Kept) /\ Matches(log_buf, log_len, Kept, Size)
    BY <1>1, <1>2, <1>4, KeptStr DEF KeptInv, Shows
  <2>2. log_len \in Nat /\ log_len < Size /\ log_buf \in Buffers
    BY <1>1, <1>2, InvFacts, SizeInNat DEF LineIInv, LineBounded
  <2>3. CASE call.keyword = <<>>
    <3>1. log_buf' = log_buf
      BY <2>3 DEF FilterKeyword
    <3> QED
      BY <1>2, <1>3, <2>1, <2>3, <3>1 DEF Shows
  <2>4. CASE call.keyword # <<>>
    <3> DEFINE b == [log_buf EXCEPT ![log_len] = Nul]
    <3>1. log_buf' = b /\ (pc' = "end" <=> Holds(b, call.keyword))
      BY <2>4 DEF FilterKeyword
    <3>2. b \in Buffers /\ b[log_len] = Nul /\ \A k \in 0 .. Size - 1 :
              k < log_len => b[k] = log_buf[k]
      <4>1. log_len \in 0 .. Size - 1
        BY <2>2, SizeInNat
      <4> QED
        BY <2>2, <4>1 DEF Buffers
    <3>3. Matches(b, log_len, Kept, Size)
      BY <2>1, <3>2 DEF Matches
    <3>4. call.keyword \in Seq(STRING \X Nat \X Nat)
      <4>1. call.keyword \in Keywords
        BY <1>1, <1>2, InvFacts, Kinds DEF LineCalls
      <4> QED
        BY <4>1, LineAssumption
    <3> HIDE DEF b
    <3>5. Holds(b, call.keyword) <=>
              \E k \in 0 .. Len(Kept) - Len(call.keyword) :
                  SubSeq(Kept, k + 1, k + Len(call.keyword)) = call.keyword
      BY <2>1, <2>2, <2>4, <3>2, <3>3, <3>4, HoldsKept
    <3> QED
      BY <1>2, <1>3, <2>1, <3>1, <3>3, <3>5 DEF Shows, Occurs
  <2> QED
    BY <2>3, <2>4
<1>5. KeptInv'
  BY <1>2, <1>4 DEF KeptInv
<1>6. KeywordExact'
  <2> SUFFICES ASSUME pc' = "done", fmt_result # Fail, call.keyword # <<>>
               PROVE  out' # <<>> <=> Occurs(call.keyword)'
    BY <1>2 DEF KeywordExact, LineDone, Occurs
  <2> QED
    BY <1>2, <1>3, <1>4
<1>7. PassedInv'
  <2> SUFFICES ASSUME pc' = "end", fmt_result # Fail, call.keyword # <<>>
               PROVE  Occurs(call.keyword)'
    BY <1>2 DEF PassedInv
  <2> QED
    BY <1>2, <1>3, <1>4
<1> QED
  BY <1>1, <1>2, <1>5, <1>6, <1>7, Kinds
     DEF PiecesInv, TextInv, EndedInv, DoneInv, PlacesInv, RowsInv, RawWhole, LineDone,
         RawCall

\* A string that has room is copied whole.
LEMMA CopyShows ==
  ASSUME LineIInv, NEW s \in Strs, Shows(s), NEW str \in Strs,
         log_len + Len(str) <= Size,
         log_buf' = Write(log_buf, log_len, SubSeq(str, 1, Copied(log_len, str))),
         log_len' = log_len + Copied(log_len, str)
  PROVE  log_len' = Len(s \o str) /\ Matches(log_buf', log_len', s \o str, Size)
<1>1. Len(s) \in Nat /\ Len(str) \in Nat /\ Len(s \o str) = Len(s) + Len(str)
  BY ConcatStr
<1>2. log_len = Len(s) /\ Matches(log_buf, log_len, s, Size) /\ log_buf \in Buffers
  BY InvFacts DEF Shows
<1>3. log_len = Least(Len(s), Size) /\ Least(Len(s \o str), Size) = Len(s \o str)
      /\ Size \in 0 .. Size
  BY <1>1, <1>2, SizeInNat DEF Least
<1> QED
  BY <1>2, <1>3, CopyWritten

\* The CSI end sign follows if the colour is on now.
LEMMA EndText ==
  ASSUME TextIInv, AppendEnd
  PROVE  PiecesInv' /\ TextInv' /\ KeptInv' /\ EndedInv' /\ DoneInv' /\ PlacesInv'
         /\ PassedInv' /\ RowsInv' /\ RawWhole' /\ KeywordExact'
<1>1. LineIInv /\ KeptInv /\ PlacesInv /\ PassedInv
  BY DEF TextIInv
<1>2. /\ call.kind = "line" /\ pc = "end" /\ pc' = "newline"
      /\ UNCHANGED <<call, text_color_enabled, todo, chosen, fmt_result, i, rows, out>>
      /\ "end" \notin colored
  BY <1>1 DEF AppendEnd, LineIInv, LinePlaces, PlacesInv
<1>3. Kept' = Kept /\ \A w : Occurs(w)' <=> Occurs(w)
  BY <1>2, SameStrings
<1>4. ASSUME fmt_result # Fail PROVE Shows(BeforeNewline)'
  <2>1. Kept \in Strs /\ Shows(Kept)
    BY <1>1, <1>2, <1>4, KeptStr DEF KeptInv
  <2>2. CASE text_color_enabled
    <3> DEFINE str == Fixed("csi_end")
    <3>1. str \in Strs /\ Len(str) = StrLen["csi_end"]
      BY StrOfIsStr, SizeInNat DEF Fixed, Sources, StrNames
    <3>2. /\ log_buf' = Write(log_buf, log_len, SubSeq(str, 1, Copied(log_len, str)))
          /\ log_len' = log_len + Copied(log_len, str) /\ "end" \in colored'
      BY <2>2 DEF AppendEnd
    <3>3. BeforeNewline' = Kept \o str
      BY <1>2, <1>3, <3>2 DEF BeforeNewline, When, Fixed, StrOf
    <3>4. log_len + Len(str) <= Size
      BY <1>1, <1>2, <3>1, InvFacts, SizeInNat DEF LineIInv, LineBounded
    <3> HIDE DEF str
    <3>5. log_len' = Len(Kept \o str) /\ Matches(log_buf', log_len', Kept \o str, Size)
      BY <1>1, <2>1, <3>1, <3>2, <3>4, CopyShows
    <3> QED
      BY <3>3, <3>5 DEF Shows
  <2>3. CASE ~text_color_enabled
    <3>1. UNCHANGED <<log_buf, log_len, colored>>
      BY <2>3 DEF AppendEnd
    <3>2. BeforeNewline' = Kept
      <4>1. BeforeNewline' = Kept \o <<>>
        BY <1>2, <1>3, <3>1 DEF BeforeNewline, When
      <4> QED
        BY <2>1, <4>1, ConcatEmptySeq DEF Strs
    <3> QED
      BY <2>1, <3>1, <3>2 DEF Shows
  <2> QED
    BY <2>2, <2>3
<1>5. EndedInv'
  BY <1>2, <1>4 DEF EndedInv
<1>6. PassedInv'
  BY <1>1, <1>2, <1>3 DEF PassedInv
<1> QED
  BY <1>2, <1>5, <1>6, Kinds
     DEF PiecesInv, TextInv, KeptInv, DoneInv, PlacesInv, RowsInv, RawWhole, LineDone,
         KeywordExact, RawCall

\* The rows that the data need are those that begin before its end.
LEMMA RowsCeil ==
  ASSUME NEW size \in Nat, NEW w \in Nat, w > 0,
         NEW R, R = (size + w - 1) \div w
  PROVE  R \in Nat /\ \A r \in Nat : r * w < size <=> r < R
<1> DEFINE a == size + w - 1
<1>1. a \in Nat
  OBVIOUS
<1>2. R \in Nat /\ R * w <= a /\ a < R * w + w
  <2>1. R = a \div w
    OBVIOUS
  <2> HIDE DEF a
  <2>2. R \in Nat /\ w * R <= a
    BY <1>1, <2>1
  <2>3. a < w * R + w
    BY <1>1, <2>1
  <2>4. w * R = R * w
    BY <2>2
  <2> QED
    BY <2>2, <2>3, <2>4
<1>3. ASSUME NEW r \in Nat PROVE r * w < size <=> r < R
  <2>1. CASE r < R
    <3>1. r + 1 <= R /\ r + 1 \in Nat
      BY <1>2, <2>1
    <3>2. (r + 1) * w <= R * w
      BY <1>2, <3>1
    <3>3. (r + 1) * w = r * w + w
      OBVIOUS
    <3>4. r * w \in Nat /\ R * w \in Nat
      BY <1>2
    <3> QED
      BY <1>2, <2>1, <3>2, <3>3, <3>4
  <2>2. CASE ~(r < R)
    <3>1. R <= r
      BY <1>2, <2>2
    <3>2. R * w <= r * w
      BY <1>2, <3>1
    <3>4. r * w \in Nat /\ R * w \in Nat
      BY <1>2
    <3> QED
      BY <1>2, <2>2, <3>2, <3>4
  <2> QED
    BY <2>1, <2>2
<1> QED
  BY <1>2, <1>3

\* The numbers of a dump that ends
LEMMA DumpFacts ==
  ASSUME LineIInv, RowsInv, call.kind = "dump", Ends(call)
  PROVE  /\ call.width \in Nat /\ call.width > 0 /\ call.size \in Nat /\ call.size < Wrap
         /\ RowsNeeded(call) \in Nat /\ rows \in 0 .. RowsNeeded(call)
         /\ \A r \in Nat : r * call.width < call.size <=> r < RowsNeeded(call)
         /\ call.size # 0 => RowsNeeded(call) * call.width < Wrap
<1>1. call \in DumpCalls
  BY InvFacts, Kinds
<1>2. call.width \in Widths /\ call.size \in Sizes
  BY <1>1 DEF DumpCalls
<1>3. call.width \in Nat /\ call.size \in Nat
  BY <1>2, CallsInNat
<1>4. call.size < Wrap
  <2>1. Sizes \subseteq 0 .. Wrap - 1 /\ Wrap \in Nat
    BY LineAssumption
  <2>2. call.size \in 0 .. Wrap - 1
    BY <1>2, <2>1
  <2> QED
    BY <2>1, <2>2
<1>5. call.width > 0 /\ (call.size = 0 \/ RowsNeeded(call) * call.width < Wrap)
  BY DEF Ends
<1>6. /\ RowsNeeded(call) \in Nat
      /\ \A r \in Nat : r * call.width < call.size <=> r < RowsNeeded(call)
  <2> DEFINE size == call.size
             w == call.width
             R == RowsNeeded(call)
  <2>1. size \in Nat /\ w \in Nat /\ w > 0 /\ R = (size + w - 1) \div w
    BY <1>3, <1>5 DEF RowsNeeded
  <2> HIDE DEF size, w, R
  <2>2. R \in Nat /\ \A r \in Nat : r * w < size <=> r < R
    BY <2>1, RowsCeil
  <2> QED
    BY <2>2 DEF size, w, R
<1> QED
  BY <1>3, <1>4, <1>5, <1>6 DEF RowsInv

\* A string that reaches the end of the buffer in use
LEMMA LineIsStr ==
  ASSUME NEW buf \in Buffers, NEW s \in Strs, NEW n, n = Len(s), n <= Size,
         Matches(buf, n, s, Size)
  PROVE  Line(buf, n) = s
<1>1. Len(s) \in Nat /\ s \in [1 .. Len(s) -> Chars]
  BY LenProperties DEF Strs
<1>2. \A k \in 1 .. n : buf[k - 1] = s[k]
  <2> TAKE k \in 1 .. n
  <2>1. k - 1 \in 0 .. Size - 1 /\ k - 1 < n /\ (k - 1) + 1 = k
    BY <1>1, SizeInNat
  <2> QED
    BY <2>1 DEF Matches
<1> QED
  BY <1>1, <1>2 DEF Line

\* Only lines and rows come to the newline sign.
LEMMA BeforeNewlineStr ==
  ASSUME LineIInv, PlacesInv, pc = "newline", fmt_result # Fail
  PROVE  /\ BeforeNewline \in Strs
         /\ call.kind = "line" \/ call.kind = "dump"
         /\ call.kind = "dump" => BeforeNewline = RowKept
<1>1. call.kind = "line" \/ call.kind = "dump"
  BY InvFacts, Kinds DEF PlacesInv
<1>2. CASE call.kind = "line"
  <2>1. Kept \in Strs
    BY <1>2, KeptStr
  <2>2. When("end" \in colored, Fixed("csi_end")) \in Strs
    BY FixedIsStr, NoneIsStrs DEF When, StrNames
  <2> QED
    BY <1>2, <2>1, <2>2, ConcatStr DEF BeforeNewline
<1>3. CASE call.kind = "dump"
  BY <1>3, RowKeptStr DEF BeforeNewline
<1> QED
  BY <1>1, <1>2, <1>3

\* The newline sign has room; then the line or the row is output.
LEMMA NewlineText ==
  ASSUME TextIInv, AppendNewline
  PROVE  PiecesInv' /\ TextInv' /\ KeptInv' /\ EndedInv' /\ DoneInv' /\ PlacesInv'
         /\ PassedInv' /\ RowsInv' /\ RawWhole' /\ KeywordExact'
<1>1. LineIInv /\ EndedInv /\ PlacesInv /\ PassedInv /\ RowsInv
  BY DEF TextIInv
<1>2. /\ pc = "newline" /\ call # RawCall
      /\ UNCHANGED <<call, text_color_enabled, colored, todo, chosen, fmt_result, i>>
      /\ out' = Line(log_buf', log_len')
      /\ IF call.kind = "dump" THEN pc' = "next" /\ rows' = Least(rows + 1, Wrap)
                               ELSE pc' = "done" /\ rows' = rows
  BY <1>1 DEF AppendNewline, PlacesInv
<1>3. /\ Kept' = Kept /\ RowKept' = RowKept /\ \A w : Occurs(w)' <=> Occurs(w)
      /\ BeforeNewline' = BeforeNewline
  <2>1. Kept' = Kept /\ RowKept' = RowKept /\ \A w : Occurs(w)' <=> Occurs(w)
    BY <1>2, SameStrings
  <2> QED
    BY <1>2, <2>1 DEF BeforeNewline, When, Fixed, StrOf
<1> DEFINE str == Fixed("newline")
<1>4. str \in Strs /\ Len(str) = StrLen["newline"] /\ str' = str
  <2>1. str \in Strs /\ Len(str) = StrLen["newline"]
    BY StrOfIsStr, SizeInNat DEF Fixed, Sources, StrNames
  <2> QED
    BY <2>1 DEF Fixed, StrOf
<1>5. ASSUME fmt_result # Fail
      PROVE  out' = BeforeNewline \o str /\ out' # <<>>
  <2> DEFINE s == BeforeNewline
  <2>1. s \in Strs /\ Shows(s)
    BY <1>1, <1>2, <1>5, BeforeNewlineStr DEF EndedInv
  <2>2. /\ log_buf' = Write(log_buf, log_len, SubSeq(str, 1, Copied(log_len, str)))
        /\ log_len' = log_len + Copied(log_len, str)
    BY DEF AppendNewline
  <2>3. log_len + Len(str) <= Size
    BY <1>1, <1>2, <1>4 DEF LineIInv, LineBounded
  <2> HIDE DEF s, str
  <2>4. log_len' = Len(s \o str) /\ Matches(log_buf', log_len', s \o str, Size)
    BY <1>1, <1>4, <2>1, <2>2, <2>3, CopyShows
  <2>5. s \o str \in Strs /\ Len(s \o str) = Len(s) + Len(str) /\ Len(s) \in Nat
    BY <1>4, <2>1, ConcatStr
  <2>6. Len(s \o str) <= Size /\ Len(s \o str) > 0
    BY <1>4, <2>1, <2>3, <2>5, SizeInNat DEF Shows
  <2>7. log_buf' \in Buffers
    BY <1>1, <1>4, <2>2, CopyStep
  <2>8. out' = s \o str
    BY <1>2, <2>4, <2>5, <2>6, <2>7, LineIsStr
  <2>9. s \o str # <<>>
    BY <2>6, EmptySeq
  <2> QED
    BY <2>8, <2>9 DEF s
<1>6. DoneInv'
  <2>1. pc' = "next" /\ fmt_result' # Fail => out' = RowKept' \o Fixed("newline")'
    BY <1>1, <1>2, <1>3, <1>4, <1>5, BeforeNewlineStr
  <2>2. LineDone' => out' = BeforeNewline' \o Fixed("newline")'
    BY <1>2, <1>3, <1>4, <1>5 DEF LineDone
  <2> QED
    BY <2>1, <2>2 DEF DoneInv
<1>7. KeywordExact'
  <2> SUFFICES ASSUME LineDone', call.keyword # <<>>
               PROVE  out' # <<>> /\ Occurs(call.keyword)'
    BY <1>2 DEF KeywordExact, LineDone, Occurs
  <2>1. fmt_result # Fail /\ call.kind = "line"
    BY <1>2 DEF LineDone
  <2> QED
    BY <1>1, <1>2, <1>3, <1>5, <2>1 DEF PassedInv
<1>8. RowsInv'
  <2> SUFFICES ASSUME call.kind = "dump", Ends(call)
               PROVE  /\ rows' \in 0 .. RowsNeeded(call)
                      /\ i < call.size /\ rows' > 0 /\ i = (rows' - 1) * call.width
    BY <1>2 DEF RowsInv, Ends
  <2>1. i = rows * call.width /\ i < call.size
    BY <1>1, <1>2 DEF RowsInv
  <2>2. /\ RowsNeeded(call) \in Nat /\ rows \in Nat /\ call.width \in Nat /\ call.width > 0
        /\ rows < RowsNeeded(call) /\ RowsNeeded(call) * call.width < Wrap
    BY <1>1, <2>1, DumpFacts
  <2>3. RowsNeeded(call) <= RowsNeeded(call) * call.width
    BY <2>2
  <2>4. rows' = rows + 1
    <3>1. Wrap \in Nat
      BY LineAssumption
    <3>2. rows + 1 < Wrap
      <4>1. RowsNeeded(call) * call.width \in Nat
        BY <2>2
      <4> QED
        BY <2>2, <2>3, <3>1, <4>1
    <3> QED
      BY <1>2, <2>2, <3>1, <3>2 DEF Least
  <2>5. rows' - 1 = rows /\ rows' \in 0 .. RowsNeeded(call) /\ rows' > 0
    BY <2>2, <2>4
  <2> QED
    BY <2>1, <2>5
<1>9. call.kind = "dump" => "end" \notin colored'
  BY <1>1, <1>2 DEF PlacesInv
<1> QED
  BY <1>2, <1>6, <1>7, <1>8, <1>9
     DEF PiecesInv, TextInv, KeptInv, EndedInv, PlacesInv, PassedInv, RawWhole

\* A row begins with its header, or the dump ends.
LEMMA StartRowText ==
  ASSUME TextIInv, StartRow
  PROVE  PiecesInv' /\ TextInv' /\ KeptInv' /\ EndedInv' /\ DoneInv' /\ PlacesInv'
         /\ PassedInv' /\ RowsInv' /\ RawWhole' /\ KeywordExact'
<1>1. LineIInv /\ LineIInv' /\ PlacesInv /\ RowsInv
  BY LineStep DEF TextIInv, LineNext, Step
<1>2. /\ pc = "row" /\ call.kind = "dump" /\ call # RawCall
      /\ UNCHANGED <<call, text_color_enabled, colored, i, rows, out>>
  BY <1>1, Kinds DEF StartRow, LineIInv, LinePlaces, RawCall
<1>3. CASE ~(i < call.size)
  <2>1. pc' = "done" /\ fmt_result' = fmt_result
    BY <1>3 DEF StartRow
  <2>2. RowsInv'
    <3> SUFFICES ASSUME Ends(call)
                 PROVE  rows \in 0 .. RowsNeeded(call) /\ rows = RowsNeeded(call)
      BY <1>2, <2>1 DEF RowsInv, Ends
    <3>1. i = rows * call.width
      BY <1>1, <1>2 DEF RowsInv
    <3>2. rows \in 0 .. RowsNeeded(call) /\ RowsNeeded(call) \in Nat
          /\ ~(rows < RowsNeeded(call))
      BY <1>1, <1>2, <1>3, <3>1, DumpFacts
    <3> QED
      BY <3>2
  <2>3. "end" \notin colored'
    BY <1>1, <1>2 DEF PlacesInv
  <2> QED
    BY <1>2, <2>1, <2>2, <2>3
       DEF PiecesInv, TextInv, KeptInv, EndedInv, DoneInv, PlacesInv, PassedInv, RawWhole,
           LineDone, KeywordExact
<1>4. CASE i < call.size
  <2>1. PICK n \in Headers \cup {Fail} :
            /\ fmt_result' = n
            /\ log_buf' = IF n = Fail THEN StaleBuf
                          ELSE Snprintf(StaleBuf, 0, Size, StrOf("header", i, n))
            /\ log_len' = LenAfter(0, n)
            /\ todo' = RowStrings(call, i)
            /\ pc' = "package"
    BY <1>4 DEF StartRow
  <2>2. ASSUME n # Fail
        PROVE  \E d \in 0 .. Len(Pieces') :
                  /\ todo' = SubSeq(Pieces', d + 1, Len(Pieces'))
                  /\ Written(FlattenSeq(SubSeq(Pieces, 1, d)))'
    <3> DEFINE h == StrOf("header", i, n)
               row == RowStrings(call, i)
    <3>1. call \in DumpCalls /\ n \in Nat /\ i \in Nat
      BY <1>1, <1>2, <2>2, InvFacts, Kinds, CallsInNat
    <3>2. h \in Strs /\ Len(h) = n
      BY <3>1, StrOfIsStr DEF Sources
    <3>3. row \in Seq(Strs) /\ <<h>> \in Seq(Strs) /\ Len(<<h>>) = 1
      BY <3>1, <3>2, RowIsStrs, OneIsStrs
    <3>4. Pieces' = <<h>> \o row
      BY <1>2, <2>1 DEF Pieces, StrOf, RowStrings, When, Mark
    <3>5. log_len' = Least(Len(h), Size) /\ Matches(log_buf', log_len', h, Size - 1)
      BY <2>1, <2>2, <3>2, StaleIsBuffer, PrintFirst
    <3>6. todo' = row
      BY <2>1
    <3> HIDE DEF h, row
    <3> DEFINE p == <<h>> \o row
    <3>7. /\ p \in Seq(Strs) /\ Len(p) = 1 + Len(row) /\ Len(row) \in Nat
          /\ \A k \in 1 .. 1 + Len(row) :
                p[k] = IF k <= Len(<<h>>) THEN <<h>>[k] ELSE row[k - Len(<<h>>)]
      BY <3>3, ConcatProperties, LenProperties
    <3> HIDE DEF p
    <3>8. \A k \in 1 .. Len(p) : p[k] \in Strs
      BY <3>7, ElementOfSeq
    <3>9. SubSeq(p, 2, Len(p)) = row
      <4> DEFINE q == SubSeq(p, 2, Len(p))
      <4>1. /\ q \in Seq(Strs) /\ Len(q) = IF 2 <= Len(p) THEN Len(p) - 2 + 1 ELSE 0
            /\ \A k \in 1 .. Len(p) - 2 + 1 : q[k] = p[2 + k - 1]
        <5>1. \A k \in 2 .. Len(p) : p[k] \in Strs
          BY <3>8
        <5> QED
          BY <3>7, <5>1, SubSeqProperties
      <4> HIDE DEF q
      <4>2. Len(q) = Len(row)
        BY <3>7, <4>1
      <4>3. ASSUME NEW k \in 1 .. Len(row) PROVE q[k] = row[k]
        <5>1. 2 + k - 1 \in 1 .. 1 + Len(row) /\ ~(2 + k - 1 <= 1) /\ (2 + k - 1) - 1 = k
              /\ k \in 1 .. Len(p) - 2 + 1
          BY <3>7
        <5> QED
          BY <3>3, <3>7, <4>1, <5>1
      <4>4. q = row
        BY <3>3, <4>1, <4>2, <4>3, SeqEqual
      <4> QED
        BY <4>4 DEF q
    <3>10. FlattenSeq(SubSeq(p, 1, 1)) = h
      <4>1. SubSeq(p, 1, 1) = <<h>>
        <5>1. p[1] = h /\ p[1] \in Strs
          BY <3>3, <3>7, <3>8
        <5>2. \A k \in 1 .. 1 : p[k] \in Strs
          BY <5>1
        <5>3. /\ SubSeq(p, 1, 1) \in Seq(Strs) /\ Len(SubSeq(p, 1, 1)) = 1
              /\ SubSeq(p, 1, 1)[1] = h
          <6>1. /\ SubSeq(p, 1, 1) \in Seq(Strs)
                /\ Len(SubSeq(p, 1, 1)) = IF 1 <= 1 THEN 1 - 1 + 1 ELSE 0
                /\ \A k \in 1 .. 1 - 1 + 1 : SubSeq(p, 1, 1)[k] = p[1 + k - 1]
            BY <5>2, SubSeqProperties
          <6> QED
            BY <5>1, <6>1
        <5>4. \A k \in 1 .. Len(SubSeq(p, 1, 1)) : SubSeq(p, 1, 1)[k] = <<h>>[k]
          BY <5>3
        <5> QED
          BY <3>3, <5>3, <5>4, SeqEqual
      <4> QED
        BY <3>2, <4>1, FlattenOne
    <3>11. Pieces' = p
      BY <3>4 DEF p
    <3>12. Written(FlattenSeq(SubSeq(Pieces, 1, 1)))'
      BY <3>5, <3>10, <3>11 DEF Written
    <3>13. 1 \in 0 .. Len(p) /\ 1 + 1 = 2
      BY <3>7
    <3> QED
      BY <3>6, <3>9, <3>11, <3>12, <3>13
  <2>3. PiecesInv'
    BY <2>1, <2>2 DEF PiecesInv
  <2>4. RowsInv'
    BY <1>1, <1>2, <1>4, <2>1 DEF RowsInv, Ends
  <2>5. "end" \notin colored'
    BY <1>1, <1>2 DEF PlacesInv
  <2> QED
    BY <1>2, <2>1, <2>3, <2>4, <2>5
       DEF TextInv, KeptInv, EndedInv, DoneInv, PlacesInv, PassedInv, RawWhole, LineDone,
           KeywordExact
<1> QED
  BY <1>3, <1>4

\* The counter reaches the next row without wrapping.
LEMMA NextRowText ==
  ASSUME TextIInv, NextRow
  PROVE  PiecesInv' /\ TextInv' /\ KeptInv' /\ EndedInv' /\ DoneInv' /\ PlacesInv'
         /\ PassedInv' /\ RowsInv' /\ RawWhole' /\ KeywordExact'
<1>1. LineIInv /\ PlacesInv /\ RowsInv
  BY DEF TextIInv
<1>2. /\ pc = "next" /\ pc' = "row" /\ call.kind = "dump" /\ call # RawCall
      /\ i' = (i + call.width) % Wrap
      /\ UNCHANGED <<call, text_color_enabled, colored, fmt_result, rows, out>>
  BY <1>1, Kinds DEF NextRow, LineIInv, LinePlaces, RawCall
<1>3. RowsInv'
  <2> SUFFICES ASSUME Ends(call) PROVE i' = rows * call.width
    BY <1>1, <1>2 DEF RowsInv, Ends
  <2> DEFINE w == call.width
             R == RowsNeeded(call)
             next == rows * w
  <2>1. /\ w \in Nat /\ w > 0 /\ R \in Nat /\ rows \in 0 .. R
        /\ call.size \in Nat /\ (call.size # 0 => R * w < Wrap)
    BY <1>1, <1>2, DumpFacts
  <2>2. rows > 0 /\ i = (rows - 1) * w /\ i < call.size /\ i \in Nat
    BY <1>1, <1>2, InvFacts DEF RowsInv
  <2>3. R * w < Wrap
    BY <2>1, <2>2
  <2> HIDE DEF w, R
  <2>4. i + w = next
    BY <2>1, <2>2
  <2>5. next \in Nat /\ next <= R * w
    BY <2>1
  <2>6. next < Wrap /\ Wrap \in Nat
    <3>1. R * w \in Nat
      BY <2>1
    <3> QED
      BY <2>3, <2>5, <3>1, LineAssumption
  <2> HIDE DEF next
  <2>7. next % Wrap = next
    BY <2>5, <2>6
  <2> QED
    BY <1>2, <2>4, <2>7 DEF w, next
<1>4. "end" \notin colored'
  BY <1>1, <1>2 DEF PlacesInv
<1> QED
  BY <1>2, <1>3, <1>4
     DEF PiecesInv, TextInv, KeptInv, EndedInv, DoneInv, PlacesInv, PassedInv, RawWhole,
         LineDone, KeywordExact

LEMMA ReturnText ==
  ASSUME TextIInv, Return
  PROVE  PiecesInv' /\ TextInv' /\ KeptInv' /\ EndedInv' /\ DoneInv' /\ PlacesInv'
         /\ PassedInv' /\ RowsInv' /\ RawWhole' /\ KeywordExact'
<1>1. /\ pc' = "idle" /\ call' = RawCall /\ colored' = {} /\ i' = 0 /\ rows' = 0
  BY DEF Return
<1> QED
  BY <1>1
     DEF PiecesInv, TextInv, KeptInv, EndedInv, DoneInv, PlacesInv, PassedInv, RowsInv,
         RawWhole, LineDone, KeywordExact, RawCall

\* Nothing else depends on the colour flag and the format that is set.
LEMMA SameText ==
  ASSUME TextIInv,
         UNCHANGED <<pc, call, colored, log_buf, log_len, todo, chosen, fmt_result, i,
                     rows, out>>
  PROVE  PiecesInv' /\ TextInv' /\ KeptInv' /\ EndedInv' /\ DoneInv' /\ PlacesInv'
         /\ PassedInv' /\ RowsInv' /\ RawWhole' /\ KeywordExact'
<1>1. /\ Pieces' = Pieces /\ Ideal' = Ideal /\ Kept' = Kept
      /\ RowKept' = RowKept /\ \A w : Occurs(w)' <=> Occurs(w)
  BY SameStrings
<1>2. BeforeNewline' = BeforeNewline
  BY <1>1 DEF BeforeNewline, When, Fixed, StrOf
<1>3. PiecesInv' /\ TextInv' /\ KeptInv' /\ EndedInv'
  <2>1. PiecesInv'
    BY <1>1 DEF TextIInv, PiecesInv, Written, Matches
  <2>2. TextInv'
    BY <1>1 DEF TextIInv, TextInv, Written, Matches
  <2>3. KeptInv' /\ EndedInv'
    BY <1>1, <1>2 DEF TextIInv, KeptInv, EndedInv, Shows, Matches
  <2> QED
    BY <2>1, <2>2, <2>3
<1>4. DoneInv' /\ PlacesInv' /\ PassedInv'
  BY <1>1, <1>2 DEF TextIInv, DoneInv, LineDone, PlacesInv, PassedInv, Fixed, StrOf
<1>5. RowsInv' /\ RawWhole'
  BY DEF TextIInv, RowsInv, Ends, RowsNeeded, RawWhole, StrOf
<1>6. KeywordExact'
  BY <1>1 DEF TextIInv, KeywordExact, LineDone, Occurs
<1> QED
  BY <1>3, <1>4, <1>5, <1>6

LEMMA TextStep == TextIInv /\ [LineNext]_vars => TextIInv'
<1> SUFFICES ASSUME TextIInv, [LineNext]_vars PROVE TextIInv'
  OBVIOUS
<1>1. LineIInv'
  BY LineStep DEF TextIInv
<1>2. PiecesInv' /\ TextInv' /\ KeptInv' /\ EndedInv' /\ DoneInv' /\ PlacesInv'
      /\ PassedInv' /\ RowsInv' /\ RawWhole' /\ KeywordExact'
  <2>1. CASE Call
    BY <2>1, OutputText, RawOutputText, DumpText DEF Call
  <2>2. CASE Step
    BY <2>2, AskText, PackageText, FormatTextText, ReserveText, KeywordText, EndText,
       NewlineText, StartRowText, ReserveRowText, NextRowText, ReturnText DEF Step
  <2>3. CASE SetTextColor
    BY <2>3, SameText DEF SetTextColor
  <2>4. CASE \E set \in Fmts : SetFmt(set)
    BY <2>4, SameText DEF SetFmt
  <2>5. CASE UNCHANGED vars
    BY <2>5, SameText DEF vars
  <2> QED
    BY <2>1, <2>2, <2>3, <2>4, <2>5 DEF LineNext
<1> QED
  BY <1>1, <1>2 DEF TextIInv

LEMMA InitText == LineInit => TextIInv
<1> SUFFICES ASSUME LineInit PROVE TextIInv
  OBVIOUS
<1>1. /\ pc = "idle" /\ call = RawCall /\ colored = {} /\ i = 0 /\ rows = 0
  BY DEF LineInit
<1>2. /\ PiecesInv /\ TextInv /\ KeptInv /\ EndedInv /\ DoneInv
      /\ PlacesInv /\ PassedInv /\ RowsInv /\ RawWhole /\ KeywordExact
  BY <1>1
     DEF PiecesInv, TextInv, KeptInv, EndedInv, DoneInv, PlacesInv, PassedInv, RowsInv,
         RawWhole, LineDone, KeywordExact, RawCall
<1> QED
  BY <1>2, InitInv DEF TextIInv

\* What has been written is at every step what the line or the row begins with.
LEMMA TextInvariance == LineSpec => []TextIInv
BY InitText, TextStep, PTL DEF LineSpec

-----------------------------------------------------------------------------
(* Which strings are chosen *)

\* What a line begins with
Begin == When("begin" \in colored, ColorStrings(call))
LevelAndTag(c) == <<LevelString(c)>> \o TagStrings(c)

\* The colour comes first; then, when every format read so far has them, the
\* level and the tag.
BeginsInv ==
    call.kind = "line" =>
        /\ \E h \in Seq(Strs) : chosen = Begin \o h
        /\ point = "level" => chosen = Begin
        /\ (\A f \in fmts : {"LVL", "TAG"} \subseteq f) =>
              /\ point = "tag" => chosen = Begin \o <<LevelString(call)>>
              /\ point \notin {"level", "tag"} =>
                    \E h \in Seq(Strs) : chosen = Begin \o (LevelAndTag(call) \o h)

\* The strings that a format f has from a question on
NumAndFunc(c, f) == NumHead(c, f) \o FuncHead(c, f)
FileOn(c, f) == FileHead(c, f) \o NumAndFunc(c, f)
PlaceOn(c, f, flags) == When(flags \cap Used(c, f) # {}, <<Mark("(")>> \o FileOn(c, f))
TInfoOn(c, f) == TInfoHead(f) \o PlaceHead(c, f)
PInfoOn(c, f) == PInfoHead(f) \o TInfoOn(c, f)
InfoOn(c, f) == InfoHead(f) \o PlaceHead(c, f)

Rest(c, f, at) ==
    CASE at = "level" -> LevelHead(c, f) \o (TagHead(c, f) \o InfoOn(c, f))
      [] at = "tag" -> TagHead(c, f) \o InfoOn(c, f)
      [] at = "info" -> InfoOn(c, f)
      [] at = "time" -> TimeHead(f) \o PInfoOn(c, f)
      [] at = "time_gap" -> When({"P_INFO", "T_INFO"} \cap f # {}, <<Space>>)
                            \o PInfoOn(c, f)
      [] at = "p_info" -> PInfoOn(c, f)
      [] at = "p_gap" -> When("T_INFO" \in f, <<Space>>) \o TInfoOn(c, f)
      [] at = "t_info" -> TInfoOn(c, f)
      [] at = "place_dir" -> PlaceOn(c, f, {"DIR", "FUNC", "LINE"})
      [] at = "place_func" -> PlaceOn(c, f, {"FUNC", "LINE"})
      [] at = "place_line" -> PlaceOn(c, f, {"LINE"})
      [] at = "file" -> FileOn(c, f)
      [] at = "file_func" -> (IF "FUNC" \in Used(c, f) THEN <<Mark(":")>>
                              ELSE When("LINE" \in Used(c, f), <<Space>>))
                             \o NumAndFunc(c, f)
      [] at = "file_line" -> When("LINE" \in Used(c, f), <<Space>>) \o NumAndFunc(c, f)
      [] at = "line" -> NumAndFunc(c, f)
      [] at = "line_func" -> When("FUNC" \in Used(c, f), <<Space>>) \o FuncHead(c, f)
      [] at = "func" -> FuncHead(c, f)
      [] OTHER -> <<>>

\* What has been chosen and what the only format read so far has from here on
\* are the line of that format.
FmtInv ==
    call.kind = "line" =>
        \A f : fmts \subseteq {f} =>
            chosen \o Rest(call, f, point) = Begin \o HeadStrings(call, f)

\* Rest goes on as elog_output does with the format f.
Goes(c, f, at, on, yes, then, no, other) ==
    Rest(c, f, at) = IF on THEN yes \o Rest(c, f, then) ELSE no \o Rest(c, f, other)

LEMMA Associates ==
  ASSUME NEW a \in Seq(Strs), NEW b \in Seq(Strs), NEW c \in Seq(Strs)
  PROVE  (a \o b) \o c = a \o (b \o c)
BY ConcatAssociative

LEMMA NothingFirst == ASSUME NEW a \in Seq(Strs) PROVE <<>> \o a = a /\ a \o <<>> = a
BY ConcatEmptySeq

LEMMA TwoInARow == ASSUME NEW x \in Strs, NEW y \in Strs PROVE <<x, y>> = <<x>> \o <<y>>
<1>1. <<x>> \in Seq(Strs) /\ <<x, y>> = Append(<<x>>, y)
  OBVIOUS
<1> QED
  BY <1>1, AppendIsConcat

\* The parts of a line of a format f are strings, whatever f is.
LEMMA WhenIsStrs ==
  ASSUME NEW a \in Seq(Strs), NEW on PROVE When(on, a) \in Seq(Strs)
BY NoneIsStrs DEF When

LEMMA InfoPartsAreStrs ==
  ASSUME NEW f
  PROVE  TimeHead(f) \in Seq(Strs) /\ PInfoHead(f) \in Seq(Strs) /\ TInfoHead(f) \in Seq(Strs)
         /\ InfoHead(f) \in Seq(Strs)
<1>1. TimeHead(f) \in Seq(Strs)
  BY AnswersAreStrs, WhenIsStrs, ConcatIsStrs DEF TimeHead
<1>2. PInfoHead(f) \in Seq(Strs)
  BY AnswersAreStrs, WhenIsStrs, ConcatIsStrs DEF PInfoHead
<1>3. TInfoHead(f) \in Seq(Strs)
  BY AnswersAreStrs, WhenIsStrs, ConcatIsStrs DEF TInfoHead
<1>4. <<Mark("[")>> \o TimeHead(f) \o PInfoHead(f) \o TInfoHead(f) \in Seq(Strs)
  BY <1>1, <1>2, <1>3, AnswersAreStrs, ConcatIsStrs
<1>5. InfoHead(f) \in Seq(Strs)
  BY <1>4, WhenIsStrs DEF InfoHead
<1> QED
  BY <1>1, <1>2, <1>3, <1>5

LEMMA PlacePartsAreStrs ==
  ASSUME NEW c, NEW f
  PROVE  FileHead(c, f) \in Seq(Strs) /\ NumHead(c, f) \in Seq(Strs) /\ FuncHead(c, f) \in Seq(Strs)
         /\ NumAndFunc(c, f) \in Seq(Strs) /\ FileOn(c, f) \in Seq(Strs)
         /\ PlaceHead(c, f) \in Seq(Strs)
<1>1. FileHead(c, f) \in Seq(Strs)
  <2>1. (IF "FUNC" \in Used(c, f) THEN <<Mark(":")>>
         ELSE When("LINE" \in Used(c, f), <<Space>>)) \in Seq(Strs)
    BY AnswersAreStrs, WhenIsStrs
  <2> QED
    BY <2>1, AnswersAreStrs, WhenIsStrs, ConcatIsStrs DEF FileHead
<1>2. NumHead(c, f) \in Seq(Strs)
  BY AnswersAreStrs, WhenIsStrs, ConcatIsStrs DEF NumHead
<1>3. FuncHead(c, f) \in Seq(Strs)
  BY AnswersAreStrs, WhenIsStrs, ConcatIsStrs DEF FuncHead
<1>4. NumAndFunc(c, f) \in Seq(Strs) /\ FileOn(c, f) \in Seq(Strs)
  BY <1>1, <1>2, <1>3, ConcatIsStrs DEF NumAndFunc, FileOn
<1>5. <<Mark("(")>> \o FileHead(c, f) \o NumHead(c, f) \o FuncHead(c, f) \in Seq(Strs)
  BY <1>1, <1>2, <1>3, AnswersAreStrs, ConcatIsStrs
<1>6. PlaceHead(c, f) \in Seq(Strs)
  BY <1>5, WhenIsStrs DEF PlaceHead
<1> QED
  BY <1>1, <1>2, <1>3, <1>4, <1>6

LEMMA InfoOnAreStrs ==
  ASSUME NEW c, NEW f
  PROVE  TInfoOn(c, f) \in Seq(Strs) /\ PInfoOn(c, f) \in Seq(Strs) /\ InfoOn(c, f) \in Seq(Strs)
<1>1. TInfoOn(c, f) \in Seq(Strs)
  BY InfoPartsAreStrs, PlacePartsAreStrs, ConcatIsStrs DEF TInfoOn
<1> QED
  BY <1>1, InfoPartsAreStrs, PlacePartsAreStrs, ConcatIsStrs DEF PInfoOn, InfoOn

LEMMA HeadPartsAreStrs ==
  ASSUME NEW c \in LineCalls, NEW f
  PROVE  LevelHead(c, f) \in Seq(Strs) /\ TagHead(c, f) \in Seq(Strs)
BY AnswersAreStrs, WhenIsStrs DEF LevelHead, TagHead

LEMMA RestIsStrs ==
  ASSUME NEW c \in LineCalls, NEW f, NEW at PROVE Rest(c, f, at) \in Seq(Strs)
<1> DEFINE on(flags) == PlaceOn(c, f, flags)
           file == IF "FUNC" \in Used(c, f) THEN <<Mark(":")>>
                   ELSE When("LINE" \in Used(c, f), <<Space>>)
           gap(p) == When(p, <<Space>>)
<1>1. \A flags : on(flags) \in Seq(Strs)
  BY AnswersAreStrs, PlacePartsAreStrs, WhenIsStrs, ConcatIsStrs DEF PlaceOn
<1>2. file \in Seq(Strs) /\ \A p : gap(p) \in Seq(Strs)
  BY AnswersAreStrs, WhenIsStrs
<1> DEFINE r1 == LevelHead(c, f) \o (TagHead(c, f) \o InfoOn(c, f))
           r2 == TagHead(c, f) \o InfoOn(c, f)
           r4 == TimeHead(f) \o PInfoOn(c, f)
           r5 == gap({"P_INFO", "T_INFO"} \cap f # {}) \o PInfoOn(c, f)
           r7 == gap("T_INFO" \in f) \o TInfoOn(c, f)
           r13 == file \o NumAndFunc(c, f)
           r14 == gap("LINE" \in Used(c, f)) \o NumAndFunc(c, f)
           r16 == gap("FUNC" \in Used(c, f)) \o FuncHead(c, f)
<1>3. r1 \in Seq(Strs) /\ r2 \in Seq(Strs)
  BY HeadPartsAreStrs, InfoOnAreStrs, ConcatIsStrs
<1>4. r4 \in Seq(Strs) /\ r5 \in Seq(Strs) /\ r7 \in Seq(Strs)
  BY <1>2, InfoPartsAreStrs, InfoOnAreStrs, ConcatIsStrs
<1>5. r13 \in Seq(Strs) /\ r14 \in Seq(Strs) /\ r16 \in Seq(Strs)
  BY <1>2, PlacePartsAreStrs, ConcatIsStrs
<1>6. Rest(c, f, at) \in {r1, r2, InfoOn(c, f), r4, r5, PInfoOn(c, f), r7, TInfoOn(c, f),
                          on({"DIR", "FUNC", "LINE"}), on({"FUNC", "LINE"}), on({"LINE"}),
                          FileOn(c, f), r13, r14, NumAndFunc(c, f), r16, FuncHead(c, f), <<>>}
  BY DEF Rest
<1> HIDE DEF on, r1, r2, r4, r5, r7, r13, r14, r16
<1> QED
  BY <1>1, <1>3, <1>4, <1>5, <1>6, InfoOnAreStrs, PlacePartsAreStrs, NoneIsStrs

\* The questions about the level, the tag and the information
LEMMA LevelAndTagGo ==
  ASSUME NEW c \in LineCalls, NEW f
  PROVE  /\ Goes(c, f, "level", {"LVL"} \cap f # {}, <<LevelString(c)>>, "tag", <<>>, "tag")
         /\ Goes(c, f, "tag", {"TAG"} \cap f # {}, TagStrings(c), "info", <<>>, "info")
<1>1. Rest(c, f, "info") \in Seq(Strs) /\ Rest(c, f, "tag") \in Seq(Strs)
  BY RestIsStrs
<1>2. /\ Rest(c, f, "level") = LevelHead(c, f) \o Rest(c, f, "tag")
      /\ Rest(c, f, "tag") = TagHead(c, f) \o Rest(c, f, "info")
  BY DEF Rest
<1>3. ({"LVL"} \cap f # {} <=> "LVL" \in f) /\ ({"TAG"} \cap f # {} <=> "TAG" \in f)
  OBVIOUS
<1> QED
  BY <1>1, <1>2, <1>3 DEF Goes, LevelHead, TagHead, When

LEMMA InfoGoes ==
  ASSUME NEW c \in LineCalls, NEW f
  PROVE  /\ Goes(c, f, "info", {"TIME", "P_INFO", "T_INFO"} \cap f # {},
                 <<Mark("[")>>, "time", <<>>, "place_dir")
         /\ Goes(c, f, "time", {"TIME"} \cap f # {}, <<Fixed("time")>>, "time_gap",
                 <<>>, "p_info")
         /\ Goes(c, f, "time_gap", {"P_INFO", "T_INFO"} \cap f # {}, <<Space>>, "p_info",
                 <<>>, "p_info")
         /\ Goes(c, f, "p_info", {"P_INFO"} \cap f # {}, <<Fixed("p_info")>>, "p_gap",
                 <<>>, "t_info")
         /\ Goes(c, f, "p_gap", {"T_INFO"} \cap f # {}, <<Space>>, "t_info", <<>>, "t_info")
         /\ Goes(c, f, "t_info", {"T_INFO"} \cap f # {}, <<Fixed("t_info"), BracketEnd>>,
                 "place_dir", <<BracketEnd>>, "place_dir")
<1> DEFINE any == {"TIME", "P_INFO", "T_INFO"} \cap f # {}
           gap == When({"P_INFO", "T_INFO"} \cap f # {}, <<Space>>)
           gap2 == When("T_INFO" \in f, <<Space>>)
           open == <<Mark("[")>>
           time == <<Fixed("time")>>
           p == <<Fixed("p_info")>>
           t == <<Fixed("t_info")>>
           end == <<BracketEnd>>
           ti == TimeHead(f)
           pi == PInfoHead(f)
           ni == TInfoHead(f)
           pl == PlaceHead(c, f)
<1>1. /\ ti \in Seq(Strs) /\ pi \in Seq(Strs) /\ ni \in Seq(Strs) /\ pl \in Seq(Strs)
      /\ TInfoOn(c, f) \in Seq(Strs) /\ PInfoOn(c, f) \in Seq(Strs)
  BY InfoPartsAreStrs, PlacePartsAreStrs, InfoOnAreStrs
<1>2. /\ open \in Seq(Strs) /\ time \in Seq(Strs) /\ p \in Seq(Strs)
      /\ gap \in Seq(Strs) /\ gap2 \in Seq(Strs) /\ t \in Seq(Strs) /\ end \in Seq(Strs)
  BY AnswersAreStrs, WhenIsStrs
<1>0. <<Fixed("t_info"), BracketEnd>> = t \o end
  <2>1. Fixed("t_info") \in Strs /\ BracketEnd \in Strs
    BY FixedIsStr, StrOfIsStr DEF StrNames, BracketEnd, Sources
  <2> QED
    BY <2>1, TwoInARow
<1>3. pl = PlaceOn(c, f, {"DIR", "FUNC", "LINE"})
  <2>1. <<Mark("(")>> \o FileHead(c, f) \o NumHead(c, f) \o FuncHead(c, f)
            = <<Mark("(")>> \o FileOn(c, f)
    <3> DEFINE a == <<Mark("(")>>
               b == FileHead(c, f)
               n == NumHead(c, f)
               u == FuncHead(c, f)
    <3>1. a \in Seq(Strs) /\ b \in Seq(Strs) /\ n \in Seq(Strs) /\ u \in Seq(Strs)
      BY AnswersAreStrs, PlacePartsAreStrs
    <3>2. FileOn(c, f) = b \o (n \o u)
      BY DEF FileOn, NumAndFunc
    <3> HIDE DEF a, b, n, u
    <3> DEFINE ab == a \o b
               nu == n \o u
    <3>3. ab \in Seq(Strs) /\ nu \in Seq(Strs)
      BY <3>1, ConcatIsStrs
    <3>4. a \o (b \o nu) = ab \o nu
      <4> HIDE DEF nu
      <4> QED
        BY <3>1, <3>3, Associates, SMTT(30)
    <3>5. (ab \o n) \o u = ab \o nu
      <4> HIDE DEF ab
      <4> QED
        BY <3>1, <3>3, Associates, SMTT(60)
    <3> QED
      BY <3>2, <3>4, <3>5 DEF a, b, n, u
  <2> QED
    BY <2>1 DEF PlaceHead, PlaceOn
<1>4. /\ Rest(c, f, "info") = InfoHead(f) \o pl
      /\ Rest(c, f, "time") = ti \o PInfoOn(c, f)
      /\ Rest(c, f, "time_gap") = gap \o PInfoOn(c, f)
      /\ Rest(c, f, "p_info") = PInfoOn(c, f)
      /\ Rest(c, f, "p_gap") = gap2 \o TInfoOn(c, f)
      /\ Rest(c, f, "t_info") = TInfoOn(c, f)
      /\ Rest(c, f, "place_dir") = pl
  BY <1>3 DEF Rest, InfoOn
<1>5. /\ ti = IF "TIME" \in f THEN time \o gap ELSE <<>>
      /\ pi = IF "P_INFO" \in f THEN p \o gap2 ELSE <<>>
      /\ ni = IF "T_INFO" \in f THEN t \o end ELSE <<>> \o end
  BY DEF TimeHead, PInfoHead, TInfoHead, When
<1>6. InfoHead(f) = IF any THEN open \o ti \o pi \o ni ELSE <<>>
  BY DEF InfoHead, When
<1>7. PInfoOn(c, f) = pi \o TInfoOn(c, f) /\ TInfoOn(c, f) = ni \o pl
  BY DEF PInfoOn, TInfoOn
<1>8. \A x : {x} \cap f # {} <=> x \in f
  OBVIOUS
<1>9. /\ gap = (IF {"P_INFO", "T_INFO"} \cap f # {} THEN <<Space>> ELSE <<>>)
      /\ gap2 = (IF "T_INFO" \in f THEN <<Space>> ELSE <<>>)
  BY DEF When
<1> HIDE DEF gap, gap2, open, time, p, t, end, ti, pi, ni, pl
<1>10. Goes(c, f, "info", any, open, "time", <<>>, "place_dir")
  <2>1. (open \o ti \o pi \o ni) \o pl = open \o (ti \o (pi \o (ni \o pl)))
    <3> DEFINE a == open \o ti
    <3>1. a \in Seq(Strs) /\ pi \o (ni \o pl) \in Seq(Strs)
      BY <1>1, <1>2, ConcatIsStrs
    <3> HIDE DEF a
    <3>2. ((a \o pi) \o ni) \o pl = a \o (pi \o (ni \o pl))
      <4>1. pi \in Seq(Strs) /\ ni \in Seq(Strs) /\ pl \in Seq(Strs)
        BY <1>1
      <4> DEFINE ab == a \o pi
                 nu == ni \o pl
      <4>2. ab \in Seq(Strs) /\ nu \in Seq(Strs)
        BY <3>1, <4>1, ConcatIsStrs
      <4>3. a \o (pi \o nu) = ab \o nu
        <5> HIDE DEF nu
        <5> QED
          BY <3>1, <4>1, <4>2, Associates, SMTT(30)
      <4>4. (ab \o ni) \o pl = ab \o nu
        <5> HIDE DEF ab
        <5> QED
          BY <3>1, <4>1, <4>2, Associates, SMTT(30)
      <4> QED
        BY <4>3, <4>4
    <3> DEFINE b == pi \o (ni \o pl)
    <3> HIDE DEF b
    <3>3. (open \o ti) \o b = open \o (ti \o b)
      <4>1. open \in Seq(Strs) /\ ti \in Seq(Strs) /\ b \in Seq(Strs)
        BY <1>1, <1>2, <3>1 DEF b
      <4> QED
        BY <4>1, Associates
    <3> QED
      BY <3>2, <3>3 DEF a, b
  <2>2. <<>> \o pl = pl
    BY <1>1, NothingFirst
  <2> HIDE DEF any
  <2> QED
    BY <1>4, <1>6, <1>7, <2>1, <2>2 DEF Goes
<1>11. Goes(c, f, "time", {"TIME"} \cap f # {}, time, "time_gap", <<>>, "p_info")
  <2>1. (time \o gap) \o PInfoOn(c, f) = time \o (gap \o PInfoOn(c, f))
    <3>1. time \in Seq(Strs) /\ gap \in Seq(Strs) /\ PInfoOn(c, f) \in Seq(Strs)
      BY <1>1, <1>2
    <3> QED
      BY <3>1, Associates
  <2> QED
    BY <1>4, <1>5, <1>8, <2>1 DEF Goes
<1>12. Goes(c, f, "time_gap", {"P_INFO", "T_INFO"} \cap f # {}, <<Space>>, "p_info",
            <<>>, "p_info")
  BY <1>4, <1>9 DEF Goes
<1>13. Goes(c, f, "p_info", {"P_INFO"} \cap f # {}, p, "p_gap", <<>>, "t_info")
  <2>1. (p \o gap2) \o TInfoOn(c, f) = p \o (gap2 \o TInfoOn(c, f))
    <3>1. p \in Seq(Strs) /\ gap2 \in Seq(Strs) /\ TInfoOn(c, f) \in Seq(Strs)
      BY <1>1, <1>2
    <3> QED
      BY <3>1, Associates
  <2> QED
    BY <1>4, <1>5, <1>7, <1>8, <2>1 DEF Goes
<1>14. Goes(c, f, "p_gap", {"T_INFO"} \cap f # {}, <<Space>>, "t_info", <<>>, "t_info")
  BY <1>4, <1>8, <1>9 DEF Goes
<1>15. Goes(c, f, "t_info", {"T_INFO"} \cap f # {}, t \o end, "place_dir", end, "place_dir")
  <2>1. <<>> \o end = end
    BY <1>2, NothingFirst
  <2> QED
    BY <1>4, <1>5, <1>7, <1>8, <2>1 DEF Goes
<1> QED
  BY <1>0, <1>10, <1>11, <1>12, <1>13, <1>14, <1>15 DEF open, time, p, end

\* The questions about the place
LEMMA PlaceGoes ==
  ASSUME NEW c \in LineCalls, NEW f
  PROVE  /\ Goes(c, f, "place_dir", "DIR" \in Used(c, f), <<Mark("(")>>, "file",
                 <<>>, "place_func")
         /\ Goes(c, f, "place_func", "FUNC" \in Used(c, f), <<Mark("(")>>, "file",
                 <<>>, "place_line")
         /\ Goes(c, f, "place_line", "LINE" \in Used(c, f), <<Mark("(")>>, "file",
                 <<>>, "text")
         /\ Goes(c, f, "file", "DIR" \in Used(c, f), <<Fixed("file")>>, "file_func",
                 <<>>, "line")
         /\ Goes(c, f, "file_func", "FUNC" \in Used(c, f), <<Mark(":")>>, "line",
                 <<>>, "file_line")
         /\ Goes(c, f, "file_line", "LINE" \in Used(c, f), <<Space>>, "line",
                 <<>>, "line")
         /\ Goes(c, f, "line", "LINE" \in Used(c, f), <<LineNum>>, "line_func",
                 <<>>, "func")
         /\ Goes(c, f, "line_func", "FUNC" \in Used(c, f), <<Space>>, "func", <<>>, "func")
         /\ Goes(c, f, "func", "FUNC" \in Used(c, f), <<Fixed("func"), Mark(")")>>, "text",
                 <<Mark(")")>>, "text")
<1> DEFINE used(x) == x \in Used(c, f)
           open == <<Mark("(")>>
           file == <<Fixed("file")>>
           colon == <<Mark(":")>>
           space == <<Space>>
           num == <<LineNum>>
           func == <<Fixed("func")>>
           end == <<Mark(")")>>
           gap(x) == When(used(x), space)
           sep == IF used("FUNC") THEN colon ELSE gap("LINE")
           nf == NumAndFunc(c, f)
           fu == FuncHead(c, f)
           on == FileOn(c, f)
<1>1. nf \in Seq(Strs) /\ fu \in Seq(Strs) /\ on \in Seq(Strs)
  BY PlacePartsAreStrs
<1>2. /\ file \in Seq(Strs) /\ num \in Seq(Strs) /\ func \in Seq(Strs) /\ end \in Seq(Strs)
      /\ \A x : gap(x) \in Seq(Strs)
      /\ sep \in Seq(Strs)
  BY AnswersAreStrs, WhenIsStrs
<1>3. <<Fixed("func"), Mark(")")>> = func \o end
  <2>1. Fixed("func") \in Strs /\ Mark(")") \in Strs
    BY FixedIsStr, MarkIsStr DEF StrNames, Sources
  <2> QED
    BY <2>1, TwoInARow
<1>4. /\ Rest(c, f, "place_dir") = PlaceOn(c, f, {"DIR", "FUNC", "LINE"})
      /\ Rest(c, f, "place_func") = PlaceOn(c, f, {"FUNC", "LINE"})
      /\ Rest(c, f, "place_line") = PlaceOn(c, f, {"LINE"})
      /\ Rest(c, f, "file") = on /\ Rest(c, f, "file_func") = sep \o nf
      /\ Rest(c, f, "file_line") = gap("LINE") \o nf /\ Rest(c, f, "line") = nf
      /\ Rest(c, f, "line_func") = gap("FUNC") \o fu /\ Rest(c, f, "func") = fu
      /\ Rest(c, f, "text") = <<>>
  BY DEF Rest
<1>5. \A flags : PlaceOn(c, f, flags)
                  = IF flags \cap Used(c, f) # {} THEN open \o on ELSE <<>>
  BY DEF PlaceOn, When
<1>6. /\ on = (IF used("DIR") THEN file \o sep ELSE <<>>) \o nf
      /\ nf = (IF used("LINE") THEN num \o gap("FUNC") ELSE <<>>) \o fu
      /\ fu = (IF used("FUNC") THEN func ELSE <<>>) \o end
      /\ \A x : gap(x) = IF used(x) THEN space ELSE <<>>
      /\ sep = IF used("FUNC") THEN colon ELSE gap("LINE")
  BY DEF FileOn, NumAndFunc, FileHead, NumHead, FuncHead, When
<1>7. /\ {"LINE"} \cap Used(c, f) # {} <=> used("LINE")
      /\ {"FUNC", "LINE"} \cap Used(c, f) # {} <=> used("FUNC") \/ used("LINE")
      /\ {"DIR", "FUNC", "LINE"} \cap Used(c, f) # {}
            <=> used("DIR") \/ used("FUNC") \/ used("LINE")
  OBVIOUS
<1> HIDE DEF used, open, file, colon, space, num, func, end, gap, sep, nf, fu, on
<1>8. /\ <<>> \o nf = nf /\ <<>> \o fu = fu /\ <<>> \o end = end
      /\ <<>> \o <<>> = <<>>
  BY <1>1, <1>2, NothingFirst, NoneIsStrs
<1>9. /\ Goes(c, f, "place_line", used("LINE"), open, "file", <<>>, "text")
      /\ Goes(c, f, "place_func", used("FUNC"), open, "file", <<>>, "place_line")
      /\ Goes(c, f, "place_dir", used("DIR"), open, "file", <<>>, "place_func")
  <2> DEFINE none == <<>>
             whole == open \o on
  <2>1. /\ Rest(c, f, "place_dir") = IF used("DIR") \/ used("FUNC") \/ used("LINE")
                                     THEN whole ELSE none
        /\ Rest(c, f, "place_func") = IF used("FUNC") \/ used("LINE") THEN whole ELSE none
        /\ Rest(c, f, "place_line") = IF used("LINE") THEN whole ELSE none
        /\ Rest(c, f, "text") = none /\ whole = open \o Rest(c, f, "file")
    BY <1>4, <1>5, <1>7
  <2>2. none \o whole = whole /\ none \o none = none
    <3>1. whole \in Seq(Strs)
      BY <1>1, AnswersAreStrs, ConcatIsStrs DEF open
    <3> QED
      BY <3>1, NothingFirst, NoneIsStrs
  <2> HIDE DEF none, whole
  <2>3. /\ Goes(c, f, "place_line", used("LINE"), open, "file", none, "text")
        /\ Goes(c, f, "place_func", used("FUNC"), open, "file", none, "place_line")
        /\ Goes(c, f, "place_dir", used("DIR"), open, "file", none, "place_func")
    BY <2>1, <2>2 DEF Goes
  <2> QED
    BY <2>3 DEF none
<1>10. Goes(c, f, "file", used("DIR"), file, "file_func", <<>>, "line")
  <2>1. (file \o sep) \o nf = file \o (sep \o nf)
    <3>1. file \in Seq(Strs) /\ sep \in Seq(Strs) /\ nf \in Seq(Strs)
      BY <1>1, <1>2
    <3> QED
      BY <3>1, Associates
  <2> QED
    BY <1>4, <1>6, <2>1 DEF Goes
<1>11. Goes(c, f, "file_func", used("FUNC"), colon, "line", <<>>, "file_line")
  <2>1. <<>> \o (gap("LINE") \o nf) = gap("LINE") \o nf
    BY <1>1, <1>2, ConcatIsStrs, NothingFirst
  <2> QED
    BY <1>4, <1>6, <2>1 DEF Goes
<1>12. /\ Goes(c, f, "file_line", used("LINE"), space, "line", <<>>, "line")
       /\ Goes(c, f, "line_func", used("FUNC"), space, "func", <<>>, "func")
  BY <1>4, <1>6 DEF Goes
<1>13. Goes(c, f, "line", used("LINE"), num, "line_func", <<>>, "func")
  <2>1. (num \o gap("FUNC")) \o fu = num \o (gap("FUNC") \o fu)
    <3>1. num \in Seq(Strs) /\ gap("FUNC") \in Seq(Strs) /\ fu \in Seq(Strs)
      BY <1>1, <1>2
    <3> QED
      BY <3>1, Associates
  <2> QED
    BY <1>4, <1>6, <2>1 DEF Goes
<1>14. Goes(c, f, "func", used("FUNC"), func \o end, "text", end, "text")
  <2>1. (func \o end) \o <<>> = func \o end /\ end \o <<>> = end
    BY <1>2, ConcatIsStrs, NothingFirst
  <2> QED
    BY <1>4, <1>6, <1>8, <2>1 DEF Goes
<1> QED
  BY <1>3, <1>9, <1>10, <1>11, <1>12, <1>13, <1>14
     DEF used, open, file, colon, space, num, func, end

\* From the first question on it is the whole line.
LEMMA RestOfAll ==
  ASSUME NEW c \in LineCalls, NEW f
  PROVE  Rest(c, f, "level") = HeadStrings(c, f)
<1> DEFINE l == LevelHead(c, f)
           t == TagHead(c, f)
           n == InfoHead(f)
           p == PlaceHead(c, f)
           lt == l \o t
           np == n \o p
<1>1. l \in Seq(Strs) /\ t \in Seq(Strs) /\ n \in Seq(Strs) /\ p \in Seq(Strs)
  BY HeadPartsAreStrs, InfoPartsAreStrs, PlacePartsAreStrs
<1>2. lt \in Seq(Strs) /\ np \in Seq(Strs)
  BY <1>1, ConcatIsStrs
<1>3. HeadStrings(c, f) = (lt \o n) \o p /\ Rest(c, f, "level") = l \o (t \o np)
  BY DEF HeadStrings, Rest, InfoOn
<1> HIDE DEF l, t, n, p
<1>4. l \o (t \o np) = lt \o np
  <2> HIDE DEF np
  <2> QED
    BY <1>1, <1>2, Associates, SMTT(30)
<1>5. (lt \o n) \o p = lt \o np
  <2> HIDE DEF lt
  <2> QED
    BY <1>1, <1>2, Associates, SMTT(30)
<1> QED
  BY <1>3, <1>4, <1>5

\* A question answered as the only format read answers it
LEMMA TakeFmt ==
  ASSUME LineIInv, FmtInv, NEW at, at # "text", NEW on, NEW yes \in Seq(Strs), NEW then,
         NEW no \in Seq(Strs), NEW other, Take(at, on, yes, then, no, other),
         fmts \subseteq fmts',
         \A f : fmts' \subseteq {f} => Goes(call, f, at, on, yes, then, no, other)
  PROVE  FmtInv'
<1>1. /\ point = at /\ todo' = (IF on THEN yes ELSE no) /\ chosen' = chosen \o todo'
      /\ point' = (IF on THEN then ELSE other) /\ UNCHANGED <<call, colored>>
  BY DEF Take
<1>2. call \in LineCalls /\ call.kind = "line"
  BY <1>1, InvFacts, Kinds DEF LineIInv, LinePlaces
<1>3. Begin' = Begin
  BY <1>1 DEF Begin
<1> SUFFICES ASSUME NEW f, fmts' \subseteq {f}
             PROVE  chosen' \o Rest(call, f, point') = Begin \o HeadStrings(call, f)
  BY <1>1, <1>3 DEF FmtInv
<1>4. chosen \o Rest(call, f, at) = Begin \o HeadStrings(call, f)
  BY <1>1, <1>2 DEF FmtInv
<1>5. Rest(call, f, at) = todo' \o Rest(call, f, point')
  BY <1>1 DEF Goes
<1>6. todo' \in Seq(Strs) /\ chosen \in Seq(Strs) /\ Rest(call, f, point') \in Seq(Strs)
  BY <1>1, <1>2, InvFacts, RestIsStrs
<1>7. (chosen \o todo') \o Rest(call, f, point') = chosen \o (todo' \o Rest(call, f, point'))
  BY <1>6, Associates, SMTT(30)
<1> QED
  BY <1>1, <1>4, <1>5, <1>7

\* The questions of elog_output keep to the only format they read.
LEMMA AskFmt ==
  ASSUME LineIInv, FmtInv, AskLevelAndTag \/ AskInfo \/ AskPlace
  PROVE  FmtInv'
<1>0. call \in LineCalls
  <2>1. point # "text"
    BY DEF AskLevelAndTag, AskInfo, AskPlace, Ask, AskUsed, Take
  <2> QED
    BY <2>1, InvFacts, Kinds DEF LineIInv, LinePlaces
<1>1. ASSUME NEW at, at # "text", NEW flags, NEW yes \in Seq(Strs), NEW then,
             NEW no \in Seq(Strs), NEW other, Ask(at, flags, yes, then, no, other),
             \A f : Goes(call, f, at, flags \cap f # {}, yes, then, no, other)
      PROVE  FmtInv'
  <2> DEFINE on == flags \cap enabled_fmt # {}
  <2>1. Take(at, on, yes, then, no, other) /\ fmts' = fmts \cup {enabled_fmt}
    BY <1>1 DEF Ask
  <2>2. \A f : fmts' \subseteq {f} => f = enabled_fmt
    BY <2>1
  <2>3. Goes(call, enabled_fmt, at, on, yes, then, no, other)
    BY <1>1
  <2> HIDE DEF on
  <2> QED
    BY <1>1, <2>1, <2>2, <2>3, TakeFmt
<1>2. ASSUME NEW at, at # "text", NEW flag, NEW yes \in Seq(Strs), NEW then,
             NEW no \in Seq(Strs), NEW other, AskUsed(at, flag, yes, then, no, other),
             \A f : Goes(call, f, at, flag \in Used(call, f), yes, then, no, other)
      PROVE  FmtInv'
  <2> DEFINE on == flag \in call.given /\ flag \in enabled_fmt
  <2>1. /\ Take(at, on, yes, then, no, other)
        /\ fmts' = IF flag \in call.given THEN fmts \cup {enabled_fmt} ELSE fmts
    BY <1>2 DEF AskUsed
  <2>2. \A f : fmts' \subseteq {f} => (on <=> flag \in Used(call, f))
    BY <2>1 DEF Used
  <2>3. ASSUME NEW f, fmts' \subseteq {f}
        PROVE  Goes(call, f, at, on, yes, then, no, other)
    BY <1>2, <2>2, <2>3 DEF Goes
  <2> HIDE DEF on
  <2> QED
    BY <1>2, <2>1, <2>3, TakeFmt
<1>3. CASE AskLevelAndTag
  BY <1>0, <1>1, <1>3, AnswersAreStrs, LevelAndTagGo DEF AskLevelAndTag
<1>4. CASE AskInfo
  BY <1>0, <1>1, <1>4, AnswersAreStrs, InfoGoes DEF AskInfo
<1>5. CASE AskPlace
  BY <1>0, <1>2, <1>5, AnswersAreStrs, PlaceGoes DEF AskPlace
<1> QED
  BY <1>3, <1>4, <1>5

\* Behind the colour, the level and the tag anything may follow.
LEMMA TakeBegins ==
  ASSUME LineIInv, BeginsInv, NEW at, at \notin {"level", "tag"}, at # "text", NEW on,
         NEW yes \in Seq(Strs), NEW then, then \notin {"level", "tag"},
         NEW no \in Seq(Strs), NEW other, other \notin {"level", "tag"},
         Take(at, on, yes, then, no, other), fmts \subseteq fmts'
  PROVE  BeginsInv'
<1>1. /\ point = at /\ todo' = (IF on THEN yes ELSE no) /\ chosen' = chosen \o todo'
      /\ point' = (IF on THEN then ELSE other) /\ UNCHANGED <<call, colored>>
  BY DEF Take
<1>2. call \in LineCalls /\ call.kind = "line" /\ todo' \in Seq(Strs)
  BY <1>1, InvFacts, Kinds DEF LineIInv, LinePlaces
<1>3. Begin' = Begin /\ Begin \in Seq(Strs) /\ LevelAndTag(call) \in Seq(Strs)
  BY <1>1, <1>2, ColorIsStrs, NoneIsStrs, AnswersAreStrs, ConcatIsStrs
     DEF Begin, When, LevelAndTag
<1> DEFINE b == Begin
           lt == LevelAndTag(call)
<1>4. \E h \in Seq(Strs) : chosen' = b \o h
  <2>1. PICK h \in Seq(Strs) : chosen = b \o h
    BY <1>2 DEF BeginsInv
  <2>2. h \o todo' \in Seq(Strs) /\ (b \o h) \o todo' = b \o (h \o todo')
    <3>1. b \in Seq(Strs) /\ h \in Seq(Strs) /\ todo' \in Seq(Strs)
      BY <1>2, <1>3
    <3> QED
      BY <3>1, ConcatIsStrs, Associates, SMTT(30)
  <2> QED
    BY <1>1, <2>1, <2>2
<1>5. ASSUME \A f \in fmts' : {"LVL", "TAG"} \subseteq f
      PROVE  \E h \in Seq(Strs) : chosen' = b \o (lt \o h)
  <2>1. PICK h \in Seq(Strs) : chosen = b \o (lt \o h)
    BY <1>1, <1>2, <1>5 DEF BeginsInv
  <2> DEFINE lth == lt \o h
             ht == h \o todo'
  <2>2. lth \in Seq(Strs) /\ ht \in Seq(Strs)
    BY <1>2, <1>3, ConcatIsStrs
  <2>3. (b \o lth) \o todo' = b \o (lth \o todo')
    <3>1. b \in Seq(Strs) /\ lth \in Seq(Strs) /\ todo' \in Seq(Strs)
      BY <1>2, <1>3, <2>2
    <3> HIDE DEF lth, b
    <3> QED
      BY <3>1, Associates, SMTT(30)
  <2>4. lth \o todo' = lt \o ht
    BY <1>2, <1>3, Associates, SMTT(30)
  <2> QED
    BY <1>1, <2>1, <2>2, <2>3, <2>4
<1>6. point' \notin {"level", "tag"}
  BY <1>1
<1> QED
  BY <1>1, <1>3, <1>4, <1>5, <1>6 DEF BeginsInv

LEMMA AskBegins ==
  ASSUME LineIInv, BeginsInv, AskLevelAndTag \/ AskInfo \/ AskPlace
  PROVE  BeginsInv'
<1>0. call \in LineCalls /\ call.kind = "line"
  <2>1. point # "text"
    BY DEF AskLevelAndTag, AskInfo, AskPlace, Ask, AskUsed, Take
  <2> QED
    BY <2>1, InvFacts, Kinds DEF LineIInv, LinePlaces
<1> DEFINE b == Begin
           l == <<LevelString(call)>>
           t == TagStrings(call)
<1>1. b \in Seq(Strs) /\ l \in Seq(Strs) /\ t \in Seq(Strs) /\ LevelAndTag(call) = l \o t
  BY <1>0, ColorIsStrs, NoneIsStrs, AnswersAreStrs DEF Begin, When, LevelAndTag
<1>2. CASE Ask("level", {"LVL"}, <<LevelString(call)>>, "tag", <<>>, "tag")
  <2>1. /\ point = "level" /\ point' = "tag" /\ chosen' = chosen \o todo'
        /\ todo' = IF {"LVL"} \cap enabled_fmt # {} THEN l ELSE <<>>
        /\ UNCHANGED <<call, colored>> /\ enabled_fmt \in fmts'
    BY <1>2 DEF Ask, Take
  <2>2. chosen = b /\ Begin' = b
    BY <1>0, <2>1 DEF BeginsInv, Begin
  <2>3. todo' \in Seq(Strs)
    BY <1>1, <2>1, NoneIsStrs
  <2>4. (\A f \in fmts' : {"LVL", "TAG"} \subseteq f) => todo' = l
    BY <2>1
  <2> QED
    BY <2>1, <2>2, <2>3, <2>4 DEF BeginsInv
<1>3. CASE Ask("tag", {"TAG"}, TagStrings(call), "info", <<>>, "info")
  <2>1. /\ point = "tag" /\ point' = "info" /\ chosen' = chosen \o todo'
        /\ todo' = IF {"TAG"} \cap enabled_fmt # {} THEN t ELSE <<>>
        /\ UNCHANGED <<call, colored>> /\ fmts' = fmts \cup {enabled_fmt}
    BY <1>3 DEF Ask, Take
  <2>2. Begin' = b /\ todo' \in Seq(Strs)
    BY <1>1, <2>1, NoneIsStrs DEF Begin
  <2>3. \E h \in Seq(Strs) : chosen' = b \o h
    <3>1. PICK h \in Seq(Strs) : chosen = b \o h
      BY <1>0 DEF BeginsInv
    <3>2. h \o todo' \in Seq(Strs) /\ (b \o h) \o todo' = b \o (h \o todo')
      BY <1>1, <2>2, ConcatIsStrs, Associates
    <3> QED
      BY <2>1, <3>1, <3>2
  <2>4. ASSUME \A f \in fmts' : {"LVL", "TAG"} \subseteq f
        PROVE  \E h \in Seq(Strs) : chosen' = b \o (LevelAndTag(call) \o h)
    <3>1. chosen = b \o l /\ todo' = t
      BY <1>0, <2>1, <2>4 DEF BeginsInv
    <3> HIDE DEF b, l, t
    <3>2. (b \o l) \o t = b \o (l \o t) /\ l \o t \in Seq(Strs)
      BY <1>1, Associates, SMTT(30), ConcatIsStrs
    <3>3. LevelAndTag(call) \o <<>> = l \o t
      BY <1>1, <3>2, NothingFirst
    <3> QED
      BY <2>1, <3>1, <3>2, <3>3, NoneIsStrs
  <2> QED
    BY <2>1, <2>2, <2>3, <2>4 DEF BeginsInv
<1> DEFINE later(p) == p \notin {"level", "tag"}
           asks(p) == later(p) /\ p # "text"
<1>4. /\ asks("info") /\ asks("time") /\ asks("time_gap") /\ asks("p_info")
      /\ asks("p_gap") /\ asks("t_info") /\ asks("place_dir") /\ asks("place_func")
      /\ asks("place_line") /\ asks("file") /\ asks("file_func") /\ asks("file_line")
      /\ asks("line") /\ asks("line_func") /\ asks("func") /\ later("text")
      /\ \A p : asks(p) => later(p)
  OBVIOUS
<1>5. CASE AskInfo
  <2>1. ASSUME NEW at, asks(at), NEW flags,
               NEW yes \in Seq(Strs), NEW then, later(then),
               NEW no \in Seq(Strs), NEW other, later(other),
               Ask(at, flags, yes, then, no, other)
        PROVE  BeginsInv'
    BY <2>1, TakeBegins DEF Ask
  <2> HIDE DEF asks, later
  <2> QED
    BY <1>5, <1>4, <2>1, AnswersAreStrs DEF AskInfo
<1>6. CASE AskPlace
  <2>1. ASSUME NEW at, asks(at), NEW flag,
               NEW yes \in Seq(Strs), NEW then, later(then),
               NEW no \in Seq(Strs), NEW other, later(other),
               AskUsed(at, flag, yes, then, no, other)
        PROVE  BeginsInv'
    <3> DEFINE on == flag \in call.given /\ flag \in enabled_fmt
    <3>1. Take(at, on, yes, then, no, other) /\ fmts \subseteq fmts'
      BY <2>1 DEF AskUsed
    <3> HIDE DEF on
    <3> QED
      BY <2>1, <3>1, TakeBegins
  <2> HIDE DEF asks, later
  <2> QED
    BY <1>6, <1>4, <2>1, AnswersAreStrs DEF AskPlace
<1> QED
  BY <1>2, <1>3, <1>5, <1>6 DEF AskLevelAndTag

\* Only a new call and the questions choose strings.
LEMMA SameChoice ==
  ASSUME BeginsInv, FmtInv, UNCHANGED <<call, chosen, fmts, point>>,
         "begin" \in colored' <=> "begin" \in colored
  PROVE  BeginsInv' /\ FmtInv'
<1>1. Begin' = Begin
  BY DEF Begin, When
<1>2. BeginsInv'
  BY <1>1 DEF BeginsInv
<1>3. FmtInv'
  BY <1>1 DEF FmtInv
<1> QED
  BY <1>2, <1>3

LEMMA OutputChoice ==
  ASSUME LineIInv, NEW c \in LineCalls, ElogOutput(c)
  PROVE  BeginsInv' /\ FmtInv'
<1>1. /\ call' = c /\ point' = "level" /\ chosen' = Begin' /\ fmts' = {}
      /\ Begin' \in Seq(Strs)
  BY ColorIsStrs, NoneIsStrs DEF ElogOutput, Begin, When, LineIInv, LinePlaces
<1>2. chosen' = Begin' \o <<>> /\ <<>> \in Seq(Strs)
  BY <1>1, NothingFirst, NoneIsStrs
<1>3. BeginsInv'
  BY <1>1, <1>2 DEF BeginsInv
<1>4. FmtInv'
  BY <1>1, RestOfAll DEF FmtInv
<1> QED
  BY <1>3, <1>4

LEMMA ChoiceStep ==
  ASSUME LineIInv, BeginsInv, FmtInv, [LineNext]_vars
  PROVE  BeginsInv' /\ FmtInv'
<1>1. ASSUME NEW c \in LineCalls, ElogOutput(c) PROVE BeginsInv' /\ FmtInv'
  BY <1>1, OutputChoice
<1>2. ASSUME NEW n \in Texts \cup {Fail}, ElogRawOutput(n) PROVE BeginsInv' /\ FmtInv'
  BY <1>2, SameChoice DEF ElogRawOutput
<1>3. ASSUME NEW c \in DumpCalls, ElogHexdump(c) PROVE BeginsInv' /\ FmtInv'
  BY <1>3, Kinds DEF ElogHexdump, BeginsInv, FmtInv
<1>4. CASE AskLevelAndTag \/ AskInfo \/ AskPlace
  BY <1>4, AskBegins, AskFmt
<1>5. CASE AppendEnd
  <2>1. UNCHANGED <<call, chosen, fmts, point>> /\ ("begin" \in colored' <=> "begin" \in colored)
    BY <1>5 DEF AppendEnd
  <2> QED
    BY <2>1, SameChoice
<1>6. CASE Return
  BY <1>6 DEF Return, BeginsInv, FmtInv, RawCall
<1>7. CASE Package \/ FormatText \/ ReserveEnd \/ FilterKeyword \/ AppendNewline
           \/ StartRow \/ ReserveRow \/ NextRow \/ SetTextColor
           \/ \E set \in Fmts : SetFmt(set)
  <2>1. UNCHANGED <<call, chosen, fmts, point, colored>>
    BY <1>7 DEF Package, FormatText, ReserveEnd, FilterKeyword, AppendNewline, StartRow,
                ReserveRow, NextRow, SetTextColor, SetFmt
  <2> QED
    BY <2>1, SameChoice
<1>8. CASE UNCHANGED vars
  BY <1>8, SameChoice DEF vars
<1> QED
  BY <1>1, <1>2, <1>3, <1>4, <1>5, <1>6, <1>7, <1>8 DEF LineNext, Call, Step

\* The strings of a line are those its questions chose, colour first.
LEMMA ChoiceInvariance == LineSpec => [](LineIInv /\ BeginsInv /\ FmtInv)
<1>1. LineInit => BeginsInv /\ FmtInv
  BY DEF LineInit, BeginsInv, FmtInv, RawCall
<1> QED
  BY <1>1, InitInv, LineStep, ChoiceStep, PTL DEF LineSpec

-----------------------------------------------------------------------------
(* A line read back *)

\* p stands in s behind the first at characters.
Part(s, at, p) ==
    at + Len(p) <= Len(s) /\ \A k \in 1 .. Len(p) : s[at + k] = p[k]

\* What stands in a string stands there with more behind it, with more in
\* front of it, and when the string is cut behind it.
LEMMA PartOfFirst ==
  ASSUME NEW s \in Strs, NEW t \in Strs, NEW at \in Nat, NEW p \in Strs, Part(s, at, p)
  PROVE  Part(s \o t, at, p)
<1>1. /\ Len(s) \in Nat /\ Len(t) \in Nat /\ Len(s \o t) = Len(s) + Len(t)
      /\ \A k \in 1 .. Len(s) + Len(t) :
            (s \o t)[k] = IF k <= Len(s) THEN s[k] ELSE t[k - Len(s)]
  BY ConcatStr
<1>2. Len(p) \in Nat
  BY LenProperties DEF Strs
<1>3. \A k \in 1 .. Len(p) : (s \o t)[at + k] = p[k]
  <2> TAKE k \in 1 .. Len(p)
  <2>1. at + k \in 1 .. Len(s) + Len(t) /\ at + k <= Len(s)
    BY <1>1, <1>2 DEF Part
  <2> QED
    BY <1>1, <2>1 DEF Part
<1> QED
  BY <1>1, <1>2, <1>3 DEF Part

LEMMA PartOfSecond ==
  ASSUME NEW s \in Strs, NEW t \in Strs, NEW at \in Nat, NEW p \in Strs, Part(t, at, p),
         NEW n, n = Len(s) + at
  PROVE  n \in Nat /\ Part(s \o t, n, p)
<1>1. /\ Len(s) \in Nat /\ Len(t) \in Nat /\ Len(s \o t) = Len(s) + Len(t)
      /\ \A k \in 1 .. Len(s) + Len(t) :
            (s \o t)[k] = IF k <= Len(s) THEN s[k] ELSE t[k - Len(s)]
  BY ConcatStr
<1>2. Len(p) \in Nat
  BY LenProperties DEF Strs
<1>3. \A k \in 1 .. Len(p) : (s \o t)[n + k] = p[k]
  <2> TAKE k \in 1 .. Len(p)
  <2>1. n + k \in 1 .. Len(s) + Len(t) /\ ~(n + k <= Len(s)) /\ (n + k) - Len(s) = at + k
    BY <1>1, <1>2 DEF Part
  <2> QED
    BY <1>1, <2>1 DEF Part
<1> QED
  BY <1>1, <1>2, <1>3 DEF Part

LEMMA PartOfSelf == ASSUME NEW p \in Strs, NEW z, z = 0 PROVE Part(p, z, p)
<1>1. Len(p) \in Nat
  BY LenProperties DEF Strs
<1>2. \A k \in 1 .. Len(p) : z + k = k
  OBVIOUS
<1> QED
  BY <1>1, <1>2 DEF Part

LEMMA PartOfCut ==
  ASSUME NEW s \in Strs, NEW at \in Nat, NEW p \in Strs, Part(s, at, p),
         NEW n \in Nat, at + Len(p) <= n
  PROVE  Part(SubSeq(s, 1, Least(Len(s), n)), at, p)
<1> DEFINE m == Least(Len(s), n)
           t == SubSeq(s, 1, m)
<1>1. m \in Nat /\ Len(t) = m /\ \A k \in 1 .. m : t[k] = s[k]
  BY CutStr
<1>2. Len(p) \in Nat /\ Len(s) \in Nat
  BY LenProperties DEF Strs
<1>3. at + Len(p) <= m
  BY <1>2 DEF Part, Least
<1> HIDE DEF m, t
<1>4. \A k \in 1 .. Len(p) : t[at + k] = p[k]
  <2> TAKE k \in 1 .. Len(p)
  <2>1. at + k \in 1 .. m
    BY <1>1, <1>2, <1>3
  <2> QED
    BY <1>1, <2>1 DEF Part
<1> QED
  BY <1>1, <1>3, <1>4 DEF Part, t, m

\* It is what SubSeq reads there.
LEMMA PartIsSub ==
  ASSUME NEW s \in Strs, NEW at \in Nat, NEW p \in Strs, Part(s, at, p)
  PROVE  SubSeq(s, at + 1, at + Len(p)) = p
<1>1. Len(p) \in Nat /\ Len(s) \in Nat
  BY LenProperties DEF Strs
<1> DEFINE q == SubSeq(s, at + 1, at + Len(p))
<1>2. \A j \in at + 1 .. at + Len(p) : s[j] \in Chars
  <2> TAKE j \in at + 1 .. at + Len(p)
  <2>1. j \in 1 .. Len(s)
    BY <1>1 DEF Part
  <2> QED
    BY <2>1, ElementOfSeq DEF Strs
<1>3. /\ q \in Seq(Chars)
      /\ Len(q) = IF at + 1 <= at + Len(p) THEN (at + Len(p)) - (at + 1) + 1 ELSE 0
      /\ \A k \in 1 .. (at + Len(p)) - (at + 1) + 1 : q[k] = s[(at + 1) + k - 1]
  <2>1. at + 1 \in Int /\ at + Len(p) \in Int
    BY <1>1
  <2> QED
    BY <1>2, <2>1, SubSeqProperties
<1> HIDE DEF q
<1>4. Len(q) = Len(p) /\ (at + Len(p)) - (at + 1) + 1 = Len(p)
  BY <1>1, <1>3
<1>5. \A k \in 1 .. Len(p) : q[k] = p[k]
  <2> TAKE k \in 1 .. Len(p)
  <2>1. (at + 1) + k - 1 = at + k
    BY <1>1
  <2> QED
    BY <1>3, <1>4, <2>1 DEF Part
<1>6. q = p
  BY <1>3, <1>4, <1>5, SeqEqual DEF Strs
<1> QED
  BY <1>6 DEF q

\* The strings at the beginning of a coloured line, and those behind them
LEMMA LineStarts ==
  ASSUME LineIInv, call.kind = "line", fmt_result # Fail,
         NEW h \in Seq(Strs), chosen = ColorStrings(call) \o h
  PROVE  \E rest \in Strs :
            Ideal = (Fixed("csi_start") \o StrOf("color", call.level, StrLen["color"]))
                    \o (FlattenSeq(h) \o rest)
<1> DEFINE text == StrOf("text", 0, fmt_result)
           a == Fixed("csi_start")
           b == StrOf("color", call.level, StrLen["color"])
<1>1. call \in LineCalls /\ fmt_result \in Nat
  BY InvFacts, Kinds
<1>2. call.level \in Nat
  <2>1. call.level \in Levels
    BY <1>1 DEF LineCalls
  <2> QED
    BY <2>1, CallsInNat
<1>3. a \in Strs /\ b \in Strs /\ text \in Strs
  <2>1. a \in Strs
    BY FixedIsStr DEF StrNames
  <2>2. b \in Strs
    <3>1. "color" \in Sources /\ StrLen["color"] \in Nat
      BY LineAssumption DEF Sources, StrNames
    <3> QED
      BY <1>2, <3>1, StrOfIsStr
  <2>3. text \in Strs
    BY <1>1, StrOfIsStr DEF Sources
  <2> QED
    BY <2>1, <2>2, <2>3
<1>4. ColorStrings(call) \in Seq(Strs)
  BY <1>1, ColorIsStrs
<1>5. Ideal = FlattenSeq(ColorStrings(call) \o h) \o text
  BY DEF Ideal
<1>6. ColorStrings(call) = <<a>> \o <<b>>
  BY DEF ColorStrings
<1> HIDE DEF a, b, text
<1>7. <<a>> \in Seq(Strs) /\ <<b>> \in Seq(Strs)
  BY <1>3, OneIsStrs
<1>8. FlattenSeq(ColorStrings(call)) = a \o b
  BY <1>3, <1>6, <1>7, FlattenConcat, FlattenOne
<1>9. FlattenSeq(ColorStrings(call) \o h) = (a \o b) \o FlattenSeq(h)
  BY <1>4, <1>8, FlattenConcat
<1>10. a \o b \in Strs /\ FlattenSeq(h) \in Strs
  BY <1>3, <1>4, ConcatStr, FlattenSteps
<1>11. Ideal = (a \o b) \o (FlattenSeq(h) \o text)
  <2> DEFINE x == a \o b
             y == FlattenSeq(h)
  <2>1. x \in Seq(Chars) /\ y \in Seq(Chars) /\ text \in Seq(Chars)
    BY <1>3, <1>10 DEF Strs
  <2>2. Ideal = (x \o y) \o text
    BY <1>5, <1>9
  <2> HIDE DEF x, y
  <2>3. (x \o y) \o text = x \o (y \o text)
    BY <2>1, ConcatAssociative, SMTT(30)
  <2> QED
    BY <2>2, <2>3 DEF x, y
<1> QED
  BY <1>3, <1>11 DEF a, b

\* What stands in the line kept is in what is output.
LEMMA PartOfOut ==
  ASSUME TextIInv, LineDone, out # <<>>,
         NEW at \in Nat, NEW p \in Strs, Part(Ideal, at, p),
         at + Len(p) <= Size - Reserve
  PROVE  out \in Strs /\ Part(out, at, p)
<1> DEFINE e == When("end" \in colored, Fixed("csi_end"))
           l == Fixed("newline")
<1>1. LineIInv /\ call.kind = "line" /\ fmt_result # Fail
  BY DEF TextIInv, LineDone
<1>2. out = (Kept \o e) \o l
  BY <1>1 DEF TextIInv, DoneInv, BeforeNewline
<1>3. e \in Strs /\ l \in Strs
  BY FixedIsStr, NoneIsStrs DEF When, StrNames
<1>4. Ideal \in Strs /\ Kept \in Strs /\ Size - Reserve \in Nat
  BY <1>1, LineStrs, KeptStr, SizeInNat
<1>5. Part(Kept, at, p)
  BY <1>4, PartOfCut DEF Kept
<1> HIDE DEF e, l
<1>6. Kept \o e \in Strs /\ Part(Kept \o e, at, p)
  BY <1>3, <1>4, <1>5, ConcatStr, PartOfFirst
<1> QED
  BY <1>2, <1>3, <1>6, ConcatStr, PartOfFirst

LEMMA LeastOfOne ==
  ASSUME NEW v \in Int PROVE (CHOOSE l \in {v} : \A m \in {v} : l <= m) = v
OBVIOUS

\* The colour of only one level stands behind the CSI start.
LEMMA FindsLevel ==
  ASSUME TextIInv, BeginsInv, LogColored,
         StrLen["csi_start"] + StrLen["color"] <= Size - Reserve
  PROVE  ElogFindLvl(out) = call.level
<1> DEFINE at == StrLen["csi_start"]
           n == StrLen["color"]
           a == Fixed("csi_start")
           b(l) == StrOf("color", l, n)
<1>1. LineIInv /\ LineDone /\ call.kind = "line" /\ fmt_result # Fail /\ out # <<>>
      /\ "begin" \in colored
  BY DEF TextIInv, LogColored, LineDone
<1>2. call.level \in 0 .. 5
  <2>1. call.level \in Levels
    BY <1>1, InvFacts, Kinds DEF LineCalls
  <2> QED
    BY <2>1, LineAssumption
<1>3. at \in Nat /\ n \in Nat /\ n > 0
  BY LineAssumption DEF StrNames
<1>4. a \in Strs /\ Len(a) = at
      /\ \A l \in 0 .. 5 : b(l) \in Strs /\ Len(b(l)) = n /\ b(l)[1] = <<"color", l, 1>>
  <2>1. a \in Strs /\ Len(a) = at
    BY <1>3, StrOfIsStr DEF Fixed, Sources, StrNames
  <2>2. \A l \in 0 .. 5 : b(l) \in Strs /\ Len(b(l)) = n
    <3>1. "color" \in Sources /\ 0 .. 5 \subseteq Nat
      BY DEF Sources, StrNames
    <3> QED
      BY <1>3, <3>1, StrOfIsStr
  <2>3. \A l \in 0 .. 5 : b(l)[1] = <<"color", l, 1>>
    BY <1>3 DEF StrOf
  <2> QED
    BY <2>1, <2>2, <2>3
<1> DEFINE c == b(call.level)
           z == 0
<1>5. c \in Strs /\ Len(c) = n
  BY <1>2, <1>4
<1>0. PICK h \in Seq(Strs) : chosen = ColorStrings(call) \o h
  BY <1>1 DEF BeginsInv, Begin, When
<1>6. PICK rest \in Strs : Ideal = (a \o c) \o (FlattenSeq(h) \o rest)
  BY <1>0, <1>1, LineStarts
<1>7. FlattenSeq(h) \o rest \in Strs
  BY FlattenSteps, ConcatStr
<1> HIDE DEF a, c, z
<1>8. Part(a \o c, at, c) /\ a \o c \in Strs
  <2>1. Part(c, z, c) /\ z \in Nat /\ at = Len(a) + z
    BY <1>3, <1>4, <1>5, PartOfSelf DEF z
  <2> QED
    BY <1>4, <1>5, <2>1, PartOfSecond, ConcatStr
<1>9. Part(Ideal, at, c)
  BY <1>3, <1>5, <1>6, <1>7, <1>8, PartOfFirst
<1>10. out \in Strs /\ Part(out, at, c)
  BY <1>1, <1>3, <1>5, <1>9, PartOfOut
<1>11. SubSeq(out, at + 1, at + n) = c
  BY <1>3, <1>5, <1>10, PartIsSub
<1> DEFINE found == {l \in 0 .. 5 : SubSeq(out, at + 1, at + n) = b(l)}
<1>12. found = {call.level}
  <2>1. \A l \in 0 .. 5 : b(l) = b(call.level) => l = call.level
    <3> SUFFICES ASSUME NEW l \in 0 .. 5, b(l) = b(call.level) PROVE l = call.level
      OBVIOUS
    <3>1. <<"color", l, 1>> = <<"color", call.level, 1>>
      BY <1>2, <1>4
    <3> QED
      BY <3>1
  <2> QED
    BY <1>2, <1>11, <2>1 DEF c
<1>13. ElogFindLvl(out) =
          IF found = {} THEN NotFound ELSE CHOOSE l \in found : \A m \in found : l <= m
  BY DEF ElogFindLvl
<1> HIDE DEF found
<1>14. ElogFindLvl(out) = CHOOSE l \in {call.level} : \A m \in {call.level} : l <= m
  BY <1>12, <1>13
<1>15. call.level \in Int
  BY <1>2
<1> QED
  BY <1>14, <1>15, LeastOfOne

\* The level, the tag and the space behind it
LEMMA HeadStarts ==
  ASSUME NEW c \in LineCalls, NEW r \in Seq(Strs),
         NEW h, h = (<<LevelString(c)>> \o TagStrings(c)) \o r
  PROVE  \E s, t \in Strs :
            /\ FlattenSeq(h) =
                  (StrOf("level", c.level, StrLen["level"]) \o StrOf("tag", c.tag, c.tag))
                  \o ((s \o Mark(" ")) \o t)
            /\ \E n \in Nat : s = StrOf(" ", 0, n)
<1> DEFINE l == StrOf("level", c.level, StrLen["level"])
           g == StrOf("tag", c.tag, c.tag)
           n == IF c.tag <= TagMax \div 2 THEN TagMax \div 2 - c.tag ELSE 0
           s == StrOf(" ", 0, n)
           m == Mark(" ")
<1>1. c.level \in Nat /\ c.tag \in Nat
  <2>1. c.level \in Levels /\ c.tag \in TagLens
    BY DEF LineCalls
  <2> QED
    BY <2>1, CallsInNat
<1>2. n \in Nat
  BY <1>1, LineAssumption
<1>3. l \in Strs /\ g \in Strs /\ s \in Strs /\ m \in Strs
  <2>1. "level" \in Sources /\ StrLen["level"] \in Nat
    BY LineAssumption DEF Sources, StrNames
  <2>2. l \in Strs
    BY <1>1, <2>1, StrOfIsStr
  <2> HIDE DEF n
  <2>3. g \in Strs /\ s \in Strs /\ m \in Strs
    BY <1>1, <1>2, StrOfIsStr, MarkIsStr DEF Sources
  <2> QED
    BY <2>2, <2>3
<1>5. h = (<<l>> \o <<g, s, m>>) \o r
  BY DEF LevelString, TagStrings, Space
<1>6. s = StrOf(" ", 0, n)
  OBVIOUS
<1> HIDE DEF l, g, n, s, m
<1>7. /\ <<l>> \in Seq(Strs) /\ <<g>> \in Seq(Strs) /\ <<s>> \in Seq(Strs)
      /\ <<m>> \in Seq(Strs)
  BY <1>3, OneIsStrs
<1>8. /\ <<g, s, m>> = Append(<<g, s>>, m) /\ <<g, s>> = Append(<<g>>, s)
      /\ <<g, s>> \in Seq(Strs)
  BY <1>3
<1>9. <<g, s, m>> \in Seq(Strs)
      /\ <<l>> \o <<g, s, m>> \in Seq(Strs)
  BY <1>3, <1>7, ConcatIsStrs, ThreeAreStrs
<1>10. FlattenSeq(<<g, s, m>>) = (g \o s) \o m
  <2>1. FlattenSeq(<<g, s>>) = g \o s
    BY <1>3, <1>7, <1>8, FlattenSteps, FlattenOne
  <2> QED
    BY <1>3, <1>8, <2>1, FlattenSteps
<1> DEFINE x == FlattenSeq(r)
<1>11. FlattenSeq(h) = (l \o ((g \o s) \o m)) \o x
  <2>1. FlattenSeq(<<l>> \o <<g, s, m>>) = l \o ((g \o s) \o m)
    <3>1. FlattenSeq(<<l>> \o <<g, s, m>>) = FlattenSeq(<<l>>) \o FlattenSeq(<<g, s, m>>)
      BY <1>7, <1>9, FlattenConcat
    <3>2. FlattenSeq(<<l>>) = l
      BY <1>3, FlattenOne
    <3> QED
      BY <1>10, <3>1, <3>2
  <2> QED
    BY <1>5, <1>9, <2>1, FlattenConcat
<1>12. x \in Strs
  BY FlattenSteps
<1> HIDE DEF x
<1>13. l \in Seq(Chars) /\ g \in Seq(Chars) /\ s \in Seq(Chars) /\ m \in Seq(Chars)
       /\ x \in Seq(Chars)
  BY <1>3, <1>12 DEF Strs
<1>14. \A a, b \in Seq(Chars) : a \o b \in Seq(Chars)
  BY ConcatProperties
<1>16. (l \o ((g \o s) \o m)) \o x = (l \o g) \o ((s \o m) \o x)
  <2> DEFINE u == s \o m
             lg == l \o g
  <2>1. (g \o s) \o m = g \o u
    <3>1. g \in Seq(Chars) /\ s \in Seq(Chars) /\ m \in Seq(Chars)
      BY <1>13
    <3> QED
      BY <3>1, ConcatAssociative, SMTT(30)
  <2>2. lg \in Seq(Chars) /\ u \in Seq(Chars)
    BY <1>13, <1>14
  <2> HIDE DEF u
  <2>3. lg \o u = l \o (g \o u)
    <3>1. l \in Seq(Chars) /\ g \in Seq(Chars) /\ u \in Seq(Chars)
      BY <1>13, <2>2
    <3> QED
      BY <3>1, ConcatAssociative, SMTT(30)
  <2> HIDE DEF lg
  <2>4. (lg \o u) \o x = lg \o (u \o x)
    <3>1. lg \in Seq(Chars) /\ u \in Seq(Chars) /\ x \in Seq(Chars)
      BY <1>13, <2>2
    <3> QED
      BY <3>1, ConcatAssociative, SMTT(30)
  <2> QED
    BY <2>1, <2>3, <2>4 DEF u, lg
<1> QED
  BY <1>2, <1>3, <1>6, <1>11, <1>12, <1>16 DEF l, g, m

\* A sign is one character, and none of a tag's.
LEMMA MarkCell ==
  ASSUME NEW c \in Sources
  PROVE  /\ Mark(c) \in Strs /\ Len(Mark(c)) = 1 /\ Mark(c)[1] = <<c, 0, 1>>
         /\ c # "tag" => \A x, k : Mark(c)[1] # <<"tag", x, k>>
<1>1. Mark(c) \in Strs /\ Len(Mark(c)) = 1
  BY StrOfIsStr DEF Mark
<1>2. Mark(c)[1] = <<c, 0, 1>>
  BY DEF Mark, StrOf
<1> QED
  BY <1>1, <1>2

\* Spaces begin with one space.
LEMMA SpaceFirst ==
  ASSUME NEW c \in Sources, NEW n \in Nat, NEW t \in Strs, NEW z, z = 0
  PROVE  Part((StrOf(c, 0, n) \o Mark(c)) \o t, z, Mark(c))
<1> DEFINE s == StrOf(c, 0, n)
           m == Mark(c)
<1>1. s \in Strs /\ Len(s) = n /\ m \in Strs /\ Len(m) = 1 /\ m[1] = <<c, 0, 1>>
      /\ (n > 0 => s[1] = <<c, 0, 1>>)
  <2>1. s \in Strs /\ Len(s) = n
    BY StrOfIsStr
  <2>2. n > 0 => s[1] = <<c, 0, 1>>
    BY DEF StrOf
  <2> QED
    BY <2>1, <2>2, MarkCell
<1> HIDE DEF s, m
<1>2. s \o m \in Strs /\ Len(s \o m) = n + 1
      /\ (s \o m)[1] = IF 1 <= n THEN s[1] ELSE m[1 - n]
  <2>1. s \o m \in Strs /\ Len(s \o m) = Len(s) + Len(m)
        /\ \A k \in 1 .. Len(s) + Len(m) :
              (s \o m)[k] = IF k <= Len(s) THEN s[k] ELSE m[k - Len(s)]
    BY <1>1, ConcatStr
  <2>2. Len(s) + Len(m) = n + 1 /\ 1 \in 1 .. n + 1
    BY <1>1
  <2> QED
    BY <1>1, <2>1, <2>2
<1>3. (s \o m)[1] = <<c, 0, 1>>
  <2>1. CASE n > 0
    BY <1>1, <1>2, <2>1
  <2>2. CASE n = 0
    BY <1>1, <1>2, <2>2
  <2>3. n > 0 \/ n = 0
    OBVIOUS
  <2> QED
    BY <2>1, <2>2, <2>3
<1>4. Part(s \o m, z, m)
  <2>1. \A k \in 1 .. 1 : z + k = 1 /\ k = 1
    OBVIOUS
  <2> QED
    BY <1>1, <1>2, <1>3, <2>1 DEF Part
<1>5. Part((s \o m) \o t, z, m)
  BY <1>1, <1>2, <1>4, PartOfFirst
<1> QED
  BY <1>5 DEF s, m

\* The first space stands behind the tag, whether or not the tag was filled up.
LEMMA FindsTag ==
  ASSUME TextIInv, BeginsInv, LogColored, \A f \in fmts : {"LVL", "TAG"} \subseteq f,
         call.tag < TagMax, HeadLen + call.tag < Size - Reserve
  PROVE  ElogFindTag(out) = StrOf("tag", call.tag, call.tag)
<1> DEFINE a == Fixed("csi_start")
           b == StrOf("color", call.level, StrLen["color"])
           l == StrOf("level", call.level, StrLen["level"])
           g == StrOf("tag", call.tag, call.tag)
           m == Mark(" ")
           cell == <<" ", 0, 1>>
           at == HeadLen
           end == at + call.tag
           z == 0
<1>1. LineIInv /\ LineDone /\ call.kind = "line" /\ fmt_result # Fail /\ out # <<>>
      /\ "begin" \in colored /\ call \in LineCalls
  BY InvFacts, Kinds DEF TextIInv, LogColored, LineDone
<1>2. call.level \in Nat /\ call.tag \in Nat
  <2>1. call.level \in Levels /\ call.tag \in TagLens
    BY <1>1 DEF LineCalls
  <2> QED
    BY <2>1, CallsInNat
<1>3. /\ a \in Strs /\ Len(a) = StrLen["csi_start"] /\ StrLen["csi_start"] \in Nat
      /\ b \in Strs /\ Len(b) = StrLen["color"] /\ StrLen["color"] \in Nat
      /\ l \in Strs /\ Len(l) = StrLen["level"] /\ StrLen["level"] \in Nat
  <2>1. /\ {"csi_start", "color", "level"} \subseteq Sources /\ StrLen["csi_start"] \in Nat
        /\ StrLen["color"] \in Nat /\ StrLen["level"] \in Nat
    BY LineAssumption DEF Sources, StrNames
  <2>2. a \in Strs /\ Len(a) = StrLen["csi_start"]
    BY <2>1, StrOfIsStr DEF Fixed
  <2>3. b \in Strs /\ Len(b) = StrLen["color"]
    BY <1>2, <2>1, StrOfIsStr
  <2>4. l \in Strs /\ Len(l) = StrLen["level"]
    BY <1>2, <2>1, StrOfIsStr
  <2> QED
    BY <2>1, <2>2, <2>3, <2>4
<1>4. g \in Strs /\ Len(g) = call.tag /\ \A k \in 1 .. call.tag : g[k] = <<"tag", call.tag, k>>
  <2>1. g \in Strs /\ Len(g) = call.tag
    BY <1>2, StrOfIsStr DEF Sources
  <2> QED
    BY <2>1 DEF StrOf
<1>0. " " \in Sources /\ " " # "tag"
  BY DEF Sources
<1>5. /\ m \in Strs /\ Len(m) = 1 /\ m[1] = cell
      /\ \A x, k : cell # <<"tag", x, k>>
  <2>1. m[1] = cell
    BY <1>0, MarkCell
  <2> QED
    BY <1>0, <2>1, MarkCell
<1>6a. PICK r \in Seq(Strs) : chosen = ColorStrings(call) \o (LevelAndTag(call) \o r)
  <2>1. point = "text"
    BY <1>1 DEF LineDone, LineIInv, LinePlaces
  <2> QED
    BY <1>1, <2>1 DEF BeginsInv, Begin, When
<1> DEFINE strs == LevelAndTag(call) \o r
<1>6b. strs \in Seq(Strs)
  <2>1. LevelAndTag(call) \in Seq(Strs)
    BY <1>1, AnswersAreStrs, ConcatIsStrs DEF LevelAndTag
  <2> QED
    BY <2>1, ConcatIsStrs
<1>6. PICK rest \in Strs : Ideal = (a \o b) \o (FlattenSeq(strs) \o rest)
  BY <1>1, <1>6a, <1>6b, LineStarts
<1>7. PICK s, t \in Strs :
          /\ FlattenSeq(strs) = (l \o g) \o ((s \o m) \o t)
          /\ \E n \in Nat : s = StrOf(" ", 0, n)
  BY <1>1, HeadStarts DEF LevelAndTag
<1> HIDE DEF strs
<1>8. Part((s \o m) \o t, z, m) /\ z \in Nat
  <2>1. z = 0
    OBVIOUS
  <2> HIDE DEF z, m
  <2>2. PICK n \in Nat : s = StrOf(" ", 0, n)
    BY <1>7
  <2> QED
    BY <1>0, <2>1, <2>2, SpaceFirst DEF m
<1>9. at = StrLen["csi_start"] + StrLen["color"] + StrLen["level"] /\ at \in Nat
      /\ end \in Nat /\ end = at + call.tag
  BY <1>2, <1>3 DEF HeadLen
<1>10. Part(g, z, g) /\ z = 0
  BY <1>4, PartOfSelf
<1> HIDE DEF a, b, l, g, m, z, at, end, cell
<1> DEFINE u == (s \o m) \o t
           lg == l \o g
           ab == a \o b
           h == lg \o u
           hr == h \o rest
<1>11. s \o m \in Strs /\ u \in Strs /\ lg \in Strs /\ ab \in Strs
       /\ Len(lg) = Len(l) + Len(g) /\ Len(ab) = Len(a) + Len(b)
  <2>1. s \o m \in Strs
    BY <1>5, ConcatStr
  <2> QED
    BY <1>3, <1>4, <2>1, ConcatStr
<1>12. h \in Strs
  BY <1>11, ConcatStr
<1>13. hr \in Strs
  BY <1>12, ConcatStr
<1>14. Ideal = ab \o hr
  BY <1>6, <1>7
<1> HIDE DEF u, lg, ab
<1>15. Part(Ideal, at, g)
  <2> DEFINE p == Len(l) + z
  <2>1. p \in Nat /\ Part(l \o g, p, g)
    BY <1>3, <1>4, <1>8, <1>10, PartOfSecond
  <2> HIDE DEF p
  <2>2. Part(h, p, g)
    <3>1. Part(lg, p, g)
      BY <2>1 DEF lg
    <3> QED
      BY <1>4, <1>11, <2>1, <3>1, PartOfFirst
  <2> HIDE DEF h
  <2>3. Part(hr, p, g)
    BY <1>4, <1>12, <2>1, <2>2, PartOfFirst
  <2> HIDE DEF hr
  <2>4. at = Len(ab) + p
    BY <1>3, <1>9, <1>10, <1>11 DEF p
  <2> QED
    BY <1>4, <1>11, <1>13, <1>14, <2>1, <2>3, <2>4, PartOfSecond
<1>16. Part(Ideal, end, m)
  <2> DEFINE p == Len(lg) + z
  <2>1. p \in Nat /\ Part(h, p, m)
    BY <1>5, <1>8, <1>11, PartOfSecond DEF u
  <2> HIDE DEF p, h
  <2>2. Part(hr, p, m)
    BY <1>5, <1>12, <2>1, PartOfFirst
  <2> HIDE DEF hr
  <2>3. end = Len(ab) + p
    BY <1>2, <1>3, <1>4, <1>9, <1>10, <1>11 DEF p
  <2> QED
    BY <1>5, <1>11, <1>13, <1>14, <2>1, <2>2, <2>3, PartOfSecond
<1>17. end + 1 <= Size - Reserve /\ Size - Reserve \in Nat
  BY <1>9, SizeInNat DEF at, end
<1>18. out \in Strs /\ Part(out, at, g)
  <2>1. at + Len(g) <= Size - Reserve
    BY <1>4, <1>9, <1>17
  <2> QED
    BY <1>1, <1>4, <1>9, <1>15, <2>1, PartOfOut
<1>19. Part(out, end, m)
  <2>1. end + Len(m) <= Size - Reserve
    BY <1>5, <1>17
  <2> QED
    BY <1>1, <1>5, <1>9, <1>16, <2>1, PartOfOut
<1> DEFINE spaces == {k \in 1 .. Least(TagMax, Len(out) - at) : out[at + k] = cell}
           n == call.tag + 1
<1>20. n \in spaces /\ \A k \in spaces : n <= k
  <2>1. Len(out) \in Nat /\ end + 1 <= Len(out) /\ out[end + 1] = cell
    <3>1. Len(out) \in Nat
      BY <1>18, LenProperties DEF Strs
    <3>2. 1 \in 1 .. Len(m)
      BY <1>5
    <3> QED
      BY <1>5, <1>19, <3>1, <3>2 DEF Part
  <2>2. n \in 1 .. Least(TagMax, Len(out) - at) /\ at + n = end + 1
    <3>1. TagMax \in Nat
      BY LineAssumption
    <3>2. n <= TagMax /\ n <= Len(out) - at /\ at + n = end + 1 /\ n \in Nat /\ n >= 1
      BY <1>2, <1>9, <2>1, <3>1
    <3> QED
      BY <1>9, <2>1, <3>1, <3>2 DEF Least
  <2>3. ASSUME NEW k \in spaces PROVE n <= k
    <3>1. k \in Int /\ k >= 1 /\ out[at + k] = cell
      OBVIOUS
    <3>2. SUFFICES ASSUME k <= call.tag PROVE FALSE
      BY <1>2, <3>1
    <3>3. k \in 1 .. call.tag
      BY <1>2, <3>1, <3>2
    <3>4. out[at + k] = <<"tag", call.tag, k>>
      BY <1>4, <1>18, <3>3 DEF Part, g
    <3> QED
      BY <1>5, <3>1, <3>4
  <2> QED
    BY <2>1, <2>2, <2>3
<1>21. ElogFindTag(out) =
          IF spaces = {} THEN <<>>
          ELSE SubSeq(out, at + 1, at + (CHOOSE k \in spaces : \A j \in spaces : k <= j) - 1)
  BY DEF ElogFindTag, at, HeadLen, cell
<1>22. \A k \in spaces : k \in Int
  OBVIOUS
<1>23. n \in Int
  BY <1>2
<1> HIDE DEF spaces, n
<1>24. (CHOOSE k \in spaces : \A j \in spaces : k <= j) = n
  <2> DEFINE c == CHOOSE k \in spaces : \A j \in spaces : k <= j
  <2>1. c \in spaces /\ \A j \in spaces : c <= j
    BY <1>20
  <2> HIDE DEF c
  <2>2. n <= c /\ c <= n /\ c \in Int
    BY <1>20, <1>22, <2>1
  <2>3. c = n
    BY <1>23, <2>2
  <2> QED
    BY <2>3 DEF c
<1>25. at + n - 1 = at + Len(g)
  BY <1>2, <1>4, <1>9 DEF n
<1>26. ElogFindTag(out) = SubSeq(out, at + 1, at + Len(g))
  BY <1>20, <1>21, <1>24, <1>25
<1>27. SubSeq(out, at + 1, at + Len(g)) = g
  BY <1>4, <1>9, <1>18, PartIsSub
<1> QED
  BY <1>26, <1>27 DEF g

-----------------------------------------------------------------------------
(* The rows of a dump *)

\* No cell of another string is collected, and every cell of the same.
LEMMA OnlyOther ==
  ASSUME NEW c \in Sources, NEW x \in Nat, NEW n \in Nat, NEW s, c # s
  PROVE  Only(StrOf(c, x, n), s) = <<>>
<1> DEFINE t == StrOf(c, x, n)
<1>1. t \in Strs /\ Len(t) = n
  BY StrOfIsStr
<1>2. \A k \in 1 .. n : t[k][1] # s
  BY DEF StrOf
<1> HIDE DEF t
<1>3. Only(t, s) = <<>>
  BY <1>1, <1>2, OnlyNone
<1> QED
  BY <1>3 DEF t

LEMMA OnlySame ==
  ASSUME NEW s \in Sources, NEW x \in Nat, NEW n \in Nat
  PROVE  Only(StrOf(s, x, n), s) = StrOf(s, x, n)
<1> DEFINE t == StrOf(s, x, n)
<1>1. t \in Strs /\ Len(t) = n
  BY StrOfIsStr
<1>2. \A k \in 1 .. n : t[k][1] = s
  BY DEF StrOf
<1> HIDE DEF t
<1>3. Only(t, s) = t
  BY <1>1, <1>2, OnlyAll
<1> QED
  BY <1>3 DEF t

LEMMA OnlyEmpty == ASSUME NEW s PROVE Only(<<>>, s) = <<>>
<1> DEFINE e == <<>>
<1>1. e \in Strs /\ \A k \in 1 .. Len(e) : e[k][1] # s
  BY NoneIsStrs
<1> HIDE DEF e
<1>2. Only(e, s) = <<>>
  BY <1>1, OnlyNone
<1> QED
  BY <1>2 DEF e

\* What is collected from strings that are joined
LEMMA OnlyJoined ==
  ASSUME NEW h \in Seq(Strs), NEW s, NEW G,
         G[0] = <<>>,
         \A j \in 1 .. Len(h) : G[j] = G[j - 1] \o Only(h[j], s)
  PROVE  Only(FlattenSeq(h), s) = G[Len(h)]
<1> DEFINE T == {j \in Nat : j <= Len(h) => Only(FlattenSeq(SubSeq(h, 1, j)), s) = G[j]}
<1>0. Len(h) \in Nat
  BY LenProperties
<1>1. 0 \in T
  <2>1. SubSeq(h, 1, 0) = <<>>
    BY SubSeqEmpty
  <2> QED
    BY <2>1, FlattenSteps, OnlyEmpty
<1>2. ASSUME NEW j \in Nat, j \in T PROVE j + 1 \in T
  <2> SUFFICES ASSUME j + 1 <= Len(h)
               PROVE  Only(FlattenSeq(SubSeq(h, 1, j + 1)), s) = G[j + 1]
    OBVIOUS
  <2> DEFINE p == SubSeq(h, 1, j)
             x == h[j + 1]
  <2>1. p \in Seq(Strs) /\ x \in Strs
    <3>1. \A k \in 1 .. j + 1 : h[k] \in Strs
      BY <1>0, ElementOfSeq
    <3>2. \A k \in 1 .. j : h[k] \in Strs
      BY <3>1
    <3>3. p \in Seq(Strs)
      BY <3>2, SubSeqProperties
    <3> QED
      BY <3>1, <3>3, SMT
  <2>2. SubSeq(h, 1, j + 1) = Append(p, x)
    <3>1. 1 \in 1 .. Len(h) /\ j + 1 \in 1 .. Len(h) /\ (j + 1) - 1 = j
      BY <1>0
    <3>2. SubSeq(h, 1, j + 1) = SubSeq(h, 1, (j + 1) - 1) \o <<h[j + 1]>>
      BY <3>1, SubSeqRecursiveSecond
    <3> QED
      BY <2>1, <3>1, <3>2, AppendIsConcat
  <2>3. Only(FlattenSeq(p), s) = G[j]
    BY <1>0, <1>2
  <2>4. G[j + 1] = G[j] \o Only(x, s)
    <3>1. j + 1 \in 1 .. Len(h) /\ (j + 1) - 1 = j
      BY <1>0
    <3> QED
      BY <3>1
  <2> HIDE DEF p, x
  <2>5. FlattenSeq(Append(p, x)) = FlattenSeq(p) \o x /\ FlattenSeq(p) \in Strs
    BY <2>1, FlattenSteps
  <2>6. Only(FlattenSeq(p) \o x, s) = Only(FlattenSeq(p), s) \o Only(x, s)
    BY <2>1, <2>5, OnlyConcat
  <2> QED
    BY <2>2, <2>3, <2>4, <2>5, <2>6
<1> HIDE DEF T
<1>3. \A j \in Nat : j \in T
  BY <1>1, <1>2, Induction
<1>4. Only(FlattenSeq(SubSeq(h, 1, Len(h))), s) = G[Len(h)]
  BY <1>0, <1>3 DEF T
<1> QED
  BY <1>4, SubSeqFull

\* What the first m bytes of a row look like
HexCells(first, m) ==
    [k \in 1 .. 3 * m |-> <<"hex", first + (k - 1) \div 3, ((k - 1) % 3) + 1>>]
CharCells(first, m) == [k \in 1 .. m |-> <<"char", first + k - 1, 1>>]

\* Their lengths, and how they grow by one byte
LEMMA CellsAreStrs ==
  ASSUME NEW first \in Nat, NEW m \in Nat
  PROVE  /\ HexCells(first, m) \in Strs /\ Len(HexCells(first, m)) = 3 * m
         /\ CharCells(first, m) \in Strs /\ Len(CharCells(first, m)) = m
<1>1. ASSUME NEW k \in 1 .. 3 * m
      PROVE  <<"hex", first + (k - 1) \div 3, ((k - 1) % 3) + 1>> \in Chars
  <2>1. first + (k - 1) \div 3 \in Nat /\ ((k - 1) % 3) + 1 \in Nat
    BY <1>1
  <2> QED
    BY <2>1 DEF Chars, Sources
<1>2. ASSUME NEW k \in 1 .. m PROVE <<"char", first + k - 1, 1>> \in Chars
  <2>1. first + k - 1 \in Nat
    BY <1>2
  <2> QED
    BY <2>1 DEF Chars, Sources
<1>3. HexCells(first, m) \in [1 .. 3 * m -> Chars] /\ CharCells(first, m) \in [1 .. m -> Chars]
  BY <1>1, <1>2 DEF HexCells, CharCells
<1>4. 3 * m \in Nat
  OBVIOUS
<1> QED
  BY <1>3, <1>4 DEF Strs

LEMMA HexGrows ==
  ASSUME NEW first \in Nat, NEW j \in Nat
  PROVE  HexCells(first, j + 1) = HexCells(first, j) \o StrOf("hex", first + j, 3)
<1> DEFINE a == HexCells(first, j)
           b == StrOf("hex", first + j, 3)
           c == HexCells(first, j + 1)
<1>1. /\ a \in Strs /\ Len(a) = 3 * j /\ b \in Strs /\ Len(b) = 3
      /\ c \in Strs /\ Len(c) = 3 * (j + 1)
  <2>1. j + 1 \in Nat /\ first + j \in Nat /\ "hex" \in Sources
    BY DEF Sources
  <2>2. b \in Strs /\ Len(b) = 3
    BY <2>1, StrOfIsStr
  <2> QED
    BY <2>1, <2>2, CellsAreStrs
<1>2. /\ \A k \in 1 .. 3 * j :
            a[k] = <<"hex", first + (k - 1) \div 3, ((k - 1) % 3) + 1>>
      /\ \A k \in 1 .. 3 : b[k] = <<"hex", first + j, k>>
      /\ \A k \in 1 .. 3 * (j + 1) :
            c[k] = <<"hex", first + (k - 1) \div 3, ((k - 1) % 3) + 1>>
  BY DEF HexCells, StrOf
<1> HIDE DEF a, b, c
<1>3. /\ a \o b \in Strs /\ Len(a \o b) = 3 * j + 3
      /\ \A k \in 1 .. 3 * j + 3 :
            (a \o b)[k] = IF k <= 3 * j THEN a[k] ELSE b[k - 3 * j]
  <2>1. /\ a \o b \in Strs /\ Len(a \o b) = Len(a) + Len(b)
        /\ \A k \in 1 .. Len(a) + Len(b) :
              (a \o b)[k] = IF k <= Len(a) THEN a[k] ELSE b[k - Len(a)]
    BY <1>1, ConcatStr
  <2> QED
    BY <1>1, <2>1
<1>4. ASSUME NEW k \in 1 .. 3 * j + 3 PROVE c[k] = (a \o b)[k]
  <2>1. k \in 1 .. 3 * (j + 1)
    OBVIOUS
  <2>2. CASE k <= 3 * j
    <3>1. k \in 1 .. 3 * j
      BY <2>2
    <3> QED
      BY <1>2, <1>3, <2>1, <2>2, <3>1
  <2>3. CASE ~(k <= 3 * j)
    <3>1. k - 3 * j \in 1 .. 3 /\ (k - 1) \div 3 = j /\ ((k - 1) % 3) + 1 = k - 3 * j
      BY <2>3
    <3> QED
      BY <1>2, <1>3, <2>1, <2>3, <3>1
  <2> QED
    BY <2>2, <2>3
<1>5. c = a \o b
  <2>1. 3 * (j + 1) = 3 * j + 3
    OBVIOUS
  <2> QED
    BY <1>1, <1>3, <1>4, <2>1, SeqEqual DEF Strs
<1> QED
  BY <1>5 DEF a, b, c

LEMMA CharGrows ==
  ASSUME NEW first \in Nat, NEW j \in Nat
  PROVE  CharCells(first, j + 1) = CharCells(first, j) \o <<<<"char", first + j, 1>>>>
<1> DEFINE a == CharCells(first, j)
           x == <<"char", first + j, 1>>
           b == <<x>>
           c == CharCells(first, j + 1)
<1>1. a \in Strs /\ Len(a) = j /\ c \in Strs /\ Len(c) = j + 1
  <2>1. j + 1 \in Nat
    OBVIOUS
  <2> QED
    BY <2>1, CellsAreStrs
<1>2. /\ \A k \in 1 .. j : a[k] = <<"char", first + k - 1, 1>>
      /\ \A k \in 1 .. j + 1 : c[k] = <<"char", first + k - 1, 1>>
  BY DEF CharCells
<1>3. x \in Chars
  <2>1. first + j \in Nat /\ "char" \in Sources
    BY DEF Sources
  <2> QED
    BY <2>1 DEF Chars
<1>4. first + (j + 1) - 1 = first + j
  OBVIOUS
<1>5. c[j + 1] = x
  BY <1>2, <1>4
<1> HIDE DEF a, c, x
<1>6. b \in Strs /\ Len(b) = 1 /\ b[1] = x
  BY <1>3 DEF Strs
<1> HIDE DEF b
<1>7. /\ a \o b \in Strs /\ Len(a \o b) = j + 1
      /\ \A k \in 1 .. j + 1 : (a \o b)[k] = IF k <= j THEN a[k] ELSE b[k - j]
  <2>1. /\ a \o b \in Strs /\ Len(a \o b) = Len(a) + Len(b)
        /\ \A k \in 1 .. Len(a) + Len(b) :
              (a \o b)[k] = IF k <= Len(a) THEN a[k] ELSE b[k - Len(a)]
    BY <1>1, <1>6, ConcatStr
  <2> QED
    BY <1>1, <1>6, <2>1
<1>8. ASSUME NEW k \in 1 .. j + 1 PROVE c[k] = (a \o b)[k]
  <2>1. CASE k <= j
    <3>1. k \in 1 .. j
      BY <2>1
    <3> QED
      BY <1>2, <1>7, <2>1, <3>1
  <2>2. CASE ~(k <= j)
    <3>1. k = j + 1 /\ k - j = 1
      BY <2>2
    <3> QED
      BY <1>5, <1>6, <1>7, <2>2, <3>1
  <2> QED
    BY <2>1, <2>2
<1>9. c = a \o b
  BY <1>1, <1>7, <1>8, SeqEqual DEF Strs
<1> QED
  BY <1>9 DEF a, b, c, x

\* The bytes of a row that are collected from its first part, and from its
\* second
LEMMA HexOfRow ==
  ASSUME NEW c \in DumpCalls, NEW offset \in Nat, offset < c.size,
         NEW n, n = Least(c.width, c.size - offset)
  PROVE  /\ Only(FlattenSeq(HexStrings(c, offset)), "hex") = HexCells(offset, n)
         /\ Only(FlattenSeq(HexStrings(c, offset)), "char") = <<>>
<1> DEFINE h == HexStrings(c, offset)
           w == c.width
           G == [j \in 0 .. w |-> HexCells(offset, Least(j, n))]
           N == [j \in 0 .. w |-> <<>>]
<1>1. w \in Nat /\ c.size \in Nat /\ h \in Seq(Strs) /\ Len(h) = w
  BY RowParts
<1>2. n \in Nat /\ n <= w /\ \A j \in 1 .. w : offset + (j - 1) < c.size <=> j <= n
  BY <1>1 DEF Least
<1>3. ASSUME NEW j \in 1 .. w
      PROVE  /\ Only(h[j], "hex") = IF j <= n THEN StrOf("hex", offset + (j - 1), 3)
                                              ELSE <<>>
             /\ Only(h[j], "char") = <<>>
  <2> DEFINE b == ByteString(c, offset, j - 1)
             m == When(j % Group = 0, Mark(" "))
  <2>1. b \in Strs /\ m \in Strs /\ h[j] = b \o m
    <3>1. b \in Strs /\ m \in Strs
      BY RowParts
    <3> QED
      BY <3>1 DEF HexStrings
  <2>2. Only(m, "hex") = <<>> /\ Only(m, "char") = <<>>
    <3>1. " " \in Sources /\ " " # "hex" /\ " " # "char"
      BY DEF Sources
    <3>2. Only(Mark(" "), "hex") = <<>> /\ Only(Mark(" "), "char") = <<>>
      BY <3>1, OnlyOther DEF Mark
    <3> QED
      BY <3>2, OnlyEmpty DEF When
  <2>3. /\ Only(b, "hex") = IF offset + (j - 1) < c.size
                            THEN StrOf("hex", offset + (j - 1), 3) ELSE <<>>
        /\ Only(b, "char") = <<>>
    <3>1. /\ " " \in Sources /\ " " # "hex" /\ " " # "char"
          /\ "hex" \in Sources /\ "hex" # "char"
      BY DEF Sources
    <3>2. offset + (j - 1) \in Nat
      BY <1>1
    <3>3. /\ Only(StrOf("hex", offset + (j - 1), 3), "hex") = StrOf("hex", offset + (j - 1), 3)
          /\ Only(StrOf("hex", offset + (j - 1), 3), "char") = <<>>
      <4> DEFINE o == offset + (j - 1)
                 three == 3
      <4>1. o \in Nat /\ three \in Nat
        BY <3>2
      <4> HIDE DEF o, three
      <4>2. Only(StrOf("hex", o, three), "hex") = StrOf("hex", o, three)
        BY <3>1, <4>1, OnlySame
      <4>3. Only(StrOf("hex", o, three), "char") = <<>>
        BY <3>1, <4>1, OnlyOther
      <4> QED
        BY <4>2, <4>3 DEF o, three
    <3>4. Only(StrOf(" ", 0, 3), "hex") = <<>> /\ Only(StrOf(" ", 0, 3), "char") = <<>>
      BY <3>1, OnlyOther
    <3> QED
      BY <3>3, <3>4 DEF ByteString
  <2> HIDE DEF b, m, h
  <2>4. Only(h[j], "hex") = Only(b, "hex") \o Only(m, "hex")
        /\ Only(h[j], "char") = Only(b, "char") \o Only(m, "char")
    BY <2>1, OnlyConcat
  <2>5. Only(h[j], "hex") = Only(b, "hex") /\ Only(h[j], "char") = Only(b, "char")
    <3>1. Only(b, "hex") \in Seq(Chars) /\ Only(b, "char") \in Seq(Chars)
      BY <2>1, OnlyIsStr DEF Strs
    <3> QED
      BY <2>2, <2>4, <3>1, ConcatEmptySeq
  <2> QED
    BY <1>2, <2>3, <2>5
<1> HIDE DEF h
<1>4. HexCells(offset, 0) = <<>>
  BY DEF HexCells
<1>5. ASSUME NEW j \in 1 .. w PROVE G[j] = G[j - 1] \o Only(h[j], "hex")
  <2>1. j \in 0 .. w /\ j - 1 \in 0 .. w
    BY <1>1
  <2>2. CASE j <= n
    <3>1. Least(j, n) = j /\ Least(j - 1, n) = j - 1 /\ j - 1 \in Nat /\ (j - 1) + 1 = j
      BY <1>2, <2>2 DEF Least
    <3>2. HexCells(offset, (j - 1) + 1) =
              HexCells(offset, j - 1) \o StrOf("hex", offset + (j - 1), 3)
      BY <3>1, HexGrows
    <3> QED
      BY <1>3, <2>1, <2>2, <3>1, <3>2
  <2>3. CASE ~(j <= n)
    <3>1. Least(j, n) = n /\ Least(j - 1, n) = n
      BY <1>2, <2>3 DEF Least
    <3>2. HexCells(offset, n) \in Seq(Chars)
      BY <1>2, CellsAreStrs DEF Strs
    <3>3. HexCells(offset, n) \o <<>> = HexCells(offset, n)
      BY <3>2, ConcatEmptySeq
    <3> QED
      BY <1>3, <2>1, <2>3, <3>1, <3>3
  <2> QED
    BY <2>2, <2>3
<1>6. G[0] = <<>> /\ G[w] = HexCells(offset, n)
  <2>1. Least(0, n) = 0 /\ Least(w, n) = n /\ 0 \in 0 .. w /\ w \in 0 .. w
    BY <1>1, <1>2 DEF Least
  <2> QED
    BY <1>4, <2>1
<1>7. N[0] = <<>> /\ N[w] = <<>>
      /\ \A j \in 1 .. w : N[j] = N[j - 1] \o Only(h[j], "char")
  <2>1. <<>> \o <<>> = <<>>
    BY NoneIsStrs, ConcatEmptySeq DEF Strs
  <2>2. /\ 0 \in 0 .. w /\ w \in 0 .. w
        /\ \A j \in 1 .. w : j \in 0 .. w /\ j - 1 \in 0 .. w
    BY <1>1
  <2> QED
    BY <1>3, <2>1, <2>2
<1> HIDE DEF G, N
<1>8. Only(FlattenSeq(h), "hex") = G[Len(h)]
  BY <1>1, <1>5, <1>6, OnlyJoined
<1>9. Only(FlattenSeq(h), "char") = N[Len(h)]
  BY <1>1, <1>7, OnlyJoined
<1> QED
  BY <1>1, <1>6, <1>7, <1>8, <1>9 DEF h

\* The characters of a row
LEMMA CharOfRow ==
  ASSUME NEW c \in DumpCalls, NEW offset \in Nat, offset < c.size,
         NEW n, n = Least(c.width, c.size - offset)
  PROVE  /\ Only(FlattenSeq(CharStrings(c, offset)), "char") = CharCells(offset, n)
         /\ Only(FlattenSeq(CharStrings(c, offset)), "hex") = <<>>
<1> DEFINE h == CharStrings(c, offset)
           w == c.width
           G == [j \in 0 .. w |-> CharCells(offset, Least(j, n))]
           N == [j \in 0 .. w |-> <<>>]
<1>1. w \in Nat /\ c.size \in Nat /\ h \in Seq(Strs) /\ Len(h) = w
  BY RowParts
<1>2. n \in Nat /\ n <= w /\ \A j \in 1 .. w : offset + (j - 1) < c.size <=> j <= n
  BY <1>1 DEF Least
<1>3. ASSUME NEW j \in 1 .. w
      PROVE  /\ Only(h[j], "char") = IF j <= n THEN <<<<"char", offset + (j - 1), 1>>>>
                                               ELSE <<>>
             /\ Only(h[j], "hex") = <<>>
  <2> DEFINE o == offset + (j - 1)
             x == <<<<"char", o, 1>>>>
  <2>1. o \in Nat /\ o = offset + j - 1
    BY <1>1
  <2>2. h[j] = When(o < c.size, x)
    BY <2>1 DEF CharStrings
  <2> HIDE DEF o
  <2>3. x \in Strs /\ Len(x) = 1 /\ x[1][1] = "char"
    <3>1. <<"char", o, 1>> \in Chars
      BY <2>1 DEF Chars, Sources
    <3> QED
      BY <3>1 DEF Strs
  <2>4. Only(x, "char") = x /\ Only(x, "hex") = <<>>
    <3>1. \A k \in 1 .. Len(x) : x[k][1] = "char" /\ x[k][1] # "hex"
      BY <2>3
    <3> HIDE DEF x
    <3> QED
      BY <2>3, <3>1, OnlyAll, OnlyNone
  <2> QED
    BY <1>2, <2>2, <2>4, OnlyEmpty DEF When, o
<1> HIDE DEF h
<1>4. CharCells(offset, 0) = <<>>
  BY DEF CharCells
<1>5. ASSUME NEW j \in 1 .. w PROVE G[j] = G[j - 1] \o Only(h[j], "char")
  <2>1. j \in 0 .. w /\ j - 1 \in 0 .. w
    BY <1>1
  <2>2. CASE j <= n
    <3>1. Least(j, n) = j /\ Least(j - 1, n) = j - 1 /\ j - 1 \in Nat /\ (j - 1) + 1 = j
      BY <1>2, <2>2 DEF Least
    <3>2. CharCells(offset, (j - 1) + 1) =
              CharCells(offset, j - 1) \o <<<<"char", offset + (j - 1), 1>>>>
      BY <3>1, CharGrows
    <3> QED
      BY <1>3, <2>1, <2>2, <3>1, <3>2
  <2>3. CASE ~(j <= n)
    <3>1. Least(j, n) = n /\ Least(j - 1, n) = n
      BY <1>2, <2>3 DEF Least
    <3>2. CharCells(offset, n) \in Seq(Chars)
      BY <1>2, CellsAreStrs DEF Strs
    <3>3. CharCells(offset, n) \o <<>> = CharCells(offset, n)
      BY <3>2, ConcatEmptySeq
    <3> QED
      BY <1>3, <2>1, <2>3, <3>1, <3>3
  <2> QED
    BY <2>2, <2>3
<1>6. G[0] = <<>> /\ G[w] = CharCells(offset, n)
  <2>1. Least(0, n) = 0 /\ Least(w, n) = n /\ 0 \in 0 .. w /\ w \in 0 .. w
    BY <1>1, <1>2 DEF Least
  <2> QED
    BY <1>4, <2>1
<1>7. N[0] = <<>> /\ N[w] = <<>>
      /\ \A j \in 1 .. w : N[j] = N[j - 1] \o Only(h[j], "hex")
  <2>1. <<>> \o <<>> = <<>>
    BY NoneIsStrs, ConcatEmptySeq DEF Strs
  <2>2. /\ 0 \in 0 .. w /\ w \in 0 .. w
        /\ \A j \in 1 .. w : j \in 0 .. w /\ j - 1 \in 0 .. w
    BY <1>1
  <2> QED
    BY <1>3, <2>1, <2>2
<1> HIDE DEF G, N
<1>8. Only(FlattenSeq(h), "char") = G[Len(h)]
  BY <1>1, <1>5, <1>6, OnlyJoined
<1>9. Only(FlattenSeq(h), "hex") = N[Len(h)]
  BY <1>1, <1>7, OnlyJoined
<1> QED
  BY <1>1, <1>6, <1>7, <1>8, <1>9 DEF h

\* An endless buffer would show every byte of the row.
LEMMA RowShows ==
  ASSUME LineIInv, call.kind = "dump", fmt_result # Fail, i < call.size,
         NEW n, n = Least(call.width, call.size - i)
  PROVE  /\ Only(RowIdeal, "hex") = HexCells(i, n)
         /\ Only(RowIdeal, "char") = CharCells(i, n)
<1> DEFINE hdr == StrOf("header", i, fmt_result)
           row == RowStrings(call, i)
           gap == StrOf(" ", 0, 2)
           x == HexStrings(call, i)
           y == CharStrings(call, i)
           fx == FlattenSeq(x)
           fy == FlattenSeq(y)
           fr == FlattenSeq(row)
           xg == fx \o gap
<1>1. call \in DumpCalls /\ hdr \in Strs /\ row \in Seq(Strs)
      /\ RowIdeal = FlattenSeq(<<hdr>> \o row) /\ i \in Nat /\ fmt_result \in Nat
  BY RowStrs, InvFacts DEF RowIdeal
<1>2. gap \in Strs /\ row = (x \o <<gap>>) \o y
  BY <1>1, RowIsStrs
<1>3. x \in Seq(Strs) /\ y \in Seq(Strs)
  BY <1>1, RowParts
<1>4. Only(fx, "hex") = HexCells(i, n) /\ Only(fx, "char") = <<>>
  BY <1>1, HexOfRow
<1>5. Only(fy, "char") = CharCells(i, n) /\ Only(fy, "hex") = <<>>
  BY <1>1, CharOfRow
<1>6. /\ Only(hdr, "hex") = <<>> /\ Only(hdr, "char") = <<>>
      /\ Only(gap, "hex") = <<>> /\ Only(gap, "char") = <<>>
  <2>1. /\ " " \in Sources /\ " " # "hex" /\ " " # "char"
        /\ "header" \in Sources /\ "header" # "hex" /\ "header" # "char"
    BY DEF Sources
  <2> QED
    BY <1>1, <2>1, OnlyOther
<1> HIDE DEF hdr, row, gap, x, y
<1>7. <<hdr>> \in Seq(Strs) /\ <<gap>> \in Seq(Strs) /\ x \o <<gap>> \in Seq(Strs)
  BY <1>1, <1>2, <1>3, OneIsStrs, ConcatIsStrs
<1>8. RowIdeal = hdr \o fr
  <2>1. RowIdeal = FlattenSeq(<<hdr>>) \o fr
    BY <1>1, <1>7, FlattenConcat
  <2> QED
    BY <1>1, <2>1, FlattenOne
<1>9. fr = xg \o fy
  <2>1. FlattenSeq(x \o <<gap>>) = fx \o FlattenSeq(<<gap>>)
    BY <1>3, <1>7, FlattenConcat
  <2>2. FlattenSeq(<<gap>>) = gap
    BY <1>2, FlattenOne
  <2>3. FlattenSeq((x \o <<gap>>) \o y) = FlattenSeq(x \o <<gap>>) \o fy
    BY <1>3, <1>7, FlattenConcat
  <2> QED
    BY <1>2, <2>1, <2>2, <2>3
<1>10. fx \in Strs /\ fy \in Strs /\ fr \in Strs
  BY <1>1, <1>3, FlattenSteps
<1> HIDE DEF fx, fy, fr
<1>11. xg \in Strs
  BY <1>2, <1>10, ConcatStr
<1>12. ASSUME NEW s
       PROVE  Only(RowIdeal, s) =
                  Only(hdr, s) \o ((Only(fx, s) \o Only(gap, s)) \o Only(fy, s))
  <2>1. Only(xg, s) = Only(fx, s) \o Only(gap, s)
    BY <1>2, <1>10, OnlyConcat
  <2> HIDE DEF xg
  <2>2. Only(fr, s) = Only(xg, s) \o Only(fy, s)
    BY <1>9, <1>10, <1>11, OnlyConcat
  <2>3. Only(hdr \o fr, s) = Only(hdr, s) \o Only(fr, s)
    BY <1>1, <1>10, OnlyConcat
  <2> QED
    BY <1>8, <2>1, <2>2, <2>3
<1>13. \A t \in Strs : t \o <<>> = t /\ <<>> \o t = t
  BY ConcatEmptySeq DEF Strs
<1>14. HexCells(i, n) \in Strs /\ CharCells(i, n) \in Strs
  <2>1. Only(fx, "hex") \in Strs /\ Only(fy, "char") \in Strs
    BY <1>10, OnlyIsStr
  <2> QED
    BY <1>4, <1>5, <2>1
<1>15. Only(RowIdeal, "hex") = <<>> \o ((HexCells(i, n) \o <<>>) \o <<>>)
  BY <1>4, <1>5, <1>6, <1>12
<1>16. Only(RowIdeal, "char") = <<>> \o ((<<>> \o <<>>) \o CharCells(i, n))
  BY <1>4, <1>5, <1>6, <1>12
<1>17. <<>> \o <<>> = <<>>
  BY <1>13, NoneIsStrs
<1> QED
  BY <1>13, <1>14, <1>15, <1>16, <1>17

\* The first characters of a string, as far as they are collected, come first
\* among those collected from the whole.
LEMMA OnlyOfCut ==
  ASSUME NEW t \in Strs, NEW m \in Nat, m <= Len(t), NEW s
  PROVE  IsPrefix(Only(SubSeq(t, 1, m), s), Only(t, s))
<1> DEFINE p == SubSeq(t, 1, m)
           r == SubSeq(t, m + 1, Len(t))
           a == Only(p, s)
           b == Only(r, s)
<1>1. Len(t) \in Nat /\ \A k \in 1 .. Len(t) : t[k] \in Chars
  BY LenProperties, ElementOfSeq DEF Strs
<1>2. p \in Strs
  BY PrefixStr
<1>3. r \in Strs
  <2>1. \A k \in m + 1 .. Len(t) : t[k] \in Chars
    BY <1>1
  <2> QED
    BY <1>1, <2>1, SubSeqProperties DEF Strs
<1>4. t = p \o r
  <2> DEFINE one == 1
             end == Len(t)
  <2>1. one \in 1 .. Len(t) + 1 /\ m \in one - 1 .. Len(t) /\ end \in m .. Len(t)
    BY <1>1
  <2>2. SubSeq(t, 1, Len(t)) = t
    BY SubSeqFull DEF Strs
  <2> HIDE DEF one, end
  <2>3. SubSeq(t, one, m) \o SubSeq(t, m + 1, end) = SubSeq(t, one, end)
    BY <2>1, ConcatAdjacentSubSeq DEF Strs
  <2> QED
    BY <2>2, <2>3 DEF one, end
<1> HIDE DEF p, r
<1>5. Only(t, s) = a \o b
  BY <1>2, <1>3, <1>4, OnlyConcat
<1>6. a \in Strs /\ b \in Strs
  BY <1>2, <1>3, OnlyIsStr
<1> HIDE DEF a, b
<1> DEFINE ab == a \o b
<1>7. /\ ab \in Strs /\ Len(ab) = Len(a) + Len(b) /\ Len(a) \in Nat /\ Len(b) \in Nat
      /\ \A k \in 1 .. Len(a) + Len(b) :
            ab[k] = IF k <= Len(a) THEN a[k] ELSE b[k - Len(a)]
  BY <1>6, ConcatStr
<1> HIDE DEF ab
<1>8. SubSeq(ab, 1, Len(a)) = a
  <2> DEFINE c == SubSeq(ab, 1, Len(a))
  <2>1. /\ c \in Strs /\ Len(c) = Len(a) /\ \A k \in 1 .. Len(a) : c[k] = ab[k]
    BY <1>7, PrefixStr
  <2> HIDE DEF c
  <2>2. \A k \in 1 .. Len(a) : c[k] = a[k]
    <3> TAKE k \in 1 .. Len(a)
    <3>1. k \in 1 .. Len(a) + Len(b) /\ k <= Len(a)
      BY <1>7
    <3> QED
      BY <1>7, <2>1, <3>1
  <2>3. c = a
    BY <1>6, <2>1, <2>2, SeqEqual DEF Strs
  <2> QED
    BY <2>3 DEF c
<1>9. SubSeq(a, 1, Len(a)) = a
  BY <1>6, SubSeqFull DEF Strs
<1>10. IsPrefix(a, ab)
  BY <1>7, <1>8, <1>9 DEF IsPrefix
<1> QED
  BY <1>5, <1>10 DEF a, ab, p

\* The row that has just been output
LEMMA RowIsExact ==
  ASSUME TextIInv, call.kind = "dump", Ends(call), pc = "next", fmt_result # Fail,
         NEW n, n = Least(call.width, call.size - i),
         NEW s, s \in {"hex", "char"}
  PROVE  /\ IsPrefix(Only(out, s), Only(RowIdeal, s))
         /\ Len(out) < Size => Only(out, s) = Only(RowIdeal, s)
<1> DEFINE l == Fixed("newline")
<1>1. LineIInv /\ out = RowKept \o l
  BY DEF TextIInv, DoneInv
<1>2. /\ RowKept \in Strs /\ RowIdeal \in Strs
      /\ Len(RowKept) = Least(Len(RowIdeal), Size - StrLen["newline"])
      /\ Len(RowKept) \in Nat /\ Len(RowKept) <= Len(RowIdeal) /\ Len(RowIdeal) \in Nat
  <2>1. RowIdeal \in Strs
    BY <1>1, RowStrs
  <2> QED
    BY <1>1, <2>1, RowKeptStr, LenProperties DEF Strs
<1>3. RowKept = SubSeq(RowIdeal, 1, Len(RowKept))
  BY <1>2 DEF RowKept
<1>4. l \in Strs /\ Len(l) = StrLen["newline"] /\ StrLen["newline"] \in Nat
      /\ Only(l, s) = <<>>
  <2>1. "newline" \in Sources /\ StrLen["newline"] \in Nat /\ "newline" # s
    BY LineAssumption DEF Sources, StrNames
  <2> QED
    BY <2>1, StrOfIsStr, OnlyOther DEF Fixed
<1> HIDE DEF l
<1>5. Only(out, s) = Only(RowKept, s)
  <2>1. Only(out, s) = Only(RowKept, s) \o <<>>
    <3>1. Only(RowKept \o l, s) = Only(RowKept, s) \o Only(l, s)
      BY <1>2, <1>4, OnlyConcat
    <3> QED
      BY <1>1, <1>4, <3>1
  <2>2. Only(RowKept, s) \in Seq(Chars)
    BY <1>2, OnlyIsStr DEF Strs
  <2> QED
    BY <2>1, <2>2, ConcatEmptySeq
<1>6. IsPrefix(Only(RowKept, s), Only(RowIdeal, s))
  BY <1>2, <1>3, OnlyOfCut
<1>7. ASSUME Len(out) < Size PROVE RowKept = RowIdeal
  <2>1. Len(out) = Len(RowKept) + StrLen["newline"]
    <3>1. Len(RowKept \o l) = Len(RowKept) + Len(l)
      BY <1>2, <1>4, ConcatStr
    <3> QED
      BY <1>1, <1>4, <3>1
  <2>2. Len(RowKept) = Len(RowIdeal)
    BY <1>2, <1>4, <1>7, <2>1, SizeInNat DEF Least
  <2> QED
    BY <1>2, <1>3, <2>2, SubSeqFull DEF Strs
<1> QED
  BY <1>5, <1>6, <1>7

-----------------------------------------------------------------------------
(* The theorems *)

\* The line buffer of any size is never overrun, whatever strings, formats,
\* texts and dumps are put into it and whenever the colour is switched: the
\* room that vsnprintf is told is the room left, and the end of the line fits
\* (elog.c:674, 684-697, 925-928; elog_utils.c:47-55).
THEOREM LineIsBounded == LineSpec => []LineBounded
<1>1. LineIInv => LineBounded
  BY DEF LineIInv
<1> QED
  BY <1>1, LineInvariance, PTL

\* No character that an earlier call left in log_buf, and no end sign, is ever
\* output in a line or a row, unless vsnprintf failed (elog.c:599-731,
\* 896-940).
THEOREM OutputIsFresh == LineSpec => []OutFresh
<1>1. LineIInv => OutFresh
  BY NotChars DEF LineIInv, OutInv, OutFresh
<1> QED
  BY <1>1, LineInvariance, PTL

\* Whatever the formats, the colour and the lengths are, and whenever the
\* format is set, a line that is output is the beginning of the strings chosen
\* and the text, the CSI end sign when the colour is on at the end, and a whole
\* newline sign.  A line that read one format only has exactly the strings of
\* that format.  A raw text is output as it is, or cut to the buffer with the
\* end sign on its last place (elog.c:327-331, 533-541, 599-731).
THEOREM LineOutputWhole == LineSpec => []OutputWhole
<1>1. TextIInv /\ FmtInv => OutputWhole
  <2> SUFFICES ASSUME TextIInv, FmtInv, LineDone, out # <<>>
               PROVE  LineWhole
    BY DEF OutputWhole, LineWhole, TextIInv
  <2>1. out = BeforeNewline \o Fixed("newline")
    BY DEF TextIInv, DoneInv
  <2>2. out = Kept \o When("end" \in colored, Fixed("csi_end")) \o Fixed("newline")
    BY <2>1 DEF LineDone, BeforeNewline
  <2>3. LineIInv /\ call.kind = "line" /\ pc = "done"
    BY DEF TextIInv, LineDone
  <2>4. ASSUME NEW f \in fmts, fmts = {f}
        PROVE  chosen = When("begin" \in colored, ColorStrings(call)) \o HeadStrings(call, f)
    <3>1. point = "text" /\ chosen \in Seq(Strs)
      BY <2>3, InvFacts DEF LineIInv, LinePlaces
    <3>2. Rest(call, f, point) = <<>>
      BY <3>1 DEF Rest
    <3>3. chosen \o Rest(call, f, point) = chosen
      BY <3>1, <3>2, NothingFirst
    <3> QED
      BY <2>3, <2>4, <3>3 DEF FmtInv, Begin
  <2> QED
    BY <2>2, <2>4 DEF LineWhole
<1> QED
  BY <1>1, TextInvariance, ChoiceInvariance, PTL

\* A line with a keyword filter is output exactly when the keyword is in the
\* part of the line that is kept: neither what the reserve cuts off nor what an
\* earlier line left behind the end sign counts (elog.c:698-708).
THEOREM KeywordIsExact == LineSpec => []KeywordExact
<1>1. TextIInv => KeywordExact
  BY DEF TextIInv
<1> QED
  BY <1>1, TextInvariance, PTL

\* The rows of a dump of any width and size show its bytes in order, each one
\* once, as far as a row has room, and the loop ends after as many rows as the
\* data need, when its counters can reach their end (elog.c:896-925).
THEOREM DumpIsExact == LineSpec => []DumpExact
<1>1. TextIInv => DumpExact
  <2> SUFFICES ASSUME TextIInv, call.kind = "dump", Ends(call) PROVE DumpExact
    BY DEF DumpExact
  <2> DEFINE first == (rows - 1) * call.width
             n == Least(call.width, call.size - first)
  <2>1. LineIInv /\ RowsInv
    BY DEF TextIInv
  <2>2. /\ call.width \in Nat /\ call.size \in Nat
        /\ \A r \in Nat : r * call.width < call.size <=> r < RowsNeeded(call)
        /\ RowsNeeded(call) \in Nat
    BY <2>1, DumpFacts
  <2>3. ASSUME pc = "done"
        PROVE  rows = IF call.size = 0 THEN 0 ELSE RowsNeeded(call)
    <3>1. rows = RowsNeeded(call)
      BY <2>1, <2>3 DEF RowsInv
    <3>2. 0 * call.width = 0
      BY <2>2
    <3>3. 0 < call.size <=> 0 < RowsNeeded(call)
      BY <2>2, <3>2
    <3> QED
      BY <2>2, <3>1, <3>3
  <2>4. ASSUME pc = "next", fmt_result # Fail
        PROVE  /\ IsPrefix(Only(out, "hex"), HexCells(first, n))
               /\ IsPrefix(Only(out, "char"), CharCells(first, n))
               /\ Len(out) < Size =>
                    /\ Len(Only(out, "hex")) = 3 * n
                    /\ Len(Only(out, "char")) = n
    <3>1. i = first /\ i < call.size /\ i \in Nat
      BY <2>1, <2>4, InvFacts DEF RowsInv
    <3>2. n = Least(call.width, call.size - i) /\ n \in Nat
      BY <2>2, <3>1 DEF Least
    <3> HIDE DEF n
    <3>3. Only(RowIdeal, "hex") = HexCells(i, n) /\ Only(RowIdeal, "char") = CharCells(i, n)
      BY <2>1, <2>4, <3>1, <3>2, RowShows
    <3>4. ASSUME NEW s \in {"hex", "char"}
          PROVE  /\ IsPrefix(Only(out, s), Only(RowIdeal, s))
                 /\ Len(out) < Size => Only(out, s) = Only(RowIdeal, s)
      BY <2>4, <3>2, RowIsExact
    <3>5. Len(HexCells(i, n)) = 3 * n /\ Len(CharCells(i, n)) = n
      BY <3>1, <3>2, CellsAreStrs
    <3> QED
      BY <3>1, <3>3, <3>4, <3>5
  <2> QED
    BY <2>3, <2>4 DEF DumpExact, HexCells, CharCells
<1> QED
  BY <1>1, TextInvariance, PTL

\* elog_find_lvl and elog_find_tag find in a coloured line the level and the
\* tag it was logged with, the tag when every format that the line read has
\* both (elog.c:786-861).
THEOREM LevelAndTagFound == LineSpec => []FoundAgain
<1>1. TextIInv /\ BeginsInv => FoundAgain
  BY FindsLevel, FindsTag DEF FoundAgain, LevelFound, TagFound
<1> QED
  BY <1>1, TextInvariance, ChoiceInvariance, PTL
=============================================================================
