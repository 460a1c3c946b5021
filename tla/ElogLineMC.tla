----------------------------- MODULE ElogLineMC -----------------------------
(***************************************************************************)
(* Strings of a few characters each and a buffer that the shorter formats  *)
(* fit and the longer ones do not.                                         *)
(***************************************************************************)
EXTENDS ElogLine

MCStrLen == [s \in StrNames |->
    CASE s \in {"csi_end", "color", "time", "file", "func"} -> 2
      [] s = "line" -> 5
      [] s = "p_info" -> 0
      [] OTHER -> 1]

MCFmts == {{"LVL", "TAG"}, {"TAG", "P_INFO", "T_INFO", "DIR", "LINE"}, Flags}

MCGivens == {{}, {"DIR", "FUNC", "LINE"}}

\* no keyword, one inside the text, one at the end of what fits of it
MCKeywords == {<<>>, <<<<"text", 0, 2>>, <<"text", 0, 3>>>>,
               <<<<"text", 0, 8>>>>, <<<<"tag", 2, 1>>>>}
=============================================================================
