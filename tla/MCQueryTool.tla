----------------------------- MODULE MCQueryTool -----------------------------
(***************************************************************************)
(* The query CLI over legends of up to three files, with arguments that   *)
(* hit, miss, partially match, and name members of Object.prototype.      *)
(***************************************************************************)
EXTENDS QueryTool

MCDirs == {"src", "src/script"}
MCBases == {"script", "util"}
MCExts == {".cpp", ".h"}
MCDepNames == {"util.h", "db.h"}

MCMentions(part) ==
    CASE part = "src/script" -> {"script"}
      [] part = "script"     -> {"script"}
      [] part = "util"       -> {"util"}
      [] OTHER               -> {}

MCBoxIdOf(base) == IF base = "script" THEN "ScriptBox" ELSE "UtilBox"

\* One include name keeps every command affordable over legends of three
\* files, enough for categories with different counts and with equal ones.
MCOneDepName == {"util.h"}

MCCommands == {"", "help", "category", "depends", "box", "categories",
               "stats", "bogus"}

MCArgs == {"script-engine", "wallet", "util.h", "util", "ScriptBox",
           "script", "constructor", "__proto__"}

\* toLowerCase on the strings of this model.
MCStrLower(s) ==
    CASE s = "ScriptBox" -> "scriptbox"
      [] s = "UtilBox"   -> "utilbox"
      [] OTHER           -> s

\* a.includes(b) on the strings of this model: equal strings, and the
\* proper substrings listed.
MCStrIncludes(a, b) ==
    \/ a = b
    \/ <<a, b>> \in {<<"util.h", "util">>, <<"scriptbox", "script">>,
                     <<"utilbox", "util">>, <<"script-engine", "script">>}

=============================================================================
