--------------------------- MODULE MCLegendBuilder ---------------------------
(***************************************************************************)
(* Model of createMasterLegend over the shapes that matter in a C++ tree:  *)
(* a .cpp/.h pair with one base name (same box id), one base name in two   *)
(* directories whose names select different categories, and files that     *)
(* share or differ in their #include lists.                                *)
(***************************************************************************)
EXTENDS LegendBuilder

MCDirs == {"src", "src/script"}
MCBases == {"script", "util"}
MCExts == {".cpp", ".h"}
MCDepNames == {"util.h", "db.h"}

\* An include that names an Object.prototype member, as `#include <constructor>`.
MCProtoDepNames == {"util.h", "constructor"}

\* Category keywords each path part contains (lowercased `includes`).
MCMentions(part) ==
    CASE part = "src/script" -> {"script"}
      [] part = "script"     -> {"script"}
      [] part = "util"       -> {"util"}
      [] OTHER               -> {}

\* generateBoxId: "script" -> ScriptBox, "util" -> UtilBox.
MCBoxIdOf(base) == IF base = "script" THEN "ScriptBox" ELSE "UtilBox"
=============================================================================
