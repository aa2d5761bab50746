--------------------------- MODULE MCKeywordSearch ---------------------------
EXTENDS KeywordSearch

\* Three boxes, so that with a cut of two the overflow is reported.
MCBoxOrder == <<"ScriptBox", "UtilBox", "WalletBox">>

\* Ordinary characters: keywords are literal patterns.
MCLiteralAlphabet == {"a", "b"}
MCLiteralKeywords == {<<>>, <<"a">>, <<"a", "a">>, <<"a", "b">>}

\* With the regex metacharacters "." and "(".
MCRegexAlphabet == {"a", ".", "("}
MCRegexKeywords == {<<"a">>, <<".">>, <<"(">>, <<"a", ".">>}
====
