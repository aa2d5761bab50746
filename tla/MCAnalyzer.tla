------------------------------ MODULE MCAnalyzer ------------------------------
EXTENDS Analyzer

\* Trimmed lines, as token sequences: comments of every kind, a function
\* declaration and the control-flow lines the function regex meets.
MCLines == {
    <<"//", "w">>,                  \* // text
    <<"#", "w">>,                   \* #include ... / # text
    <<"/*">>,                       \* /*
    <<"*", "w">>,                   \*  * text
    <<"*/">>,                       \*  */
    <<"int", "f", "(", ")">>,       \* int f()
    <<"if", "(", "w", ")">>}        \* if (w)

\* The same, with a one-line block comment and an `else if`.
MCAllLines == MCLines \cup {<<"/*", "w", "*/">>, <<"else", "if", "(", "w", ")">>}

\* With an include, a derived class and a line of repeated opcodes.
MCMetadataLines ==
    MCAllLines \cup {<<"#include", "<", "u", ">">>,
                     <<"class", "C", ":", "public", "B">>,
                     <<"OP_A", "OP_A", "OP_B">>}

MCOpcodeTokens == {"OP_A", "OP_B"}

\* With an overload of f and an accessor.
MCContractLines ==
    MCMetadataLines \cup {<<"void", "f", "(", "w", ")">>,
                          <<"int", "getW", "(", ")">>}

\* startsWith on the function names of these lines.
MCStrStartsWith(s, p) == <<s, p>> \in {<<"getW", "get">>}
====
