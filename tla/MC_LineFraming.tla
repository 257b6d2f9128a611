---------------------------- MODULE MC_LineFraming ----------------------------
(* Constants for TLC: two lines of any kinds, a request, and perhaps the     *)
(* beginning of another.                                                     *)
EXTENDS LineFraming

MCBytes == {"\n", " ", "!", "=", "?", "a", "b", "}"}

MCRequests == {<<"a", "}">>, <<"b", Space>>}

MCGarbage == {"?"}

\* Text that cannot be loaded: "}" stands for a number too long or nesting too deep.
MCUnloadable == {<<"}">>}

\* Two requests, one that is no JSON, a blank line, one that is no text, and one
\* that cannot be loaded.
MCLines == MCRequests \cup MCUnloadable \cup {<<"a">>, <<Space>>, <<"?">>}

MCTails == {<<>>, <<"b">>}

MCInputs == {l1 \o <<NL>> \o l2 \o <<NL>> \o <<"a", "}", NL>> \o tail :
                l1 \in MCLines, l2 \in MCLines, tail \in MCTails}

===============================================================================
