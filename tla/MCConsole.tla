----------------------------- MODULE MCConsole -----------------------------
EXTENDS Console

\* A line, and one that is printed over.
MCTexts == {<<ch, "newline">> : ch \in Chars} \cup {<<"cr", ch>> : ch \in Chars}
============================================================================
