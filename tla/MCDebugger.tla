---- MODULE MCDebugger ----
EXTENDS Debugger
\* File names as characters: one alone, two that differ, and two of which one begins with
\* the other.
One == {<<"a">>}
Apart == {<<"a">>, <<"b">>}
Prefix == {<<"a">>, <<"a", "b">>}
====
