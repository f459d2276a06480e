------------------------------ MODULE MCStores ------------------------------
EXTENDS Stores, TLC

CONSTANTS a1, q1, o1, o2, u1, u2, r1, r2

MCAdapters == {a1, q1}
MCQueriers == {q1}
MCOps == {o1, o2}
MCUsers == {u1, u2}
MCReqs == {r1, r2}
Symmetry == Permutations(MCOps)

\* A directory with a file, and one that is a directory as well; a file of its name, and one whose name
\* begins with it.
MCKeys == << <<"a">>, <<"a.x">>, <<"a", "a">>, <<"a", "s">>, <<"a", "s", "a">> >>
MCLonger == {<<"a", "a.x">>}
MCConfigs == {[parent |-> b, default |-> b] : b \in BOOLEAN}
MCStarts == {{}, {<<"a">>, <<"a", "a">>}, {<<"a.x">>, <<"a", "a">>, <<"a", "s">>, <<"a", "s", "a">>}}
=============================================================================
