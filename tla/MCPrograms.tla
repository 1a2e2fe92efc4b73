----------------------------- MODULE MCPrograms -----------------------------
(* An instance of Programs for TLC.                                        *)
EXTENDS Programs

\* Two names that differ in the last name only for the array, which compares it;
\* three first names for the list, so that there is a middle to insert into.
TypedNames == [array |-> {<<1, 1>>, <<1, 2>>, <<2, 1>>},
               list  |-> {<<1, 1>>, <<2, 1>>, <<3, 1>>},
               avl   |-> {<<1, 1>>, <<2, 1>>}]

PhoneBound == [array |-> 1, list |-> 0, avl |-> 1]
ContactBound == [array |-> 3, list |-> 4, avl |-> 4]

\* Rights that differ for each user, letters in their places and in wrong ones,
\* and a file nobody may use beside one with the rights 0640.
ThreeDigits == {<<7, 5, 5>>, <<6, 4, 0>>, <<0, 1, 2>>}
NineLetters == {<<"r", "w", "x", "r", "-", "x", "-", "-", "-">>,
                <<"x", "r", "w", "r", "w", "x", "w", "w", "w">>}
FileRights == {{}, {8, 7, 5}}

\* Of the two ports one is used twice.
SessionBound == <<2, 1>>
\* Numbers on both sides of each bound that led_store looks at.
LedNumbers == {-1, 0, 3, 7, 8}
=============================================================================
