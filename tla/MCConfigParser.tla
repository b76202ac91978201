---------------------------- MODULE MCConfigParser ----------------------------
(* Configurations of up to four lines for TLC.                                *)
EXTENDS ConfigParser

MCLines == {
    <<"a", " ", "{">>,              \* a block
    <<"a", "{">>,                   \* a brace that is part of the word
    <<"1", " ", "{">>,              \* a block whose name is no string
    <<"{">>,                        \* a block without a name
    <<"}">>,
    <<" ", "}", " ", "}">>,
    <<"a", " ", "a", ";">>,         \* a directive
    <<"a", ";", "a", " ", "1", ";">>,   \* one without parameters, and another
    <<"a", " ", "1", "k">>,         \* a number at the end of the line
    <<"/", ";", "u", "^", ";">>,    \* a path, and a url with anything in it
    <<"a", " ", "#", " ", "a", ";">>,   \* a comment
    <<"^", " ", ";">>,              \* a character no pattern takes
    <<>> }
=============================================================================
