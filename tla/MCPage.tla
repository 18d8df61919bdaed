-------------------------------- MODULE MCPage --------------------------------
\* Page for TLC: a plain name, one that just fits the buffer
\* with its escapes, and one that is cut.
EXTENDS Page

MCNames == {<<"plain">>, <<"special", "special">>,
            <<"special", "special", "special">>}
MCTemp == <<"plain", "plain">>
===============================================================================
