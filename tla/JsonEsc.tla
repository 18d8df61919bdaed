-------------------------------- MODULE JsonEsc -------------------------------
(***************************************************************************)
(* json_esc of cgiappfs.c, which writes a file name into the listing, and  *)
(* what JSON.parse makes of the result (external). A character of a name   *)
(* is "plain", "special" (one of the seven that have an escape) or         *)
(* "control" (another one below 32); "\\" stands for the backslash that    *)
(* starts an escape.                                                       *)
(***************************************************************************)
EXTENDS Naturals, Sequences

\* Wrong variant: special characters are copied.
EscapedPlain(c) == <<c>>

\* One character as json_esc writes it.
Escaped(c) == IF c = "special" THEN <<"\\", c>> ELSE <<c>>

\* json_esc: copying stops when the buffer might not hold two more characters
\* and the terminating zero.
JsonEsc(in, bufsz) ==
  LET out[i \in 0..Len(in)] ==
        IF i = 0 THEN [text |-> <<>>, stop |-> FALSE]
        ELSE LET o == out[i-1]
             IN  IF o.stop \/ Len(o.text) + 3 >= bufsz THEN [o EXCEPT !.stop = TRUE]
                 ELSE [o EXCEPT !.text = @ \o Escaped(in[i])]
  IN  out[Len(in)].text

\* JSON.parse of a string: an escape yields its character; a special or control
\* character of its own is an error.
ParseError == <<"error">>

JsonParse(text) ==
  LET bad(i) == \/ text[i] = "control"
                \/ text[i] = "special" /\ (i = 1 \/ text[i-1] # "\\")
      chars[i \in 0..Len(text)] ==
        IF i = 0 THEN <<>>
        ELSE IF text[i] = "\\" THEN chars[i-1] ELSE Append(chars[i-1], text[i])
  IN  IF \E i \in 1..Len(text) : bad(i) THEN ParseError ELSE chars[Len(text)]
===============================================================================
