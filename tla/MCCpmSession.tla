--------------------------- MODULE MCCpmSession -----------------------------
(* Instance of CpmSession for TLC: the messages reach every branch of the  *)
(* line editor, with and without typed-ahead bytes.                        *)
EXTENDS CpmSession

AllMessages ==
  {<<"char", "enter", "char">>, <<"blank", "enter">>, <<"other", "erase">>,
   <<"clear">>, <<"quit", "char">>}
=============================================================================
