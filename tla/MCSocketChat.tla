----------------------------- MODULE MCSocketChat -----------------------------
(* A small instance of SocketChat: a marker of two characters, answers that   *)
(* end with the start of a marker or are one, and a line that fgets returns   *)
(* without its newline.                                                       *)
EXTENDS SocketChat

MCMarker == <<"<", ">">>
MCBytes == {"q", "a", "<", ">", "e", "n"}
MCLines == {<<"n">>, <<"q", "n">>, <<"q", "q">>}
MCAnswers == {<<"a", "<">>, <<"<", ">">>}
MCErrorText == <<"e">>
===============================================================================
