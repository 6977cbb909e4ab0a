----------------------------- MODULE MCChatLog -----------------------------
(* A small instance of ChatLog: questions and answers of several lines, a    *)
(* line that begins like an entry, an answer too long for response in the    *)
(* middle, and a log with room for three short entries.                      *)
EXTENDS ChatLog

MCPrompts == {<<"q">>, <<"q", "q", "q">>, <<"q", NL, User, "q">>}
MCReplies == {<<<<"a">>>>,
              <<<<"b", NL>>, <<Assistant, "b">>>>,
              <<<<"c", "c">>, <<"c", "d", "d">>, <<"e">>>>,
              <<>>}
MCWords == {"q", "a", "b", "c", "d", "e", "junk"}
===============================================================================
