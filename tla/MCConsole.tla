------------------------------ MODULE MCConsole ------------------------------
(* Console with two keys that print, commands of one letter and a narrow   *)
(* screen of few lines.                                                    *)
EXTENDS Console

ShiftedKeys == [e |-> "E"] @@ (" " :> " ")
Prompt == <<">", " ">>
TabSpaces == <<" ", " ">>
EchoWord == <<"e">>
HelpWord == <<"E">>
HelpLines == <<"?", "\n", "?", "\n">>
Chars == {"e", "E", ">", "?", "!", " ", "\t", "\n"}
ErrorLine == <<"!", "\n">>
=============================================================================
