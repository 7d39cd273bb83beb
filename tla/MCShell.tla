------------------------------- MODULE MCShell ------------------------------
(* Scripts for model checking Shell: every operator alone, nested and with *)
(* a side missing, commands that fail, pipes that fill up.                 *)
EXTENDS Shell

NushLines == {
  <<"gen", "|", "wc", "|", "wc">>,
  <<"gen", "|", "true">>,
  <<"false", " ", "&", "&", "true", "|", "|", "gen">>,
  <<"cd", " ", "nowhere", "&", "&", "true", ";", "cd", " ", "d", "|", "|", "gen">>,
  <<"false", "|", "|", "bogus", ";", "wc", "<", "missing">>,
  <<"gen", "&", "wc", "<", "f", ";">>,
  <<"gen", "|", "false", "&", "&", "true">>,
  <<"false", "&", "exit", "|", "wc">>,
  <<"exit", "&", "&", "true">>,
  <<"true", "|", "<", "f">>,
  <<"wc", "<", "f", ">", "g">>,
  <<"gen", ">", "g", "<", "f">>,
  <<"gen", ">", "g", ";", "false">>,
  <<"gen", "|", "wc", ">", "g">>,
  <<";", "true", "|">>}

Xv6Lines == {
  <<"gen", "|", "wc", "|", "wc">>,
  <<"gen", "|", "true">>,
  <<"gen", "&", ";", "wc", "<", "f">>,
  <<"gen", "&", "wc">>,
  <<"(", "gen", ";", "true", ")", "|", "wc", ">", ">", "g">>,
  <<"gen", ">", "g", "<", "missing">>,
  <<"bogus", ";", " ", "true", "&", "&">>,
  <<"cd", " ", "d">>,
  <<"(", "true">>,
  <<"<", "f", " ", "wc", ">", "g", ";">>,
  <<"true", ">", "|", "wc">>}

(* what comes after the line, for a second shell to run again *)
SecondLines == {<<"false">>, <<"gen", "|", "wc">>}
SmallScripts ==
  ({"nush"} \X (NushLines \X SecondLines)) \cup ({"xv6"} \X (Xv6Lines \X SecondLines))

(* a script like 10-or.sh with a cd that fails, and one like 06-sort-rout.sh *)
OrScripts == {<<"nush", <<<<"cd", " ", "nowhere", "|", "|", "true">>, <<"false">>>>>>}
OutScripts == {<<"nush", <<<<"gen", ">", "g">>, <<"wc", "<", "g">>>>>>}
=============================================================================
