------------------------------ MODULE MCLogText ------------------------------
(* Texts short enough for every order of the tokens that interact.         *)
EXTENDS LogText

Texts(tokens, n) == UNION {[1 .. k -> tokens] : k \in 0 .. n}

MCFormats ==
  Texts({"%level", "%msg", Escape}, 4)
  \cup UNION {Texts(ts, 3) : ts \in {{"%vlevel", "%user", "%logger", Escape}, {"%ip", "%who", Escape},
                                   {"%ip", DateTime, Escape, "%msg"}, {DateTime, "{", "}", Escape}}}
  \cup {<<e, DateTime, "{", "x", c, "}">> : e \in {Escape, DateTime}, c \in {"}", Escape, "{"}}
MCNames == Texts({DateTime, Escape, "{", "}", "x"}, 4)
MCMessages == {<<"m">>, <<Escape, "%ip">>, <<"%level", "%vlevel", Escape, "%msg", DateTime, "{">>}
MCCustomSpecifiers == {[specifier |-> "%ip", value |-> <<"here">>],
                       [specifier |-> "%ip", value |-> <<"there">>],
                       [specifier |-> "%who", value |-> <<"me", Escape, "%ip">>]}
MCAscending == <<"a", "b", "c">>
Text1(w) == [kind |-> "text", items |-> <<w>>]
Words == {Text1(w) : w \in ToSet(MCAscending)}
Holding(kind, items) == [kind |-> kind, items |-> items]
Simple == {Holding(k, <<"a">>) : k \in {"text", "qstring", "bitset"}}
  \cup {Holding("pair", <<Text1("a"), Holding("qstring", <<"b">>)>>)}
  \cup {Holding(k, s) : k \in {"vector", "queue", "stack"}, s \in {<<>>, <<Text1("c"), Text1("b")>>}}
MCContainers == Simple
  \cup {Holding(k, s) : k \in {"vector", "queue", "stack", "priority_queue", "friendly"}, s \in Texts(Words, 4)}
  \cup {Holding(k, s) : k \in {"vector", "list", "queue"}, s \in Texts(Simple, 2)}
  \cup {Holding(k, [i \in 1 .. n |-> Holding("pair", <<Text1("a"), v>>)]) :
         k \in {"qmap", "vector"}, n \in 0 .. 4, v \in Simple}
MCValues == MCContainers \cup Simple \cup Words \cup {Holding("qstring", <<"b">>)}
  \cup {Holding("pair", <<Text1("a"), v>>) : v \in Simple}
MCFullNames == Texts({"/", "a", "b"}, 4)
MCSources == Texts({".", "x", "/"}, 4) \cup {u \o t \o v : u \in Texts({"/", "x"}, 2), t \in [1 .. 2 -> {".", "x"}], v \in {<<"x", "x", "x", "x">>, <<"x", ".", "x">>}}
MCFileSystems ==
  LET There == {{}, {<<"here", "a">>}, {<<"root", "a">>}, {<<"root", "a">>, <<"root", "a", "b">>}}
      Fs(there) == {[there |-> there, closed |-> c] : c \in SUBSET there}
  IN  UNION {Fs({<<"root">>, <<"here">>} \cup t) : t \in There}
MCNumbers == Texts({" ", "0", "9", "-"}, 4)
MCTimes == [sec : {0, 59, 3599, 43200, 86400}, usec : {0, 999, 10000, 123456, 999999}]
MCStamps == [sec : {0, 1, 60}, usec : {0, 999, 1000, 999999}]
MCStatements ==
  [logger : {<<"net">>, <<"residue">>}, msg : {<<"m">>}, file : {<<>>, <<"f">>},
   line : {0, 7}, func : {<<>>}, level : {4}, vlevel : {0, 2}]
MCClients ==
  [zone : [standard : {0, 3600, -18000}, summer : BOOLEAN], m_utc : BOOLEAN,
   m_timeOffset : {0, 60}, m_applicationId : {<<>>, <<"app">>}]
MCDurations == {0, 1, 59, 60, 61, 999, 1000, 1001, 1899, 1900, 60000, 61000, 1899999, 3600000, 3661000,
                90000000, 604800000, 2000000000}
MCQuoted == Texts({Quote, Backslash, Comment, "x"}, 4)
MCLines == {<<LoggerMark, "net">>, <<LoggerMark, "a">>, <<LoggerMark, "bad">>,
            <<LevelMark, "INFO", ":">>, <<LevelMark, "GLOBAL", ":">>,
            <<LevelMark, "BAD", ":", Comment>>, <<Comment, "=">>,
            <<"ENABLED", "=", "true">>, <<"TO_FILE", "=", "x", Comment, "x">>}
MCFiles == [1 .. 4 -> MCLines]
Entry(name, level) == [name |-> name, level |-> level]
MCModules == {<<"a">>, <<"b">>, <<"a", "*">>, <<"?", "b">>}
MCEntries == {<<Entry(n, l)>> : n \in MCModules, l \in {1, 3}}
  \cup {<<Entry(<<"a">>, 2), Entry(n, 4)>> : n \in MCModules}
Arg(key, level, entries) == [key |-> key, level |-> level, entries |-> entries]
MCArgs == {Arg("-v", 0, <<>>), Arg("--v", 2, <<>>), Arg("--v", 4, <<>>),
           Arg("-vmodule", 0, <<Entry(<<"a">>, 3)>>), Arg("-vmodule", 0, <<Entry(<<"b">>, 1)>>)}
MCCommandLines == {<<a, b>> : a, b \in MCArgs}
MCPaths == {<<"s", "/", "a", ".cc">>, <<"b", ".h">>, <<"s", "/", "a", "b", ".cpp">>, <<"a", ".x">>}
=============================================================================
