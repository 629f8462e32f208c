---------------------------- MODULE MC_DecoderList ----------------------------
(***************************************************************************)
(* A small instance of DecoderList: three compiled-in plugins, one         *)
(* unknown plugin name, and three configurations that together exercise   *)
(* every branch of init_all() and of the table build: no blocks; blocks    *)
(* with upper-case and repeated codecs, an unknown plugin and a block      *)
(* without "plugin"; a plugin disabled by "enabled" and two blocks for the *)
(* same plugin.  Two init/deinit cycles let a second configuration follow  *)
(* a first one.                                                            *)
(***************************************************************************)
EXTENDS DecoderList

CONSTANTS p1, p2, p3, Unknown

MCRegistry == <<p1, p2, p3>>
MCNames == {p1, p2, p3, Unknown}

MCPluginSuffixes == [p \in {p1, p2, p3} |->
                       IF p = p3 THEN {<<"a">>} ELSE {<<"a">>, <<"b">>}]

\* p3 stands for the always-present pcm plugin, whose Init() cannot fail.
MCInitResults == [p \in {p1, p2, p3} |->
                    IF p = p3 THEN {"true"}
                    ELSE {"true", "false", "unavailable", "fatal"}]

Blk(name, on, codecs) == [plugin |-> name, enabled |-> on, codecs |-> codecs]

\* "A, a" for p2; "b a" for p1; "a" for an unknown plugin; "b" without plugin.
Config1 == << Blk(p2, TRUE, <<"A", ",", " ", "a">>),
              Blk(p1, TRUE, <<"b", " ", "a">>),
              Blk(Unknown, TRUE, <<"a">>),
              Blk(NoName, TRUE, <<"b">>) >>

\* p1 disabled yet given "a"; p3 given ",b," and then "a\tB".
Config2 == << Blk(p1, FALSE, <<"a">>),
              Blk(p3, TRUE, <<",", "b", ",">>),
              Blk(p3, TRUE, <<"a", "\t", "B">>) >>

MCConfigs == {<<>>, Config1, Config2}

MCQueries == {<<>>, <<"a">>, <<"A">>, <<"b">>, <<"a", "b">>}
=============================================================================
