---------------------------- MODULE MCAgentBackup ----------------------------
(* A tree of two sources with a file that may grow or shrink, a link and an   *)
(* empty directory, and two databases of one name.                            *)
EXTENDS AgentBackup, TLC

MCTree == ("etc" :> {"conf", "link"}) @@ ("log" :> {})
MCSize == ("conf" :> 1) @@ ("link" :> 0)

T(k, v) == [key |-> k, val |-> v]
Db == <<T("host", "a"), T("user", "u"), T("dbname", "postgres"), T("password_secret", "pw")>>
MCLine ==
  ("db1" :> Db) @@ ("db2" :> Db \o <<T("host", "b")>>)
  @@ ("typo" :> <<T("host", "a"), T("", "user")>>)
  @@ ("nosecret" :> Db \o <<T("password_secret", "gone")>>)

Req(engine, sources, verify) == [engine |-> engine, sources |-> sources, verify |-> verify]
MCRequests ==
  {Req("", <<"etc", "log">>, FALSE), Req("tar", <<>>, FALSE), Req("zip", <<"etc">>, FALSE)}
  \cup {Req("pgdump", s, v) : s \in {<<"db1">>, <<"db1", "db2">>, <<"db2", "typo">>, <<"nosecret">>},
                              v \in BOOLEAN}
==============================================================================
