---------------------------- MODULE MCRequestLeg ----------------------------
(***************************************************************************)
(* Small instances of RequestLeg.                                          *)
(***************************************************************************)
EXTENDS RequestLeg

CONSTANTS t1, t2, r1, r2, s1

ToolItem(t, u) == [kind |-> "tool", tool |-> t, url |-> u]
TextItem == [kind |-> "text", tool |-> NoTool, url |-> "url"]

Offers == {<<ToolItem(t1, "clean")>>, <<ToolItem(t2, "clean"), TextItem>>}
Events == {ToolItem(t1, "url")}

\* A proxy per kind of memory; one of them admits a single request.
AllSettings ==
    {[backend |-> "memory", permits |-> 2, failMode |-> "Open"],
     [backend |-> "redis", permits |-> 2, failMode |-> "Open"],
     [backend |-> "noop", permits |-> 1, failMode |-> "Closed"]}

RedisOnly == {[backend |-> "redis", permits |-> 2, failMode |-> "Open"]}
=============================================================================
