------------------------------ MODULE MCHostStart ------------------------------
(***************************************************************************)
(* The builtins that bring the migrations, one that publishes, an optional *)
(* and a required plugin, one with the name of a builtin, and the profiles *)
(* that combine, repeat, disable and break them.                           *)
(***************************************************************************)
EXTENDS HostStart

MCBuiltin == {"host-core", "policy", "identity"}
MCLua == {"kv", "cms", "copy", "bad", "twin"}
MCName == [l \in MCLua |-> IF l \in {"kv", "copy"} THEN "kv-store" ELSE IF l = "twin" THEN "policy" ELSE l]
MCScript == [l \in MCLua |-> IF l = "kv" THEN {2} ELSE {}]

E(id, source, on, must) ==
  [id |-> id, source |-> source, enabled |-> on, required |-> must,
   approved |-> TRUE, writes |-> TRUE]

MCBundle ==
  [base    |-> <<E("host.core", "host-core", TRUE, TRUE), E("policy.core", "policy", TRUE, TRUE)>>,
   api     |-> <<E("identity.core", "identity", TRUE, FALSE)>>,
   plugins |-> <<E("kv.default", "kv", TRUE, FALSE), E("cms.default", "cms", TRUE, TRUE)>>,
   twice   |-> <<E("identity.two", "identity", TRUE, FALSE)>>,
   broken  |-> <<E("cms.other", "cms", FALSE, TRUE)>>]

MCBundles == {<<>>, <<"base">>, <<"api">>, <<"base", "api">>, <<"base", "plugins">>, <<"plugins", "base">>,
              <<"base", "api", "twice">>, <<"base", "base">>, <<"base", "broken">>,
              <<"base", "none">>}

KvOff == E("kv.default", "kv", FALSE, FALSE)
MCOverlays == {<<>>, <<KvOff>>, <<[KvOff EXCEPT !.enabled = TRUE, !.approved = FALSE]>>,
  <<[E("cms.default", "cms", TRUE, TRUE) EXCEPT !.approved = FALSE]>>,
  <<E("cms.default", "copy", TRUE, FALSE), E("kv.default", "kv", TRUE, TRUE)>>,
  <<E("policy.core", "host-core", TRUE, TRUE)>>,
  <<E("host.core", "host-core", FALSE, FALSE)>>,
  <<KvOff, KvOff>>, <<[KvOff EXCEPT !.enabled = TRUE, !.writes = FALSE]>>,
  <<[KvOff EXCEPT !.source = "bad"]>>, <<E("kv.default", "twin", TRUE, FALSE)>>,
  <<E("cms.default", "kv", TRUE, TRUE)>>, <<E("host.core", "missing", TRUE, TRUE)>>}
MCCli == {<<>>, << <<E("kv.default", "kv", TRUE, FALSE)>> >>, << <<KvOff>>, <<E("kv.default", "kv", TRUE, TRUE)>> >>}

MCDocuments == [found : {TRUE}, bundles : MCBundles, overlays : MCOverlays, cli : MCCli]
               \cup {NoDocuments}
=============================================================================
