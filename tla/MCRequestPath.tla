--------------------------- MODULE MCRequestPath ---------------------------
(* Instance of RequestPath: two requests, three routing versions.  Version 2 *)
(* changes the order of the candidates and the queue of one provider;        *)
(* version 3 gives an Anthropic provider audio, which New refuses.           *)
EXTENDS RequestPath

Ask(kind, model, needs) == [kind |-> kind, model |-> model, needs |-> needs]

MCAsks == {Ask("chat", "m1", {"text"}),
           Ask("stream", "m2", {"text", "tools"}),
           Ask("chat", "m2", {"text", "audio"}),
           Ask("embedding", "m3", {"embedding"})}

Provider(type, models, caps, queue) ==
  [type |-> type, models |-> models, modelCapabilities |-> caps, queue |-> queue]

Target(p) == [provider |-> p, upstream |-> ""]

Rule(model, ids) == [model |-> model, candidates |-> [i \in DOMAIN ids |-> Target(ids[i])]]

Open == Provider("openai", {"m1", "m3"},
                 [m \in {"m1", "m3"} |-> IF m = "m1" THEN {"text", "tools"} ELSE {"embedding"}], 1)

Claude(caps, queue) == Provider("anthropic", {"m1", "m2"}, [m \in {"m1", "m2"} |-> caps], queue)

MCDefinitions ==
  << [providers |-> [p \in {"a", "b"} |-> IF p = "a" THEN Open ELSE Claude({"text", "tools"}, 1)],
      rules |-> <<Rule("m1", <<"a", "b">>), Rule("m3", <<"a">>), Rule("m2", <<"b">>)>>],
     [providers |-> [p \in {"a", "b"} |-> IF p = "a" THEN Open ELSE Claude({"text", "tools"}, 2)],
      rules |-> <<Rule("m1", <<"b", "a">>), Rule("m3", <<"a">>), Rule("m2", <<"b">>)>>],
     [providers |-> [p \in {"a", "b"} |-> IF p = "a" THEN Open
                                           ELSE Claude({"text", "tools", "audio"}, 2)],
      rules |-> <<Rule("m1", <<"b", "a">>), Rule("m2", <<"b">>)>>] >>
=============================================================================
