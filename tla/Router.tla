------------------------------- MODULE Router -------------------------------
(***************************************************************************)
(* internal/routing/router.go: a validated routing definition and the plan *)
(* it gives a request, and the part of internal/controlplane/document.go   *)
(* and internal/gateway/runtime.go that builds a snapshot from one.        *)
(*                                                                         *)
(* A definition is [providers, rules].  providers maps an ID to            *)
(* [type, models, modelCapabilities]; rules is a sequence of               *)
(* [model, candidates], and a candidate is [provider, upstream], with      *)
(* upstream "" for the model that was asked for.  Duplicate IDs and blanks *)
(* around names cannot be written in this form.                            *)
(***************************************************************************)
EXTENDS ChatRequest

(***************************************************************************)
(* normalizeCapabilities: a set per configured model, {text} for the other *)
(* models.  normalizeCapabilitySet refuses what the protocol cannot carry. *)
(***************************************************************************)
Wildcard(p) == "*" \in p.models

normalizeCapabilitySet(type, caps) ==
  /\ caps \subseteq ProtocolCapabilities(type)
  /\ "text" \in caps \/ "embedding" \in caps

normalizeCapabilities(p) ==
  \A m \in DOMAIN p.modelCapabilities :
    /\ m \in p.models \/ Wildcard(p)
    /\ normalizeCapabilitySet(p.type, p.modelCapabilities[m])

Capabilities(p) ==
  [m \in p.models \cup DOMAIN p.modelCapabilities |->
     IF m \in DOMAIN p.modelCapabilities THEN p.modelCapabilities[m] ELSE {"text"}]

validateProviders(providers) ==
  /\ DOMAIN providers # {}
  /\ \A id \in DOMAIN providers :
       /\ providers[id].type \in SupportedProtocols
       /\ providers[id].models # {}
       /\ normalizeCapabilities(providers[id])

providerSupports(p, model) == Wildcard(p) \/ model \in p.models

\* A model with capabilities of its own does not inherit those of "*".
providerSupportsCapabilities(p, model, required) ==
  LET caps == Capabilities(p)
      available == IF model \in DOMAIN caps THEN caps[model]
                   ELSE IF "*" \in DOMAIN caps THEN caps["*"] ELSE {}
  IN  required \subseteq available

Upstream(target, model) == IF target.upstream = "" THEN model ELSE target.upstream

validateTargets(rule, providers) ==
  /\ rule.candidates # <<>>
  /\ \A i \in DOMAIN rule.candidates : LET t == rule.candidates[i] IN
       /\ t.provider \in DOMAIN providers
       /\ providerSupports(providers[t.provider], Upstream(t, rule.model))

\* New: the definition is accepted.
NewRouter(d) ==
  /\ validateProviders(d.providers)
  /\ d.rules # <<>>
  /\ \A i \in DOMAIN d.rules : validateTargets(d.rules[i], d.providers)
  /\ \A i, j \in DOMAIN d.rules : d.rules[i].model = d.rules[j].model => i = j

(***************************************************************************)
(* Plan.  A duplicate target of a rule is used once (validateTargets).     *)
(***************************************************************************)
RuleFor(d, model) ==
  LET named == SelectSeq(d.rules, LAMBDA rule : rule.model = model)
      any   == SelectSeq(d.rules, LAMBDA rule : rule.model = "*")
  IN  IF named # <<>> THEN named[1].candidates
      ELSE IF any # <<>> THEN any[1].candidates ELSE <<>>

Targets(d, model) ==
  LET c == RuleFor(d, model)
      first == SelectSeq([i \in DOMAIN c |-> i], LAMBDA i : \A j \in 1..(i - 1) : c[j] # c[i])
  IN  [k \in DOMAIN first |-> c[first[k]]]

Available(d, model) ==
  SelectSeq(Targets(d, model),
            LAMBDA t : providerSupports(d.providers[t.provider], Upstream(t, model)))

Plan(d, model, required) ==
  LET able == SelectSeq(Available(d, model), LAMBDA t :
                 providerSupportsCapabilities(d.providers[t.provider], Upstream(t, model), required))
  IN  [err |-> IF able # <<>> THEN ""
               ELSE IF Available(d, model) # <<>> THEN "ErrCapabilityUnavailable" ELSE "ErrNoRoute",
       candidates |-> [k \in DOMAIN able |->
                        [provider |-> able[k].provider, model |-> Upstream(able[k], model)]]]

(***************************************************************************)
(* A snapshot serves embeddings when some adapter has an Embed method.     *)
(***************************************************************************)
EmbeddingProtocols == SupportedProtocols \ {"anthropic", "bedrock", "cohere", "dashscope", "cloudflare"}

EmbeddingRegistry(d) == {id \in DOMAIN d.providers : d.providers[id].type \in EmbeddingProtocols}

\* Builder.build and Manager.Replace: what does not validate is not published.
build(d) == NewRouter(d)
=============================================================================
