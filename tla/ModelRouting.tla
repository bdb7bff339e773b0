----------------------------- MODULE ModelRouting ---------------------------
(***************************************************************************)
(* The model registry (internal/models/registry.go, refresh.go) and the    *)
(* routing of requests by it.  At start-up the registry holds the builtin  *)
(* and the preset models; main then starts RefreshModelRegistry, which     *)
(* merges the list the upstream gives, entry by entry, while requests are  *)
(* already being served (main.go:343).  A request looks at the registry    *)
(* three times: when its protocol handler maps the name the client sent,   *)
(* when its channel is chosen, and when the upstream name is filled in,    *)
(* again for a retry.                                                      *)
(*                                                                         *)
(* A name is [key, spelling]: key is its normalized form, a sequence of    *)
(* parts, and spelling tells names of one key apart (registry.go:74-81).   *)
(***************************************************************************)
EXTENDS Naturals, FiniteSets, SequencesExt

CONSTANTS
  Builtins,    (* builtinModels, in order: [id, display, aliases] *)
  Presets,     (* PresetModels, likewise *)
  LegacyKeys,  (* the names ResolveChannel's first switch lists *)
  AgentKeys,   (* the names its second switch lists *)
  AgentConfig, (* the configurations ResolveAgentTaskConfig lists, by key *)
  DefaultModel, DefaultUpstreamModel,
  Entries,     (* what model_list may contain: [name, display, usable] *)
  MaxListed,   (* bound: entries in one list *)
  Asked,       (* names a client may send *)
  Clients,     (* requests in progress *)
  None

Builtin == {Builtins[i].id : i \in DOMAIN Builtins}
Preset == {Presets[i].id : i \in DOMAIN Presets}

\* No name is empty (refresh.go:52), and the first switch of ResolveChannel
\* lists the presets and no builtin model.
ASSUME RoutingAssumption ==
  /\ Builtins \in Seq(ToSet(Builtins)) /\ Presets \in Seq(ToSet(Presets))
  /\ DefaultModel \in Builtin /\ DefaultUpstreamModel \in Preset
  /\ None \notin Builtin \union Preset \union {entry.name : entry \in Entries}
  /\ {id.key : id \in Preset} \subseteq LegacyKeys
  /\ {id.key : id \in Builtin \ Preset} \intersect (LegacyKeys \union {<<>>}) = {}
  /\ (LegacyKeys \union {<<>>}) \intersect AgentKeys = {}
  /\ MaxListed \in Nat

VARIABLES
  models,  (* r.models: [display, source, upstream, channel] by ModelID *)
  aliases, (* r.aliases: ModelID by normalized alias *)
  refresh, (* the refresh: "fetch", "merge", "link" or "done" *)
  pending, (* entries of the list not merged yet *)
  listed,  (* history: usable names the upstream has listed *)
  request  (* request[c]: what the request of client c knows *)

registry == <<models, aliases>>
vars == <<registry, refresh, pending, listed, request>>

Normalize(name) == name.key

FreshModel(display, source, upstream, channel) ==
  [display |-> display, source |-> source, upstream |-> upstream,
   channel |-> channel]

\* Upsert overwrites a model as a whole.  Its aliases are added, and taken
\* over from the model that had them; the old ones stay.
UpsertModel(ms, id, m) ==
  [n \in DOMAIN ms \union {id} |-> IF n = id THEN m ELSE ms[n]]
UpsertAliases(as, id, keys) ==
  [k \in DOMAIN as \union keys |-> IF k \in keys THEN id ELSE as[k]]

Preload(reg, entry, upstream, channel) ==
  <<UpsertModel(reg[1], entry.id,
                FreshModel(entry.display, "builtin", upstream, channel)),
    UpsertAliases(reg[2], entry.id, entry.aliases)>>

NewRegistry ==
  FoldLeft(LAMBDA reg, b : Preload(reg, b, None, "agent"), <<<<>>, <<>>>>,
           Builtins)

NewDefaultRegistry ==
  FoldLeft(LAMBDA reg, p : Preload(reg, p, p.id, "legacy"), NewRegistry,
           Presets)

Init ==
  /\ models = NewDefaultRegistry[1]
  /\ aliases = NewDefaultRegistry[2]
  /\ refresh = "fetch" /\ pending = <<>> /\ listed = {}
  /\ request = [c \in Clients |->
       [pc |-> "idle", asked |-> None, tools |-> FALSE, model |-> None,
        channel |-> None, upstream |-> None, tries |-> 0]]
-----------------------------------------------------------------------------
(* Looking a name up. *)

SameKey(name) == {id \in DOMAIN models : Normalize(id) = Normalize(name)}

Prefixed(name) ==
  {id \in DOMAIN models : IsPrefix(Normalize(name), Normalize(id))}

\* The models Resolve may return: the registry is a Go map, and of several
\* ids with one key any may be met first.
Resolve(name) ==
  CASE name \in DOMAIN models -> {name}
    [] name \notin DOMAIN models /\ SameKey(name) # {} -> SameKey(name)
    [] SameKey(name) = {} /\ Normalize(name) \in DOMAIN aliases ->
         {aliases[Normalize(name)]}
    [] OTHER -> IF Cardinality(Prefixed(name)) = 1 THEN Prefixed(name)
                                                   ELSE {None}

\* The answers ResolveChannel may give.  The last test of registry.go:336 is
\* unreachable: a channel is one of the two tested before it.
ResolveChannel(name) ==
  CASE Normalize(name) = <<>> \/ Normalize(name) \in LegacyKeys -> {"legacy"}
    [] Normalize(name) \in AgentKeys -> {"agent"}
    [] OTHER -> {IF id = None THEN "agent" ELSE models[id].channel
                   : id \in Resolve(name)}

UpstreamFor(name) ==
  {CASE id = None -> DefaultUpstreamModel
     [] id # None /\ models[id].upstream # None -> models[id].upstream
     [] OTHER -> IF models[id].source = "remote" THEN id
                                                 ELSE DefaultUpstreamModel
     : id \in Resolve(name)}

ResolveAgentTaskConfig(name) ==
  IF Normalize(name) \in DOMAIN AgentConfig THEN AgentConfig[Normalize(name)]
                                            ELSE name
-----------------------------------------------------------------------------
(* The refresh at start-up. *)

\* A list that cannot be fetched or parsed leaves the registry as it is.
FetchModels ==
  /\ refresh = "fetch"
  /\ \/ \E n \in 0 .. MaxListed : \E l \in [1 .. n -> Entries] :
          /\ IsInjective(l)
          /\ pending' = l
          /\ refresh' = "merge"
     \/ refresh' = "done" /\ UNCHANGED pending
  /\ UNCHANGED <<registry, listed, request>>

Known(entry) == entry.name \in DOMAIN models

\* Slip: a known model's upstream name is left out of the new entry.
RemergedUnnamed(entry) ==
  [models[entry.name] EXCEPT !.display = entry.display, !.upstream = None,
                             !.channel = "legacy"]

\* The entry Upsert is given for a model the registry knows: its channel is
\* not copied, so it is the zero value, the legacy channel (refresh.go:73).
Remerged(entry) ==
  [models[entry.name] EXCEPT !.display = entry.display,
                             !.upstream = entry.name, !.channel = "legacy"]

NewRemote(entry) ==
  FreshModel(entry.display, "remote", entry.name, "legacy")

\* Slip: a known model keeps only the aliases of its new entry, which has none.
MergeForgetsAliases(entry) ==
  /\ models' = UpsertModel(models, entry.name,
                 IF Known(entry) THEN Remerged(entry) ELSE NewRemote(entry))
  /\ aliases' = IF Known(entry)
                THEN Restrict(aliases, {k \in DOMAIN aliases :
                                          aliases[k] # entry.name})
                ELSE UpsertAliases(aliases, entry.name, {entry.display})
  /\ listed' = listed \union {entry.name}

MergeUsable(entry) ==
  /\ models' = UpsertModel(models, entry.name,
                 IF Known(entry) THEN Remerged(entry) ELSE NewRemote(entry))
  /\ aliases' = IF Known(entry) THEN aliases
                ELSE UpsertAliases(aliases, entry.name, {entry.display})
  /\ listed' = listed \union {entry.name}

\* The next entry of the list; one that is not an enabled preset is skipped.
MergeEntry ==
  /\ refresh = "merge"
  /\ IF pending = <<>>
     THEN refresh' = "link" /\ UNCHANGED <<registry, pending, listed>>
     ELSE /\ pending' = Tail(pending)
          /\ UNCHANGED refresh
          /\ IF Head(pending).usable THEN MergeUsable(Head(pending))
             ELSE UNCHANGED <<registry, listed>>
  /\ UNCHANGED request

Remotes == {id \in DOMAIN models :
              models[id].source = "remote" \/ models[id].upstream # None}

\* The live models a builtin one may be linked to: display name equal to its
\* id or to its own display name.
Matches(b) == {id \in Remotes : models[id].display \in {b.key, models[b].display}}

Linkable == {b \in DOMAIN models : /\ models[b].source = "builtin"
                                   /\ models[b].upstream = None
                                   /\ Matches(b) # {}}

linkUpstreamByDisplayName ==
  /\ refresh = "link"
  /\ refresh' = "done"
  /\ \E link \in [Linkable -> Remotes] :
       /\ \A b \in Linkable : link[b] \in Matches(b)
       /\ models' = [b \in DOMAIN models |->
            IF b \in Linkable
            THEN [models[b] EXCEPT !.upstream = models[link[b]].upstream]
            ELSE models[b]]
  /\ UNCHANGED <<aliases, pending, listed, request>>

RefreshModelRegistry == FetchModels \/ MergeEntry \/ linkUpstreamByDisplayName
-----------------------------------------------------------------------------
(* One request. *)

At(c, pc) == request[c].pc = pc

Unchanged == UNCHANGED <<registry, refresh, pending, listed>>

\* The protocol handler reads the request, and puts the id of the model the
\* name resolves to, or the default model's, in its place.
toUpstream(c) ==
  /\ At(c, "idle")
  /\ \E name \in Asked, tools \in BOOLEAN :
       \E id \in Resolve(name) :
         request' = [request EXCEPT
           ![c].pc = "guard", ![c].asked = name, ![c].tools = tools,
           ![c].model = IF id = None THEN DefaultModel ELSE id]
  /\ Unchanged

\* ValidateAgentTaskRequest: no tools on the agent channel.
Refused(c, channel) == channel = "agent" /\ request[c].tools

\* The Anthropic and Responses handlers ask for the channel to answer 400;
\* the chat handler does not ask.
Guard(c) ==
  /\ At(c, "guard")
  /\ \E channel \in ResolveChannel(request[c].model) :
       \E asks \in BOOLEAN :
         request' = [request EXCEPT
           ![c].pc = IF asks /\ Refused(c, channel) THEN "refused"
                                                    ELSE "dispatch"]
  /\ Unchanged

\* Slip: ChatCompletion relies on the handlers' guard.
DispatchUnguarded(c) ==
  /\ At(c, "dispatch")
  /\ \E channel \in ResolveChannel(request[c].model) :
       request' = [request EXCEPT ![c].pc = "send", ![c].channel = channel]
  /\ Unchanged

\* ChatCompletion fixes the channel, for the retry too.
Dispatch(c) ==
  /\ At(c, "dispatch")
  /\ \E channel \in ResolveChannel(request[c].model) :
       request' = [request EXCEPT
         ![c].pc = IF Refused(c, channel) THEN "refused" ELSE "send",
         ![c].channel = channel]
  /\ Unchanged

Send(c) ==
  /\ At(c, "send")
  /\ \E name \in IF request[c].channel = "legacy"
                 THEN UpstreamFor(request[c].model)
                 ELSE {ResolveAgentTaskConfig(request[c].model)} :
       request' = [request EXCEPT ![c].pc = "sent", ![c].upstream = name,
                                  ![c].tries = @ + 1]
  /\ Unchanged

\* A rejected token: the second and last attempt.
Retry(c) ==
  /\ At(c, "sent") /\ request[c].tries < 2
  /\ request' = [request EXCEPT ![c].pc = "send"]
  /\ Unchanged

Next ==
  \/ RefreshModelRegistry
  \/ \E c \in Clients : \/ toUpstream(c) \/ Guard(c) \/ Dispatch(c)
                        \/ Send(c) \/ Retry(c)

Spec == Init /\ [][Next]_vars
-----------------------------------------------------------------------------
\* The registry is consistent at every moment of a refresh: an alias names a
\* registered model; an upstream name is a preset's or one the upstream has
\* listed, never the one of an entry that was to be skipped; a model on the
\* legacy channel goes upstream under its own name; and the presets, which
\* every client may rely on, stay on the legacy channel (registry.go:102-130,
\* refresh.go:52-92).
RegistryInv ==
  /\ \A k \in DOMAIN aliases : aliases[k] \in DOMAIN models
  /\ \A id \in DOMAIN models : LET m == models[id] IN
       /\ m.upstream \in Preset \union listed \union {None}
       /\ m.channel = "legacy" => m.upstream = id
       /\ m.source = "remote" => id \in listed
  /\ \A id \in Preset : models[id].channel = "legacy"

\* What is sent upstream fits the channel, though the channel, the model and
\* its upstream name are looked up at different moments of a refresh: the
\* legacy channel, which answers anything but a preset or listed name with
\* MODEL_NOT_EXISTED (refresh.go:44-47), is asked for exactly the model the
\* request was mapped to, and never for the fallback DefaultUpstreamModel in
\* its place; the agent channel is never given tools (agent_task.go:34), nor
\* a preset model.
RoutedRight ==
  \A c \in Clients : At(c, "sent") =>
    \/ /\ request[c].channel = "legacy"
       /\ request[c].upstream = request[c].model
       /\ request[c].upstream \in Preset \union listed
    \/ /\ request[c].channel = "agent"
       /\ ~request[c].tools
       /\ request[c].model \notin Preset

\* A refresh never makes a name unknown that was an id, another spelling of
\* one, or an alias, and an id goes on meaning its own model.  (A prefix has
\* no such promise: it is only good while it is unique.)
NamesKeepResolving ==
  [][\A name \in Asked :
       /\ SameKey(name) # {} \/ Normalize(name) \in DOMAIN aliases
            => None \notin Resolve(name)'
       /\ name \in DOMAIN models => Resolve(name)' = {name}]_vars
=============================================================================
