----------------------------- MODULE DecoderList -----------------------------
(***************************************************************************)
(* The decoder plugin registry of src/src/decoder/DecoderList.cxx: the     *)
(* static plugin list decoder_plugins[], the flags decoder_plugins_enabled *)
(* set by decoder_plugin_init_all(), the codec priority table              *)
(* decoder_codec_priorities rebuilt by BuildDecoderCodecPriorities(), the  *)
(* lookups decoder_plugins_for_suffix() / decoder_plugins_supports_suffix()*)
(* and decoder_plugin_deinit_all().                                        *)
(*                                                                         *)
(* Nothing here runs concurrently (the caller guarantees init, lookups and *)
(* deinit do not overlap), so the two loops of decoder_plugin_init_all()   *)
(* are modelled as one step per iteration of a single control thread: one  *)
(* step per plugin whose Init may throw, then one step per decoder block   *)
(* of the table build.  A configuration is a sequence of decoder blocks;   *)
(* a string is a sequence of one-character strings.                        *)
(***************************************************************************)
EXTENDS Naturals, Sequences, SequencesExt, Functions, FiniteSetsExt, CodecList

CONSTANTS
  Registry,       \* decoder_plugins[]: the compiled-in plugins in static order
  PluginSuffixes, \* the suffixes each plugin declares (DecoderPlugin::suffixes)
  InitResults,    \* the outcomes each plugin's Init() can have
  Names,          \* the plugin names a configuration may mention
  NoName,         \* the "plugin" value of a block that has none
  Configs,        \* the configurations init_all() may be given
  Queries,        \* the suffixes the lookups are asked about
  MaxCycles       \* bound on init_all()/deinit_all() cycles

Plugins == ToSet(Registry)

\* Init() returns true or false, throws PluginUnavailable, or throws anything else.
Outcomes == {"true", "false", "unavailable", "fatal"}

\* A ConfigBlock of option DECODER: "plugin", "enabled" and "codecs" values.
\* An absent "codecs" value parses like an empty one.
Blocks == [plugin : Names \cup {NoName}, enabled : BOOLEAN, codecs : Seq(STRING)]

ASSUME RegistryAssumption ==
  /\ Registry \in Seq(Names)
  /\ Len(Registry) > 0
  /\ IsInjective(Registry)
  /\ NoName \notin Names
  /\ PluginSuffixes \in [Plugins -> SUBSET Seq(STRING)]
  /\ InitResults \in [Plugins -> (SUBSET Outcomes) \ {{}}]
  /\ Configs \subseteq Seq(Blocks)
  /\ Queries \subseteq Seq(STRING)
  /\ MaxCycles \in Nat

VARIABLES
  phase,       \* where the lifecycle is (see Phases)
  cursor,      \* loop index: plugin i of init_all, or block of the table build
  config,      \* the ConfigData given to the running/last init_all()
  enabled,     \* decoder_plugins_enabled[]
  live,        \* the plugin's Init() returned true and Finish() was not called since
  priorities,  \* decoder_codec_priorities: lower-cased codec -> plugin list
  cycles       \* number of init_all() calls so far

vars == <<phase, cursor, config, enabled, live, priorities, cycles>>

Phases == {"uninit", "init", "build", "ready", "aborted"}

-----------------------------------------------------------------------------
(* config/Block.hxx and config/Data.hxx (not under src/).                  *)

\* ConfigData::FindBlock(DECODER, "plugin", name): the first block naming it,
\* or the default-constructed block (enabled by default, no codecs).
EmptyBlock == [plugin |-> NoName, enabled |-> TRUE, codecs |-> <<>>]

FindBlock(cfg, name) ==
  LET hits == {i \in 1..Len(cfg) : cfg[i].plugin = name}
  IN  IF hits = {} THEN EmptyBlock ELSE cfg[Min(hits)]

-----------------------------------------------------------------------------
(* decoder_plugin_from_name(): decoder_plugins_find() over the enabled     *)
(* plugins (DecoderList.hxx, not under src/), as a set of at most one.     *)
\* Mutant: the configured name used without resolving it (no nullptr check).
FindByNameUnresolved(name) == IF name = NoName THEN {} ELSE {name}

\* Mutant: decoder_plugins_find() without the decoder_plugins_enabled test.
FindByNameAnyPlugin(name) == {p \in Plugins : p = name}

FindByName(name) == {p \in Plugins : enabled[p] /\ p = name}

\* GetEnabledDecoderPlugins(): the enabled plugins in static order.
EnabledPlugins(flags) == SelectSeq(Registry, LAMBDA p : flags[p])

\* Mutant: push_back without the std::find test.
AddOverrideNoFind(table, plugin, codecs) ==
  LET keys == ToSet(codecs)
      old(k) == IF k \in DOMAIN table THEN table[k] ELSE <<>>
  IN  [k \in DOMAIN table \cup keys |->
         IF k \in keys THEN Append(old(k), plugin) ELSE old(k)]

\* One decoder block's codec list, added to the table: each codec's list gets
\* the plugin appended unless it is already there (std::find before push_back).
AddOverride(table, plugin, codecs) ==
  LET keys == ToSet(codecs)
      old(k) == IF k \in DOMAIN table THEN table[k] ELSE <<>>
  IN  [k \in DOMAIN table \cup keys |->
         IF k \in keys /\ ~Contains(old(k), plugin)
         THEN Append(old(k), plugin) ELSE old(k)]

EmptyTable == [k \in {} |-> <<>>]

\* Mutant: push_back without the std::find test.
PushMissingNoFind(list, flags) ==
  LET res[i \in 0..Len(Registry)] ==
        IF i = 0 THEN list
        ELSE IF flags[Registry[i]] THEN Append(res[i - 1], Registry[i])
             ELSE res[i - 1]
  IN  res[Len(Registry)]

\* The loop of decoder_plugins_for_suffix() over GetEnabledDecoderPlugins()
\* (the registry in static order, disabled plugins skipped): each plugin
\* std::find does not find in the result so far is pushed.
PushMissing(list, flags) ==
  LET res[i \in 0..Len(Registry)] ==
        IF i = 0 THEN list
        ELSE IF flags[Registry[i]] /\ ~Contains(res[i - 1], Registry[i])
             THEN Append(res[i - 1], Registry[i])
             ELSE res[i - 1]
  IN  res[Len(Registry)]

\* The suffix lower-cased character by character, as the codec keys are.
LowerKey(suffix) == [i \in 1..Len(suffix) |-> ToLowerASCII(suffix[i])]

\* decoder_plugins_for_suffix(): the override list of the lower-cased suffix,
\* then every enabled plugin not yet in the result, in static order.
ForSuffix(suffix) ==
  LET key  == [i \in 1..Len(suffix) |-> ToLowerASCII(suffix[i])]
      list == IF suffix # <<>> /\ key \in DOMAIN priorities
              THEN priorities[key] ELSE <<>>
  IN  PushMissing(list, enabled)

\* decoder_plugins_supports_suffix(): does some enabled plugin declare it?
\* DecoderPlugin::SupportsSuffix() compares without regard to case.
SupportsSuffix(suffix) ==
  \E i \in 1..Len(EnabledPlugins(enabled)) :
     \E s \in PluginSuffixes[EnabledPlugins(enabled)[i]] :
        LowerKey(s) = LowerKey(suffix)

-----------------------------------------------------------------------------
(* The lifecycle.                                                          *)

Init ==
  /\ phase = "uninit"
  /\ cursor = 0
  /\ config = <<>>
  /\ enabled = [p \in Plugins |-> FALSE]
  /\ live = [p \in Plugins |-> FALSE]
  /\ priorities = EmptyTable
  /\ cycles = 0

\* decoder_plugin_init_all(config) is called.
StartInitAll(cfg) ==
  /\ phase = "uninit"
  /\ cycles < MaxCycles
  /\ phase' = "init"
  /\ cursor' = 1
  /\ config' = cfg
  /\ cycles' = cycles + 1
  /\ UNCHANGED <<enabled, live, priorities>>

\* The plugin of the current iteration and its configuration block.
CurPlugin == Registry[cursor]
CurBlock == FindBlock(config, CurPlugin)

\* "enabled" is false in the plugin's block: continue without calling Init().
InitSkipDisabled ==
  /\ phase = "init"
  /\ cursor <= Len(Registry)
  /\ ~CurBlock.enabled
  /\ cursor' = cursor + 1
  /\ UNCHANGED <<phase, config, enabled, live, priorities, cycles>>

\* Init() returned true: decoder_plugins_enabled[i] = true.
InitSucceeded ==
  /\ phase = "init"
  /\ cursor <= Len(Registry)
  /\ CurBlock.enabled
  /\ "true" \in InitResults[CurPlugin]
  /\ enabled' = [enabled EXCEPT ![CurPlugin] = TRUE]
  /\ live' = [live EXCEPT ![CurPlugin] = TRUE]
  /\ cursor' = cursor + 1
  /\ UNCHANGED <<phase, config, priorities, cycles>>

\* Init() returned false, or threw PluginUnavailable (logged): the flag is
\* left as it is and the loop goes on.
InitDeclined ==
  /\ phase = "init"
  /\ cursor <= Len(Registry)
  /\ CurBlock.enabled
  /\ InitResults[CurPlugin] \cap {"false", "unavailable"} # {}
  /\ cursor' = cursor + 1
  /\ UNCHANGED <<phase, config, enabled, live, priorities, cycles>>

\* Init() threw anything else: rethrown wrapped, init_all() ends here and
\* the table is not rebuilt; startup is aborted.
InitFailed ==
  /\ phase = "init"
  /\ cursor <= Len(Registry)
  /\ CurBlock.enabled
  /\ "fatal" \in InitResults[CurPlugin]
  /\ phase' = "aborted"
  /\ UNCHANGED <<cursor, config, enabled, live, priorities, cycles>>

\* Mutant: the table build without decoder_codec_priorities.clear().
BeginBuildKeepTable ==
  /\ phase = "init"
  /\ cursor = Len(Registry) + 1
  /\ phase' = "build"
  /\ cursor' = 1
  /\ UNCHANGED <<config, enabled, live, priorities, cycles>>

\* After the loop: BuildDecoderCodecPriorities() starts by clearing the table.
BeginBuild ==
  /\ phase = "init"
  /\ cursor = Len(Registry) + 1
  /\ phase' = "build"
  /\ cursor' = 1
  /\ priorities' = EmptyTable
  /\ UNCHANGED <<config, enabled, live, cycles>>

\* A block without "plugin", or naming no enabled plugin: skipped (warning).
BuildSkipBlock ==
  /\ phase = "build"
  /\ cursor <= Len(config)
  /\ FindByName(config[cursor].plugin) = {}
  /\ cursor' = cursor + 1
  /\ UNCHANGED <<phase, config, enabled, live, priorities, cycles>>

\* A block naming an enabled plugin: its parsed codec list is added.
BuildAddBlock ==
  /\ phase = "build"
  /\ cursor <= Len(config)
  /\ \E p \in FindByName(config[cursor].plugin) :
        priorities' = AddOverride(priorities, p, ParseCodecList(config[cursor].codecs))
  /\ cursor' = cursor + 1
  /\ UNCHANGED <<phase, config, enabled, live, cycles>>

\* init_all() returns: lookups may start.
EndBuild ==
  /\ phase = "build"
  /\ cursor = Len(config) + 1
  /\ phase' = "ready"
  /\ UNCHANGED <<cursor, config, enabled, live, priorities, cycles>>

\* decoder_plugin_deinit_all(): Finish() on every enabled plugin, walking
\* GetEnabledDecoderPlugins() in registry order; the flags and the table are
\* left as they are.
DeinitAll ==
  /\ phase = "ready"
  /\ phase' = "uninit"
  /\ live' = [p \in Plugins |-> live[p] /\ ~enabled[p]]
  /\ UNCHANGED <<cursor, config, enabled, priorities, cycles>>

Next ==
  \/ \E cfg \in Configs : StartInitAll(cfg)
  \/ InitSkipDisabled
  \/ InitSucceeded
  \/ InitDeclined
  \/ InitFailed
  \/ BeginBuild
  \/ BuildSkipBlock
  \/ BuildAddBlock
  \/ EndBuild
  \/ DeinitAll

Spec == Init /\ [][Next]_vars

-----------------------------------------------------------------------------
(* Properties.                                                             *)

\* Every variable holds a value of its type.
TypeOK ==
  /\ phase \in Phases
  /\ cursor \in Nat
  /\ config \in Seq(Blocks)
  /\ enabled \in [Plugins -> BOOLEAN]
  /\ live \in [Plugins -> BOOLEAN]
  /\ priorities \in [DOMAIN priorities -> Seq(Plugins)]
  /\ cycles \in 0..MaxCycles

\* The priority table names only enabled plugins, in every state: the table
\* is built after the Init() loop and BuildDecoderCodecPriorities() resolves
\* names among enabled plugins, so an override for a plugin that was disabled
\* in the configuration, declined or was unavailable is dropped (spec 3, 4.4).
TableOnlyEnabled ==
  \A k \in DOMAIN priorities : \A p \in Range(priorities[k]) : enabled[p]

\* The blocks among the first n of configuration cfg that give plugin p codec k.
GivesCodec(cfg, n, k, p) ==
  {i \in 1..n : cfg[i].plugin = p /\ k \in ToSet(ParseCodecList(cfg[i].codecs))}

\* The list l of codec k holds every plugin enabled in flags that one of the
\* first n blocks of cfg gives k exactly once, ordered by the first block
\* giving it.
ListFollows(l, flags, cfg, n, k) ==
  /\ IsInjective(l)
  /\ Range(l) = {p \in Plugins : flags[p] /\ GivesCodec(cfg, n, k, p) # {}}
  /\ \A a, b \in 1..Len(l) : a < b =>
        \E x \in GivesCodec(cfg, n, k, l[a]) : \A y \in GivesCodec(cfg, n, k, l[b]) : x < y

(* While BuildDecoderCodecPriorities() runs and after it, the table is      *)
(* what the blocks read so far say: every codec of a block that names an   *)
(* enabled plugin has an entry, and each entry lists every enabled plugin  *)
(* a block gives that codec exactly once, ordered by the first such block. *)
(* Once init_all() returns, the blocks read are all of them.               *)
TableFollowsConfig ==
  /\ phase = "build" => cursor \in 1..(Len(config) + 1)
  /\ phase = "ready" => cursor = Len(config) + 1
  /\ phase \in {"build", "ready"} =>
       /\ \A i \in 1..(cursor - 1) :
             config[i].plugin \in Plugins /\ enabled[config[i].plugin] =>
               ToSet(ParseCodecList(config[i].codecs)) \subseteq DOMAIN priorities
       /\ \A k \in DOMAIN priorities :
             ListFollows(priorities[k], enabled, config, cursor - 1, k)

\* The enabled plugins that some block of the configuration puts first for a
\* suffix, and the first such block, computed from the configuration alone.
OverrideBlocks(suffix, p) == GivesCodec(config, Len(config), LowerKey(suffix), p)
Overridden(suffix) ==
  IF suffix = <<>> THEN {}
  ELSE {p \in Plugins : enabled[p] /\ OverrideBlocks(suffix, p) # {}}

\* Once init_all() has returned, decoder_plugins_for_suffix(s) lists every
\* enabled plugin exactly once: first the plugins the current configuration
\* overrides for s (case-insensitively), in the order of the first block that
\* names each, then the others in static registry order (spec 3 and 8).
ResolutionContract ==
  phase = "ready" =>
    \A suffix \in Queries :
       LET res == ForSuffix(suffix)
           O   == Overridden(suffix)
           first(p) == Min(OverrideBlocks(suffix, p))
           pos(p) == CHOOSE i \in 1..Len(Registry) : Registry[i] = p
       IN  /\ IsInjective(res)
           /\ Range(res) = {p \in Plugins : enabled[p]}
           /\ \A i, j \in 1..Len(res) : i < j =>
                 \/ res[i] \in O /\ res[j] \notin O
                 \/ res[i] \in O /\ res[j] \in O /\ first(res[i]) < first(res[j])
                 \/ res[i] \notin O /\ res[j] \notin O /\ pos(res[i]) < pos(res[j])

\* Once init_all() has returned, every plugin flagged enabled has had its
\* Init() return true and has not been finished since, so lookups never hand
\* out a plugin that declined, was disabled in this configuration, or was
\* finished by decoder_plugin_deinit_all() (spec 3: the flag is set during
\* init and mutated again only at deinit; 4.1: Finish() only after Init()).
EnabledPluginsInitialized ==
  phase = "ready" => \A p \in Plugins : enabled[p] => live[p]

\* The position of a plugin in the static registry.
RegistryPos(p) == CHOOSE i \in 1..Len(Registry) : Registry[i] = p

=============================================================================
