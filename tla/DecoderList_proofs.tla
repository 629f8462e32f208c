-------------------------- MODULE DecoderList_proofs --------------------------
(***************************************************************************)
(* Proofs about the decoder plugin registry of DecoderList: type           *)
(* correctness, and that the codec priority table names only enabled      *)
(* plugins, for every registry, configuration and number of cycles.        *)
(***************************************************************************)
EXTENDS DecoderList, TLAPS

USE RegistryAssumption

-----------------------------------------------------------------------------
(* A plugin list extended by one more enabled plugin, or by nothing, still *)
(* names only enabled plugins of the registry.                             *)
LEMMA AddOverrideTyped ==
  ASSUME NEW table, NEW p \in Plugins, NEW codecs,
         table \in [DOMAIN table -> Seq(Plugins)]
  PROVE  AddOverride(table, p, codecs)
           \in [DOMAIN AddOverride(table, p, codecs) -> Seq(Plugins)]
  BY DEF AddOverride

\* An element of a sequence extended by x is x or an element of the sequence.
LEMMA AppendRange ==
  ASSUME NEW S, NEW s \in Seq(S), NEW x, NEW q \in Range(Append(s, x))
  PROVE  q \in Range(s) \/ q = x
  <1>1. PICK i \in DOMAIN Append(s, x) : q = Append(s, x)[i]
    BY DEF Range
  <1>2. i \in 1..Len(s) + 1
    OBVIOUS
  <1>3. CASE i \in 1..Len(s)
    <2>1. q = s[i]
      BY <1>1, <1>3
    <2>2. i \in DOMAIN s
      BY <1>3
    <2>3. QED
      BY <2>1, <2>2 DEF Range
  <1>4. CASE i = Len(s) + 1
    BY <1>1, <1>4
  <1>5. QED
    BY <1>2, <1>3, <1>4

LEMMA AddOverrideEnabled ==
  ASSUME NEW table, NEW p \in Plugins, NEW codecs, NEW flags,
         table \in [DOMAIN table -> Seq(Plugins)],
         \A k \in DOMAIN table : \A q \in Range(table[k]) : flags[q],
         flags[p]
  PROVE  \A k \in DOMAIN AddOverride(table, p, codecs) :
            \A q \in Range(AddOverride(table, p, codecs)[k]) : flags[q]
  <1> SUFFICES ASSUME NEW k \in DOMAIN AddOverride(table, p, codecs),
                      NEW q \in Range(AddOverride(table, p, codecs)[k])
               PROVE  flags[q]
    OBVIOUS
  <1> DEFINE old == IF k \in DOMAIN table THEN table[k] ELSE <<>>
  <1>1. old \in Seq(Plugins)
    OBVIOUS
  <1>2. \A r \in Range(old) : flags[r]
    BY DEF Range
  <1>3. AddOverride(table, p, codecs)[k] \in {old, Append(old, p)}
    BY DEF AddOverride
  <1>4. CASE AddOverride(table, p, codecs)[k] = old
    BY <1>2, <1>4
  <1>5. CASE AddOverride(table, p, codecs)[k] = Append(old, p)
    <2>1. q \in Range(old) \/ q = p
      BY <1>1, <1>5, AppendRange
    <2>2. QED
      BY <1>2, <2>1
  <1>6. QED
    BY <1>3, <1>4, <1>5

-----------------------------------------------------------------------------
\* Type correctness: every reachable state satisfies TypeOK.
THEOREM TypeCorrect == Spec => []TypeOK
  <1>1. Init => TypeOK
    BY DEF Init, TypeOK, EmptyTable, Phases
  <1>2. TypeOK /\ [Next]_vars => TypeOK'
    <2> SUFFICES ASSUME TypeOK, [Next]_vars PROVE TypeOK'
      OBVIOUS
    <2>1. ASSUME NEW cfg \in Configs, StartInitAll(cfg) PROVE TypeOK'
      BY <2>1 DEF StartInitAll, TypeOK, Phases
    <2>2. CASE InitSkipDisabled
      BY <2>2 DEF InitSkipDisabled, TypeOK, Phases
    <2>3. CASE InitSucceeded
      <3>1. enabled' \in [Plugins -> BOOLEAN] /\ live' \in [Plugins -> BOOLEAN]
        BY <2>3 DEF InitSucceeded, TypeOK
      <3>2. QED
        BY <2>3, <3>1 DEF InitSucceeded, TypeOK, Phases
    <2>4. CASE InitDeclined
      BY <2>4 DEF InitDeclined, TypeOK, Phases
    <2>5. CASE InitFailed
      BY <2>5 DEF InitFailed, TypeOK, Phases
    <2>6. CASE BeginBuild
      BY <2>6 DEF BeginBuild, TypeOK, Phases, EmptyTable
    <2>7. CASE BuildSkipBlock
      BY <2>7 DEF BuildSkipBlock, TypeOK, Phases
    <2>8. CASE BuildAddBlock
      <3>1. PICK p \in FindByName(config[cursor].plugin) :
              priorities' = AddOverride(priorities, p, ParseCodecList(config[cursor].codecs))
        BY <2>8 DEF BuildAddBlock
      <3>2. p \in Plugins
        BY DEF FindByName
      <3>3. priorities' \in [DOMAIN priorities' -> Seq(Plugins)]
        BY <3>1, <3>2, AddOverrideTyped DEF TypeOK
      <3>4. QED
        BY <2>8, <3>3 DEF BuildAddBlock, TypeOK, Phases
    <2>9. CASE EndBuild
      BY <2>9 DEF EndBuild, TypeOK, Phases
    <2>10. CASE DeinitAll
      BY <2>10 DEF DeinitAll, TypeOK, Phases
    <2>11. CASE UNCHANGED vars
      BY <2>11 DEF vars, TypeOK
    <2>12. QED
      BY <2>1, <2>2, <2>3, <2>4, <2>5, <2>6, <2>7, <2>8, <2>9, <2>10, <2>11
      DEF Next
  <1>3. QED
    BY <1>1, <1>2, PTL DEF Spec

-----------------------------------------------------------------------------
\* The priority table names only enabled plugins in every reachable state,
\* whatever the registry, the configurations and the Init() outcomes.  It is
\* inductive together with TypeOK: flags only ever go from false to true,
\* the table is cleared before each build, and a build step adds only a
\* plugin that decoder_plugin_from_name() resolved among enabled plugins.
THEOREM TableNamesOnlyEnabledPlugins == Spec => []TableOnlyEnabled
  <1> DEFINE IInv == TypeOK /\ TableOnlyEnabled
  <1>1. Init => IInv
    BY DEF Init, TypeOK, TableOnlyEnabled, EmptyTable, Phases
  <1>2. IInv /\ [Next]_vars => TableOnlyEnabled'
    <2> SUFFICES ASSUME TypeOK, TableOnlyEnabled, [Next]_vars
                 PROVE  TableOnlyEnabled'
      OBVIOUS
    <2>1. ASSUME NEW cfg \in Configs, StartInitAll(cfg) PROVE TableOnlyEnabled'
      BY <2>1 DEF StartInitAll, TableOnlyEnabled
    <2>2. CASE InitSkipDisabled
      BY <2>2 DEF InitSkipDisabled, TableOnlyEnabled
    <2>3. CASE InitSucceeded
      <3>1. \A q \in Plugins : enabled[q] => enabled'[q]
        BY <2>3 DEF InitSucceeded, TypeOK
      <3>2. \A k \in DOMAIN priorities : Range(priorities[k]) \subseteq Plugins
        BY DEF TypeOK, Range
      <3>3. QED
        BY <2>3, <3>1, <3>2 DEF InitSucceeded, TableOnlyEnabled
    <2>4. CASE InitDeclined
      BY <2>4 DEF InitDeclined, TableOnlyEnabled
    <2>5. CASE InitFailed
      BY <2>5 DEF InitFailed, TableOnlyEnabled
    <2>6. CASE BeginBuild
      BY <2>6 DEF BeginBuild, TableOnlyEnabled, EmptyTable
    <2>7. CASE BuildSkipBlock
      BY <2>7 DEF BuildSkipBlock, TableOnlyEnabled
    <2>8. CASE BuildAddBlock
      <3>1. PICK p \in FindByName(config[cursor].plugin) :
              priorities' = AddOverride(priorities, p, ParseCodecList(config[cursor].codecs))
        BY <2>8 DEF BuildAddBlock
      <3>2. p \in Plugins /\ enabled[p]
        BY DEF FindByName
      <3>3. \A k \in DOMAIN priorities' : \A q \in Range(priorities'[k]) : enabled[q]
        BY <3>1, <3>2, AddOverrideEnabled DEF TypeOK, TableOnlyEnabled
      <3>4. QED
        BY <2>8, <3>3 DEF BuildAddBlock, TableOnlyEnabled
    <2>9. CASE EndBuild
      BY <2>9 DEF EndBuild, TableOnlyEnabled
    <2>10. CASE DeinitAll
      BY <2>10 DEF DeinitAll, TableOnlyEnabled
    <2>11. CASE UNCHANGED vars
      BY <2>11 DEF vars, TableOnlyEnabled
    <2>12. QED
      BY <2>1, <2>2, <2>3, <2>4, <2>5, <2>6, <2>7, <2>8, <2>9, <2>10, <2>11
      DEF Next
  <1>3. QED
    BY <1>1, <1>2, TypeCorrect, PTL DEF Spec

-----------------------------------------------------------------------------
(* The table build, one codec's list at a time.  G[q] is the set of blocks *)
(* read so far that give plugin q the codec; a list follows G when it      *)
(* holds each enabled plugin with a block once, ordered by first block.    *)
\* The plugins of En that some block read gives the codec.
Listed(En, G) == {q \in En : G[q] # {}}

OrderedBy(l, G) ==
  \A a, b \in 1..Len(l) : a < b => \E x \in G[l[a]] : \A y \in G[l[b]] : x < y

(* Reading block c, which names the enabled plugin p and gives it the      *)
(* codec, adds c to G[p]; the std::find / push_back of                     *)
(* BuildDecoderCodecPriorities() keeps the list following G.               *)
\* Every block in H comes before block m.
BlocksBefore(H, m) == \A q \in Plugins : H[q] \subseteq 1..(m - 1)

\* H2 is H with block m added for plugin pl.
AddsBlock(H, H2, pl, m) ==
  \A q \in Plugins : H2[q] = IF q = pl THEN H[q] \cup {m} ELSE H[q]

\* nw is old after the std::find / push_back of plugin pl.
PushedOnce(old, pl, nw) == nw = IF Contains(old, pl) THEN old ELSE Append(old, pl)

LEMMA ListStep ==
  ASSUME NEW Ps \in SUBSET Plugins, NEW pl \in Ps, NEW m \in Nat \ {0},
         NEW H, NEW H2, BlocksBefore(H, m), AddsBlock(H, H2, pl, m),
         NEW old \in Seq(Plugins), IsInjective(old),
         Range(old) = Listed(Ps, H),
         OrderedBy(old, H),
         NEW nw, PushedOnce(old, pl, nw)
  PROVE  /\ IsInjective(nw)
         /\ Range(nw) = Listed(Ps, H2)
         /\ OrderedBy(nw, H2)
  <1>1. \A q \in Plugins : H[q] \subseteq H2[q] /\ H2[q] \subseteq H[q] \cup {m}
    BY DEF AddsBlock
  <1>2. CASE Contains(old, pl)
    <2>0. DOMAIN old = 1..Len(old)
      OBVIOUS
    <2>1. pl \in Range(old)
      BY <1>2, <2>0 DEF Contains, Range
    <2>2. Range(old) = Listed(Ps, H2)
      BY <2>1 DEF Listed, AddsBlock
    <2>3. OrderedBy(old, H2)
      <3> SUFFICES ASSUME NEW a \in 1..Len(old), NEW b \in 1..Len(old), a < b
                   PROVE  \E x \in H2[old[a]] : \A y \in H2[old[b]] : x < y
        BY DEF OrderedBy
      <3>1. PICK x \in H[old[a]] : \A y \in H[old[b]] : x < y
        BY DEF OrderedBy
      <3>2. x \in 1..(m - 1) /\ old[a] \in Plugins /\ old[b] \in Plugins
        BY DEF BlocksBefore
      <3>3. x \in H2[old[a]]
        BY <1>1, <3>1, <3>2
      <3>4. \A y \in H2[old[b]] : x < y
        <4> SUFFICES ASSUME NEW y \in H2[old[b]] PROVE x < y
          OBVIOUS
        <4>1. y \in H[old[b]] \/ y = m
          BY <1>1, <3>2
        <4>2. QED
          BY <4>1, <3>1, <3>2
      <3>5. QED
        BY <3>3, <3>4
    <2>4. QED
      BY <1>2, <2>2, <2>3, Zenon DEF PushedOnce
  <1>3. CASE ~Contains(old, pl)
    <2> DEFINE ext == Append(old, pl)
    <2>0. DOMAIN old = 1..Len(old)
      OBVIOUS
    <2>1. pl \notin Range(old)
      BY <1>3, <2>0 DEF Contains, Range
    <2>2. H[pl] = {}
      BY <2>1 DEF Listed
    <2>3. /\ Len(ext) = Len(old) + 1
          /\ \A i \in 1..Len(old) : ext[i] = old[i]
          /\ ext[Len(old) + 1] = pl
          /\ ext \in Seq(Plugins)
          /\ DOMAIN ext = 1..(Len(old) + 1)
          /\ DOMAIN old = 1..Len(old)
      OBVIOUS
    <2>4. IsInjective(ext)
      BY <2>1, <2>3 DEF IsInjective, Range
    <2>5. Range(ext) = Range(old) \cup {pl}
      <3>1. Range(ext) \subseteq Range(old) \cup {pl}
        BY AppendRange DEF ext
      <3>2. Range(old) \cup {pl} \subseteq Range(ext)
        BY <2>3 DEF Range
      <3>3. QED
        BY <3>1, <3>2
    <2>6. Range(ext) = Listed(Ps, H2)
      BY <2>5 DEF Listed, AddsBlock
    <2>7. OrderedBy(ext, H2)
      <3> SUFFICES ASSUME NEW a \in 1..Len(ext), NEW b \in 1..Len(ext), a < b
                   PROVE  \E x \in H2[ext[a]] : \A y \in H2[ext[b]] : x < y
        BY DEF OrderedBy
      <3>1. a \in 1..Len(old) /\ ext[a] = old[a] /\ old[a] \in Range(old)
        BY <2>3 DEF Range, Listed
      <3>2. old[a] \in Plugins /\ H[old[a]] # {}
        BY <3>1 DEF Listed
      <3>3. CASE b \in 1..Len(old)
        <4>1. ext[b] = old[b] /\ old[b] # pl /\ old[b] \in Plugins
          BY <2>1, <2>3, <3>3 DEF Range
        <4>2. PICK x \in H[old[a]] : \A y \in H[old[b]] : x < y
          BY <3>1, <3>3 DEF OrderedBy
        <4>3. H2[old[b]] = H[old[b]]
          BY <4>1 DEF AddsBlock
        <4>4. x \in H2[old[a]]
          BY <1>1, <3>2
        <4>5. QED
          BY <3>1, <4>1, <4>2, <4>3, <4>4
      <3>4. CASE b = Len(old) + 1
        <4>1. ext[b] = pl /\ H2[pl] = {m}
          BY <2>2, <2>3, <3>4 DEF AddsBlock
        <4>2. PICK x \in H[old[a]] : TRUE
          BY <3>2
        <4>3. x \in H2[old[a]] /\ x < m
          BY <1>1, <3>2, <4>2 DEF BlocksBefore
        <4>4. QED
          BY <3>1, <4>1, <4>3
      <3>5. b \in 1..Len(old) \/ b = Len(old) + 1
        <4>1. Len(ext) = Len(old) + 1
          BY DEF ext
        <4>2. b \in 1..(Len(old) + 1)
          BY <4>1
        <4>3. QED
          BY ONLY <4>2, Len(old) \in Nat
      <3>6. QED
        BY <3>3, <3>4, <3>5
    <2>8. QED
      BY <1>3, <2>4, <2>6, <2>7 DEF ext, PushedOnce
  <1>4. QED
    BY <1>2, <1>3


\* Reading block m adds nothing to the blocks giving plugin q codec k
\* unless block m names q and lists k; then it adds m.
LEMMA GivesCodecSame ==
  ASSUME NEW cfg, NEW m \in Nat \ {0}, NEW k, NEW q,
         ~(cfg[m].plugin = q /\ k \in ToSet(ParseCodecList(cfg[m].codecs)))
  PROVE  GivesCodec(cfg, m, k, q) = GivesCodec(cfg, m - 1, k, q)
  BY DEF GivesCodec

LEMMA GivesCodecAdd ==
  ASSUME NEW cfg, NEW m \in Nat \ {0}, NEW k, NEW q,
         cfg[m].plugin = q, k \in ToSet(ParseCodecList(cfg[m].codecs))
  PROVE  GivesCodec(cfg, m, k, q) = GivesCodec(cfg, m - 1, k, q) \cup {m}
  BY DEF GivesCodec

\* The blocks among the first n of cfg giving each plugin codec k, and the
\* plugins enabled in flags.
GivenBy(cfg, n, k) == [q \in Plugins |-> GivesCodec(cfg, n, k, q)]
EnabledSet(flags) == {q \in Plugins : flags[q]}

LEMMA GivenByType ==
  ASSUME NEW cfg, NEW n \in Nat, NEW k
  PROVE  GivenBy(cfg, n, k) \in [Plugins -> SUBSET (1..n)]
  BY DEF GivenBy, GivesCodec

\* ListFollows is OrderedBy over the blocks read so far.
LEMMA FollowsIsOrdered ==
  ASSUME NEW l \in Seq(Plugins), NEW flags, NEW cfg, NEW n \in Nat, NEW k
  PROVE  ListFollows(l, flags, cfg, n, k) <=>
           /\ IsInjective(l)
           /\ Range(l) = Listed(EnabledSet(flags), GivenBy(cfg, n, k))
           /\ OrderedBy(l, GivenBy(cfg, n, k))
  <1>1. \A a \in 1..Len(l) : l[a] \in Plugins
    OBVIOUS
  <1>2. Listed(EnabledSet(flags), GivenBy(cfg, n, k))
          = {p \in Plugins : flags[p] /\ GivesCodec(cfg, n, k, p) # {}}
    BY Zenon DEF EnabledSet, GivenBy, Listed
  <1>3. OrderedBy(l, GivenBy(cfg, n, k)) <=>
          \A a, b \in 1..Len(l) : a < b =>
            \E x \in GivesCodec(cfg, n, k, l[a]) : \A y \in GivesCodec(cfg, n, k, l[b]) : x < y
    BY <1>1, Zenon DEF OrderedBy, GivenBy
  <1>4. QED
    BY <1>2, <1>3, Zenon DEF ListFollows

\* A block that adds nothing for the enabled plugins keeps a list following.
LEMMA ListKeep ==
  ASSUME NEW En \in SUBSET Plugins, NEW G, NEW G2,
         \A q \in En : G2[q] = G[q],
         NEW l \in Seq(Plugins),
         Range(l) = Listed(En, G),
         OrderedBy(l, G)
  PROVE  /\ Range(l) = Listed(En, G2)
         /\ OrderedBy(l, G2)
  <1>1. \A a \in 1..Len(l) : l[a] \in En
    BY DEF Range, Listed
  <1>2. QED
    BY <1>1 DEF OrderedBy, Listed


-----------------------------------------------------------------------------
(* While BuildDecoderCodecPriorities() runs and once it has returned, the  *)
(* table is what the blocks read so far say: each codec of a block naming  *)
(* an enabled plugin has a list, and each list holds each enabled plugin   *)
(* given that codec once, ordered by the first block giving it.  Together  *)
(* with TypeOK it is inductive: the build starts from a cleared table,     *)
(* std::find keeps a plugin already listed in place, and a plugin appended *)
(* by push_back has had no earlier block for the codec, so it goes last.   *)
THEOREM TableBuildFollowsConfig == Spec => []TableFollowsConfig
  <1>1. Init => TableFollowsConfig
    BY DEF Init, TableFollowsConfig
  <1>2. TypeOK /\ TableFollowsConfig /\ [Next]_vars => TableFollowsConfig'
    <2> SUFFICES ASSUME TypeOK, TableFollowsConfig, [Next]_vars
                 PROVE  TableFollowsConfig'
      OBVIOUS
    <2> DEFINE En == EnabledSet(enabled)
    <2> USE DEF En
    <2>0. En \subseteq Plugins
      BY DEF EnabledSet
    <2>1. ASSUME NEW cfg \in Configs, StartInitAll(cfg) PROVE TableFollowsConfig'
      BY <2>1 DEF StartInitAll, TableFollowsConfig
    <2>2. CASE InitSkipDisabled
      BY <2>2 DEF InitSkipDisabled, TableFollowsConfig
    <2>3. CASE InitSucceeded
      BY <2>3 DEF InitSucceeded, TableFollowsConfig
    <2>4. CASE InitDeclined
      BY <2>4 DEF InitDeclined, TableFollowsConfig
    <2>5. CASE InitFailed
      BY <2>5 DEF InitFailed, TableFollowsConfig
    <2>6. CASE BeginBuild
      <3>1. phase' = "build" /\ cursor' = 1 /\ priorities' = EmptyTable
        BY <2>6 DEF BeginBuild
      <3>2. Len(config') \in Nat
        BY <2>6 DEF BeginBuild, TypeOK
      <3>3. QED
        BY <3>1, <3>2 DEF TableFollowsConfig, EmptyTable
    <2>7. CASE BuildSkipBlock
      <3> DEFINE c == cursor
      <3> USE DEF c
      <3>1. /\ phase = "build" /\ c \in 1..Len(config)
            /\ FindByName(config[c].plugin) = {}
            /\ phase' = phase /\ cursor' = c + 1 /\ config' = config
            /\ enabled' = enabled /\ priorities' = priorities
        BY <2>7 DEF BuildSkipBlock, TableFollowsConfig, TypeOK
      <3>2. c - 1 \in Nat /\ (c - 1) + 1 = c /\ c \in Nat \ {0}
        BY <3>1
      <3>3. ~(config[c].plugin \in Plugins /\ enabled[config[c].plugin])
        BY <3>1 DEF FindByName
      <3>4. \A i \in 1..c : config[i].plugin \in Plugins /\ enabled[config[i].plugin] =>
              ToSet(ParseCodecList(config[i].codecs)) \subseteq DOMAIN priorities
        <4>1. \A i \in 1..(c - 1) : config[i].plugin \in Plugins /\ enabled[config[i].plugin] =>
                ToSet(ParseCodecList(config[i].codecs)) \subseteq DOMAIN priorities
          BY <3>1 DEF TableFollowsConfig
        <4>2. \A i \in 1..c : i \in 1..(c - 1) \/ i = c
          BY <3>1
        <4>3. QED
          BY <3>3, <4>1, <4>2
      <3>5. ASSUME NEW k \in DOMAIN priorities
            PROVE  ListFollows(priorities[k], enabled, config, c, k)
        <4> DEFINE G == GivenBy(config, c - 1, k)
                   G2 == GivenBy(config, c, k)
                   l == priorities[k]
        <4> USE DEF G, G2, l
        <4>1. l \in Seq(Plugins)
          BY DEF TypeOK
        <4>2. ListFollows(l, enabled, config, c - 1, k)
          BY <3>1 DEF TableFollowsConfig
        <4>9. ListFollows(l, enabled, config, c - 1, k) <=>
                /\ IsInjective(l)
                /\ Range(l) = Listed(EnabledSet(enabled), GivenBy(config, c - 1, k))
                /\ OrderedBy(l, GivenBy(config, c - 1, k))
          BY <4>1, <3>2, FollowsIsOrdered
        <4>3. IsInjective(l) /\ Range(l) = Listed(En, G) /\ OrderedBy(l, G)
          BY <4>2, <4>9, Zenon
        <4>5. \A q \in En : G2[q] = G[q]
          <5> SUFFICES ASSUME NEW q \in En
                       PROVE  GivesCodec(config, c, k, q) = GivesCodec(config, c - 1, k, q)
            BY DEF GivenBy, EnabledSet
          <5>1. config[c].plugin # q
            BY <3>3 DEF EnabledSet
          <5>2. QED
            BY <3>2, <5>1, GivesCodecSame
        <4>6. Range(l) = Listed(En, G2) /\ OrderedBy(l, G2)
          BY <2>0, <4>1, <4>3, <4>5, ListKeep
        <4>10. ListFollows(l, enabled, config, c, k) <=>
                 /\ IsInjective(l)
                 /\ Range(l) = Listed(EnabledSet(enabled), GivenBy(config, c, k))
                 /\ OrderedBy(l, GivenBy(config, c, k))
          BY <4>1, <3>2, FollowsIsOrdered
        <4>7. QED
          BY <4>3, <4>6, <4>10, Zenon
      <3>6. QED
        BY <3>1, <3>4, <3>5 DEF TableFollowsConfig
    <2>8. CASE BuildAddBlock
      <3> DEFINE c == cursor
                 C == ParseCodecList(config[c].codecs)
      <3> USE DEF c, C
      <3>1. PICK p \in FindByName(config[c].plugin) :
              priorities' = AddOverride(priorities, p, C)
        BY <2>8 DEF BuildAddBlock
      <3>2. /\ phase = "build" /\ c \in 1..Len(config)
            /\ phase' = phase /\ cursor' = c + 1 /\ config' = config
            /\ enabled' = enabled
        BY <2>8 DEF BuildAddBlock, TableFollowsConfig, TypeOK
      <3>3. p \in En /\ config[c].plugin = p
        BY <3>1 DEF FindByName, EnabledSet
      <3>4. c - 1 \in Nat /\ (c - 1) + 1 = c /\ c \in Nat \ {0}
        BY <3>2
      <3>5. DOMAIN priorities' = DOMAIN priorities \cup ToSet(C)
        BY <3>1 DEF AddOverride
      <3>6. \A i \in 1..c : config[i].plugin \in Plugins /\ enabled[config[i].plugin] =>
              ToSet(ParseCodecList(config[i].codecs)) \subseteq DOMAIN priorities'
        <4>1. \A i \in 1..(c - 1) : config[i].plugin \in Plugins /\ enabled[config[i].plugin] =>
                ToSet(ParseCodecList(config[i].codecs)) \subseteq DOMAIN priorities
          BY <3>2 DEF TableFollowsConfig
        <4>2. \A i \in 1..c : i \in 1..(c - 1) \/ i = c
          BY <3>2
        <4>3. QED
          BY <3>5, <4>1, <4>2
      <3>7. ASSUME NEW k \in DOMAIN priorities'
            PROVE  ListFollows(priorities'[k], enabled, config, c, k)
        <4> DEFINE G == GivenBy(config, c - 1, k)
                   G2 == GivenBy(config, c, k)
        <4> USE DEF G, G2
        <4>1. GivenBy(config, c - 1, k) \in [Plugins -> SUBSET (1..(c - 1))]
          BY <3>4, GivenByType
        <4>5. GivenBy(config, c, k) \in [Plugins -> SUBSET (1..c)]
          BY <3>4, GivenByType
        <4>2. CASE k \notin ToSet(C)
          <5> DEFINE l == priorities[k]
          <5> USE DEF l
          <5>1. k \in DOMAIN priorities /\ priorities'[k] = l
            BY <3>1, <3>5, <4>2 DEF AddOverride
          <5>2. l \in Seq(Plugins)
            BY <5>1 DEF TypeOK
          <5>3. \A q \in Plugins : G2[q] = G[q]
            <6> SUFFICES ASSUME NEW q \in Plugins
                         PROVE  GivesCodec(config, c, k, q) = GivesCodec(config, c - 1, k, q)
              BY DEF GivenBy
            <6>1. QED
              BY <3>4, <4>2, GivesCodecSame
          <5>4. ListFollows(l, enabled, config, c - 1, k)
            BY <3>2, <5>1 DEF TableFollowsConfig
          <5>8. ListFollows(l, enabled, config, c - 1, k) <=>
                  /\ IsInjective(l)
                  /\ Range(l) = Listed(EnabledSet(enabled), GivenBy(config, c - 1, k))
                  /\ OrderedBy(l, GivenBy(config, c - 1, k))
            BY <3>4, <5>2, FollowsIsOrdered
          <5>9. ListFollows(l, enabled, config, c, k) <=>
                  /\ IsInjective(l)
                  /\ Range(l) = Listed(EnabledSet(enabled), GivenBy(config, c, k))
                  /\ OrderedBy(l, GivenBy(config, c, k))
            BY <3>4, <5>2, FollowsIsOrdered
          <5>5. IsInjective(l) /\ Range(l) = Listed(En, G) /\ OrderedBy(l, G)
            BY <5>4, <5>8, Zenon
          <5>10. \A q \in En : G2[q] = G[q]
            BY <2>0, <5>3
          <5>6. Range(l) = Listed(En, G2) /\ OrderedBy(l, G2)
            BY <2>0, <5>2, <5>10, <5>5, ListKeep
          <5>7. QED
            BY <5>1, <5>5, <5>6, <5>9, Zenon
        <4>3. CASE k \in ToSet(C)
          <5>a. PICK cur : cur = IF k \in DOMAIN priorities THEN priorities[k] ELSE <<>>
            OBVIOUS
          <5>0. PICK ext : ext = IF Contains(cur, p) THEN cur ELSE Append(cur, p)
            OBVIOUS
          <5>1. cur \in Seq(Plugins)
            BY <5>a DEF TypeOK
          <5>2. priorities'[k] = ext
            BY <3>1, <4>3, <5>a, <5>0 DEF AddOverride
          <5>3. \A q \in Plugins : G2[q] = IF q = p THEN G[q] \cup {c} ELSE G[q]
            <6> SUFFICES ASSUME NEW q \in Plugins
                         PROVE  GivesCodec(config, c, k, q) =
                                  IF q = p THEN GivesCodec(config, c - 1, k, q) \cup {c}
                                  ELSE GivesCodec(config, c - 1, k, q)
              BY DEF GivenBy
            <6>1. CASE q = p
              <7>0. k \in ToSet(ParseCodecList(config[cursor].codecs))
                BY <4>3
              <7>1. GivesCodec(config, c, k, p) = GivesCodec(config, c - 1, k, p) \cup {c}
                BY <3>3, <3>4, <7>0 DEF GivesCodec
              <7>2. QED
                BY <6>1, <7>1
            <6>2. CASE q # p
              BY <3>3, <3>4, <6>2, GivesCodecSame
            <6>3. QED
              BY <6>1, <6>2
          <5>4. /\ IsInjective(cur)
                /\ Range(cur) = Listed(En, G)
                /\ OrderedBy(cur, G)
            <6>1. CASE k \in DOMAIN priorities
              <7>1. ListFollows(priorities[k], enabled, config, c - 1, k)
                BY <3>2, <6>1 DEF TableFollowsConfig
              <7>3. ListFollows(cur, enabled, config, c - 1, k) <=>
                      /\ IsInjective(cur)
                      /\ Range(cur) = Listed(EnabledSet(enabled), GivenBy(config, c - 1, k))
                      /\ OrderedBy(cur, GivenBy(config, c - 1, k))
                BY <3>4, <5>1, FollowsIsOrdered
              <7>2. QED
                BY <5>a, <6>1, <7>1, <7>3, Zenon
            <6>2. CASE k \notin DOMAIN priorities
              <7>1. ASSUME NEW q \in En, NEW i \in G[q] PROVE FALSE
                <8>1. /\ i \in 1..(c - 1) /\ config[i].plugin = q
                      /\ k \in ToSet(ParseCodecList(config[i].codecs))
                  BY DEF GivenBy, GivesCodec, EnabledSet
                <8>2. config[i].plugin \in Plugins /\ enabled[config[i].plugin]
                  BY <8>1 DEF EnabledSet
                <8>3. QED
                  BY <3>2, <6>2, <8>1, <8>2 DEF TableFollowsConfig
              <7>2. cur = <<>>
                BY <5>a, <6>2
              <7>3. Listed(En, G) = {}
                BY <7>1 DEF Listed
              <7>4. QED
                BY <7>2, <7>3 DEF IsInjective, Range, OrderedBy
            <6>3. QED
              BY <6>1, <6>2
          <5>5. /\ IsInjective(ext)
                /\ Range(ext) = Listed(En, G2)
                /\ OrderedBy(ext, G2)
            <6>1. /\ En \in SUBSET Plugins /\ p \in En /\ c \in Nat \ {0}
                  /\ BlocksBefore(G, c)
                  /\ AddsBlock(G, G2, p, c)
                  /\ cur \in Seq(Plugins) /\ IsInjective(cur)
                  /\ Range(cur) = Listed(En, G) /\ OrderedBy(cur, G)
                  /\ PushedOnce(cur, p, ext)
              BY <2>0, <3>3, <3>4, <4>1, <4>5, <5>0, <5>1, <5>3, <5>4
              DEF AddsBlock, BlocksBefore, PushedOnce
            <6>2. QED
              BY <6>1, ListStep
          <5>6. ext \in Seq(Plugins)
            BY <2>0, <3>3, <5>0, <5>1
          <5>8. ListFollows(ext, enabled, config, c, k) <=>
                  /\ IsInjective(ext)
                  /\ Range(ext) = Listed(EnabledSet(enabled), GivenBy(config, c, k))
                  /\ OrderedBy(ext, GivenBy(config, c, k))
            BY <3>4, <5>6, FollowsIsOrdered
          <5>7. QED
            BY <5>2, <5>5, <5>8, Zenon
        <4>4. QED
          BY <4>2, <4>3
      <3>8. QED
        BY <3>2, <3>6, <3>7 DEF TableFollowsConfig
    <2>9. CASE EndBuild
      BY <2>9 DEF EndBuild, TableFollowsConfig
    <2>10. CASE DeinitAll
      BY <2>10 DEF DeinitAll, TableFollowsConfig
    <2>11. CASE UNCHANGED vars
      BY <2>11 DEF vars, TableFollowsConfig
    <2>12. QED
      BY <2>1, <2>2, <2>3, <2>4, <2>5, <2>6, <2>7, <2>8, <2>9, <2>10, <2>11
      DEF Next
  <1>3. QED
    BY <1>1, <1>2, TypeCorrect, PTL DEF Spec

=============================================================================
