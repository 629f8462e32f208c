------------------------ MODULE DecoderLookup_proofs ------------------------
(***************************************************************************)
(* Proofs about decoder_plugins_for_suffix() of DecoderList: once          *)
(* decoder_plugin_init_all() has returned, the lookup lists every enabled *)
(* plugin once, the plugins the configuration overrides for the suffix     *)
(* first, in the order of their first block, then the others in static    *)
(* registry order.  The lookup's loop is a recursive function over the     *)
(* registry index; what it computes is shown by induction on that index,   *)
(* done as a least-counterexample argument (NatMin).                       *)
(***************************************************************************)
EXTENDS DecoderList_proofs, LeastElement

USE RegistryAssumption

-----------------------------------------------------------------------------
(* The loop of decoder_plugins_for_suffix(): step i looks at the i-th      *)
(* plugin of the registry, given the function g of the results so far.    *)
PushStep(list, flags, g, i) ==
  IF i = 0 THEN list
  ELSE IF flags[Registry[i]] /\ ~Contains(g[i - 1], Registry[i])
       THEN Append(g[i - 1], Registry[i])
       ELSE g[i - 1]

\* The function the LET of PushMissing defines.
PushFold(list, flags) ==
  CHOOSE res : res = [i \in 0..Len(Registry) |->
                        IF i = 0 THEN list
                        ELSE IF flags[Registry[i]] /\ ~Contains(res[i - 1], Registry[i])
                             THEN Append(res[i - 1], Registry[i])
                             ELSE res[i - 1]]

\* g is the loop's function on the indices 0..m.
FoldUpTo(list, flags, g, m) == g = [i \in 0..m |-> PushStep(list, flags, g, i)]

\* The lookup is the last value of the loop's function.
LEMMA PushMissingIsFold ==
  ASSUME NEW list, NEW flags
  PROVE  PushMissing(list, flags) = PushFold(list, flags)[Len(Registry)]
  BY Zenon DEF PushMissing, PushFold

\* The loop's function exists on every prefix 0..m of the registry indices.
LEMMA FoldExists ==
  ASSUME NEW list, NEW flags
  PROVE  \E g : FoldUpTo(list, flags, g, Len(Registry))
  <1> DEFINE Bad == {m \in 0..Len(Registry) : ~\E g : FoldUpTo(list, flags, g, m)}
  <1>0. Len(Registry) \in Nat
    OBVIOUS
  <1>1. SUFFICES ASSUME Bad # {} PROVE FALSE
    <2>1. Len(Registry) \in 0..Len(Registry)
      BY <1>0
    <2>2. QED
      BY <2>1
  <1>2. PICK m \in Bad : \A y \in Bad : m <= y
    <2>1. Bad \in SUBSET Nat
      BY <1>0
    <2>2. QED
      BY <1>1, <2>1, NatMin
  <1>3. m \in 0..Len(Registry) /\ ~\E g : FoldUpTo(list, flags, g, m)
    BY <1>2
  <1>4. CASE m = 0
    <2>1. FoldUpTo(list, flags, [i \in 0..0 |-> list], 0)
      BY DEF FoldUpTo, PushStep
    <2>2. QED
      BY <1>3, <1>4, <2>1
  <1>5. CASE m # 0
    <2>1. m - 1 \in 0..Len(Registry)
      BY <1>0, <1>3, <1>5
    <2>2. m - 1 \notin Bad
      <3>1. SUFFICES ASSUME m - 1 \in Bad PROVE FALSE
        OBVIOUS
      <3>2. m <= m - 1
        BY <3>1, <1>2
      <3>3. QED
        BY <3>2, <1>3
    <2>3. PICK g0 : FoldUpTo(list, flags, g0, m - 1)
      BY <2>1, <2>2
    <2>4. PICK g : g = [i \in 0..m |-> IF i < m THEN g0[i]
                                        ELSE PushStep(list, flags, g0, m)]
      OBVIOUS
    <2>5. \A i \in 0..m : PushStep(list, flags, g, i) = PushStep(list, flags, g0, i)
      BY <1>3, <2>4 DEF PushStep
    <2>6. \A i \in 0..m : g[i] = PushStep(list, flags, g0, i)
      <3> SUFFICES ASSUME NEW i \in 0..m PROVE g[i] = PushStep(list, flags, g0, i)
        OBVIOUS
      <3>1. CASE i < m
        <4>1. i \in 0..(m - 1) /\ g[i] = g0[i]
          BY <1>3, <2>4, <3>1
        <4>2. g0[i] = PushStep(list, flags, g0, i)
          BY <4>1, <2>3 DEF FoldUpTo
        <4>3. QED
          BY <4>1, <4>2
      <3>2. CASE i = m
        BY <1>3, <2>4, <3>2
      <3>3. QED
        BY <1>3, <3>1, <3>2
    <2>7. FoldUpTo(list, flags, g, m)
      BY <2>4, <2>5, <2>6 DEF FoldUpTo
    <2>8. QED
      BY <1>3, <2>7
  <1>6. QED
    BY <1>4, <1>5

\* So PushFold satisfies the loop's recursion on all of 0..Len(Registry).
LEMMA FoldEquation ==
  ASSUME NEW list, NEW flags
  PROVE  FoldUpTo(list, flags, PushFold(list, flags), Len(Registry))
  <1>1. PICK g : FoldUpTo(list, flags, g, Len(Registry))
    BY FoldExists
  <1>2. \E res : res = [i \in 0..Len(Registry) |->
                          IF i = 0 THEN list
                          ELSE IF flags[Registry[i]] /\ ~Contains(res[i - 1], Registry[i])
                               THEN Append(res[i - 1], Registry[i])
                               ELSE res[i - 1]]
    BY <1>1 DEF FoldUpTo, PushStep
  <1>3. QED
    BY <1>2, Zenon DEF FoldUpTo, PushStep, PushFold


-----------------------------------------------------------------------------
\* The position of a plugin in the registry is the index it is stored at.
LEMMA PosOfRegistry ==
  ASSUME NEW j \in 1..Len(Registry)
  PROVE  RegistryPos(Registry[j]) = j
  BY DEF RegistryPos, IsInjective

\* The enabled plugins among the first i of the registry.
FlaggedUpTo(flags, i) == {Registry[j] : j \in {j2 \in 1..i : flags[Registry[j2]]}}

(* What the loop has built after i plugins of the registry: the override   *)
(* list unchanged at the front, no plugin twice, the list and the enabled  *)
(* plugins seen so far and nothing else, and behind the list plugins of    *)
(* the first i in increasing registry position.                           *)
FoldInv(list, flags, r, i) ==
  /\ r \in Seq(Plugins)
  /\ Len(list) <= Len(r)
  /\ \A j \in 1..Len(list) : r[j] = list[j]
  /\ IsInjective(r)
  /\ Range(r) = Range(list) \cup FlaggedUpTo(flags, i)
  /\ \A a \in (Len(list) + 1)..Len(r) : RegistryPos(r[a]) \in 1..i
  /\ \A a, b \in (Len(list) + 1)..Len(r) : a < b => RegistryPos(r[a]) < RegistryPos(r[b])

\* One iteration: the i-th plugin is pushed when enabled and not found.
OneStep(flags, r, r2, i) ==
  r2 = IF flags[Registry[i]] /\ ~Contains(r, Registry[i])
       THEN Append(r, Registry[i]) ELSE r

\* Before the loop, the result is the override list.
LEMMA FoldBase ==
  ASSUME NEW list \in Seq(Plugins), IsInjective(list), NEW flags
  PROVE  FoldInv(list, flags, list, 0)
  <1>1. FlaggedUpTo(flags, 0) = {}
    BY DEF FlaggedUpTo
  <1>2. QED
    BY <1>1 DEF FoldInv

\* One iteration keeps the loop invariant.
LEMMA FoldStep ==
  ASSUME NEW list \in Seq(Plugins), NEW flags \in [Plugins -> BOOLEAN],
         NEW i \in 1..Len(Registry), NEW r, NEW r2,
         FoldInv(list, flags, r, i - 1), OneStep(flags, r, r2, i)
  PROVE  FoldInv(list, flags, r2, i)
  <1>1. PICK x : x = Registry[i]
    OBVIOUS
  <1>2. x \in Plugins /\ RegistryPos(x) = i
    BY <1>1, PosOfRegistry DEF Plugins, ToSet
  <1>3. r \in Seq(Plugins) /\ Len(list) <= Len(r)
    BY DEF FoldInv
  <1>4. FlaggedUpTo(flags, i) = FlaggedUpTo(flags, i - 1) \cup (IF flags[x] THEN {x} ELSE {})
    BY <1>1 DEF FlaggedUpTo
  <1>5. \A a \in (Len(list) + 1)..Len(r) : RegistryPos(r[a]) \in 1..(i - 1)
    BY DEF FoldInv
  <1>6. CASE flags[x] /\ ~Contains(r, x)
    <2>1. r2 = Append(r, x)
      BY <1>1, <1>6 DEF OneStep
    <2>2. \A j \in 1..Len(r) : r[j] # x
      BY <1>3, <1>6 DEF Contains
    <2>3. r2 \in Seq(Plugins) /\ Len(r2) = Len(r) + 1 /\ r2[Len(r) + 1] = x
          /\ \A j \in 1..Len(r) : r2[j] = r[j]
      BY <1>2, <1>3, <2>1
    <2>4. Len(list) <= Len(r2) /\ \A j \in 1..Len(list) : r2[j] = list[j]
      BY <1>3, <2>3 DEF FoldInv
    <2>4a. DOMAIN r2 = 1..(Len(r) + 1) /\ DOMAIN r = 1..Len(r)
      BY <1>3, <2>3
    <2>5. IsInjective(r2)
      <3>1. IsInjective(r)
        BY DEF FoldInv
      <3> SUFFICES ASSUME NEW a \in 1..(Len(r) + 1), NEW b \in 1..(Len(r) + 1),
                          r2[a] = r2[b], a # b
                   PROVE  FALSE
        BY <2>4a DEF IsInjective
      <3>0. Len(r) \in Nat
        BY <1>3
      <3>2. CASE a \in 1..Len(r) /\ b \in 1..Len(r)
        <4>1. r[a] = r[b]
          BY ONLY <3>2, <2>3, r2[a] = r2[b]
        <4>2. QED
          BY ONLY <4>1, <3>1, <3>2, <2>4a, a # b DEF IsInjective
      <3>3. CASE a = Len(r) + 1
        <4>1. b \in 1..Len(r)
          BY ONLY <3>0, <3>3, a # b, b \in 1..(Len(r) + 1)
        <4>2. QED
          BY ONLY <4>1, <3>3, <2>2, <2>3, r2[a] = r2[b]
      <3>4. CASE b = Len(r) + 1
        <4>1. a \in 1..Len(r)
          BY ONLY <3>0, <3>4, a # b, a \in 1..(Len(r) + 1)
        <4>2. QED
          BY ONLY <4>1, <3>4, <2>2, <2>3, r2[a] = r2[b]
      <3>5. QED
        BY ONLY <3>0, <3>2, <3>3, <3>4, a \in 1..(Len(r) + 1), b \in 1..(Len(r) + 1)
    <2>6. Range(r2) = Range(r) \cup {x}
      <3>1. Range(r2) = {r2[j] : j \in 1..(Len(r) + 1)} /\ Range(r) = {r[j] : j \in 1..Len(r)}
        BY <2>4a DEF Range
      <3>2. \A j \in 1..(Len(r) + 1) : r2[j] = IF j = Len(r) + 1 THEN x ELSE r[j]
        BY ONLY <2>3, <1>3
      <3>3. QED
        BY ONLY <3>1, <3>2, <1>3
    <2>7. Range(r2) = Range(list) \cup FlaggedUpTo(flags, i)
      BY <1>4, <1>6, <2>6 DEF FoldInv
    <2>8. \A a \in (Len(list) + 1)..Len(r2) : RegistryPos(r2[a]) \in 1..i
      BY <1>2, <1>3, <1>5, <2>3
    <2>9. \A a, b \in (Len(list) + 1)..Len(r2) :
            a < b => RegistryPos(r2[a]) < RegistryPos(r2[b])
      <3> SUFFICES ASSUME NEW a \in (Len(list) + 1)..Len(r2),
                          NEW b \in (Len(list) + 1)..Len(r2), a < b
                   PROVE  RegistryPos(r2[a]) < RegistryPos(r2[b])
        OBVIOUS
      <3>1. a \in (Len(list) + 1)..Len(r) /\ r2[a] = r[a]
        BY <1>3, <2>3
      <3>2. CASE b = Len(r) + 1
        BY <1>2, <1>5, <2>3, <3>1, <3>2
      <3>3. CASE b # Len(r) + 1
        <4>0. b \in (Len(list) + 1)..Len(r) /\ b \in 1..Len(r)
          BY <1>3, <2>3, <3>3
        <4>1. b \in (Len(list) + 1)..Len(r) /\ r2[b] = r[b]
          BY <4>0, <2>3
        <4>2. QED
          BY <3>1, <4>1 DEF FoldInv
      <3>3a. QED
        BY <3>2, <3>3
    <2>10. QED
      BY <2>3, <2>4, <2>5, <2>7, <2>8, <2>9 DEF FoldInv
  <1>7. CASE ~(flags[x] /\ ~Contains(r, x))
    <2>1. r2 = r
      BY <1>1, <1>7 DEF OneStep
    <2>2. flags[x] => x \in Range(r)
      BY <1>3, <1>7 DEF Contains, Range
    <2>3. Range(r) = Range(list) \cup FlaggedUpTo(flags, i)
      BY <1>4, <2>2 DEF FoldInv
    <2>4. \A a \in (Len(list) + 1)..Len(r) : RegistryPos(r[a]) \in 1..i
      BY <1>5
    <2>5. QED
      BY <2>1, <2>3, <2>4 DEF FoldInv
  <1>8. QED
    BY <1>6, <1>7

\* The loop invariant holds at every index of the loop's function.
LEMMA FoldAll ==
  ASSUME NEW list \in Seq(Plugins), IsInjective(list),
         NEW flags \in [Plugins -> BOOLEAN],
         NEW F, FoldUpTo(list, flags, F, Len(Registry))
  PROVE  \A i \in 0..Len(Registry) : FoldInv(list, flags, F[i], i)
  <1> DEFINE Bad == {i \in 0..Len(Registry) : ~FoldInv(list, flags, F[i], i)}
  <1>1. SUFFICES ASSUME Bad # {} PROVE FALSE
    OBVIOUS
  <1>2. PICK m \in Bad : \A y \in Bad : m <= y
    <2>1. Bad \in SUBSET Nat
      OBVIOUS
    <2>2. QED
      BY <1>1, <2>1, NatMin
  <1>3. m \in 0..Len(Registry) /\ ~FoldInv(list, flags, F[m], m)
    BY <1>2
  <1>4. \A i \in 0..Len(Registry) : F[i] = PushStep(list, flags, F, i)
    BY DEF FoldUpTo
  <1>5. CASE m = 0
    <2>1. F[0] = list
      BY <1>4 DEF PushStep
    <2>2. QED
      BY <1>3, <1>5, <2>1, FoldBase
  <1>6. CASE m # 0
    <2>1. m - 1 \in 0..Len(Registry) /\ m \in 1..Len(Registry)
      BY <1>3, <1>6
    <2>2. m - 1 \notin Bad
      <3>1. SUFFICES ASSUME m - 1 \in Bad PROVE FALSE
        OBVIOUS
      <3>2. m <= m - 1
        BY <3>1, <1>2
      <3>3. QED
        BY <3>2, <1>3
    <2>3. FoldInv(list, flags, F[m - 1], m - 1)
      BY <2>1, <2>2
    <2>4. OneStep(flags, F[m - 1], F[m], m)
      BY <1>4, <2>1, <1>6 DEF PushStep, OneStep
    <2>5. FoldInv(list, flags, F[m], m)
      BY <2>1, <2>3, <2>4, FoldStep
    <2>6. QED
      BY <1>3, <2>5
  <1>7. QED
    BY <1>5, <1>6


-----------------------------------------------------------------------------
\* The least of a non-empty set of block indices is one of them and below the rest.
LEMMA MinIsLeast ==
  ASSUME NEW S \in SUBSET Nat, S # {}
  PROVE  Min(S) \in S /\ \A y \in S : Min(S) <= y
  BY NatMin DEF Min

\* The first block that overrides the suffix for plugin p.
FirstBlock(suffix, p) == Min(OverrideBlocks(suffix, p))

\* lst is the override list decoder_plugins_for_suffix() starts from.
ListOf(suffix, lst) ==
  lst = IF suffix # <<>> /\ LowerKey(suffix) \in DOMAIN priorities
        THEN priorities[LowerKey(suffix)] ELSE <<>>

(* Once init_all() has returned, the override list of a suffix holds the   *)
(* plugins the configuration overrides for it, each once, ordered by the  *)
(* first block naming each: the table has an entry for every codec a block *)
(* of an enabled plugin names, and the entry is what TableFollowsConfig    *)
(* says it is.                                                             *)
LEMMA OverrideList ==
  ASSUME TypeOK, TableFollowsConfig, phase = "ready", NEW suffix, NEW lst,
         ListOf(suffix, lst)
  PROVE  /\ lst \in Seq(Plugins)
         /\ IsInjective(lst)
         /\ Range(lst) = Overridden(suffix)
         /\ \A a, b \in 1..Len(lst) :
               a < b => FirstBlock(suffix, lst[a]) < FirstBlock(suffix, lst[b])
  <1>1. cursor - 1 = Len(config) /\ config \in Seq(Blocks)
    BY DEF TableFollowsConfig, TypeOK
  <1>2. PICK key : key = LowerKey(suffix)
    OBVIOUS
  <1>3. \A p \in Plugins : OverrideBlocks(suffix, p) = GivesCodec(config, Len(config), key, p)
    BY <1>2 DEF OverrideBlocks
  <1>4. CASE suffix = <<>>
    <2>1. lst = <<>> /\ Overridden(suffix) = {}
      BY <1>4 DEF ListOf, Overridden
    <2>2. QED
      BY <2>1 DEF IsInjective, Range
  <1>5. CASE suffix # <<>> /\ key \notin DOMAIN priorities
    <2>1. lst = <<>>
      BY <1>2, <1>5 DEF ListOf
    <2>2. Overridden(suffix) = {}
      <3> SUFFICES ASSUME NEW p \in Plugins, enabled[p],
                          NEW i \in GivesCodec(config, Len(config), key, p)
                   PROVE  FALSE
        BY <1>3, <1>5 DEF Overridden
      <3>1. i \in 1..(cursor - 1) /\ config[i].plugin = p
            /\ key \in ToSet(ParseCodecList(config[i].codecs))
        BY <1>1 DEF GivesCodec
      <3>2. ToSet(ParseCodecList(config[i].codecs)) \subseteq DOMAIN priorities
        BY <3>1 DEF TableFollowsConfig
      <3>3. QED
        BY <1>5, <3>1, <3>2
    <2>3. QED
      BY <2>1, <2>2 DEF IsInjective, Range
  <1>6. CASE suffix # <<>> /\ key \in DOMAIN priorities
    <2>1. lst = priorities[key]
      BY <1>2, <1>6 DEF ListOf
    <2>2. lst \in Seq(Plugins)
      BY <1>6, <2>1 DEF TypeOK
    <2>3. ListFollows(lst, enabled, config, Len(config), key)
      BY <1>1, <1>6, <2>1 DEF TableFollowsConfig
    <2>4. Range(lst) = Overridden(suffix)
      BY <1>3, <1>6, <2>3 DEF ListFollows, Overridden
    <2>5. \A a, b \in 1..Len(lst) :
             a < b => FirstBlock(suffix, lst[a]) < FirstBlock(suffix, lst[b])
      <3> SUFFICES ASSUME NEW a \in 1..Len(lst), NEW b \in 1..Len(lst), a < b
                   PROVE  FirstBlock(suffix, lst[a]) < FirstBlock(suffix, lst[b])
        OBVIOUS
      <3>1. lst[a] \in Plugins /\ lst[b] \in Plugins
        BY <2>2
      <3>2. PICK Ga : Ga = GivesCodec(config, Len(config), key, lst[a])
        OBVIOUS
      <3>3. PICK Gb : Gb = GivesCodec(config, Len(config), key, lst[b])
        OBVIOUS
      <3>4. \E x \in Ga : \A y \in Gb : x < y
        BY <2>3, <3>2, <3>3 DEF ListFollows
      <3>5. lst[b] \in Range(lst)
        BY <2>2 DEF Range
      <3>6. Gb # {}
        BY <3>3, <3>5, <2>3 DEF ListFollows
      <3>7. Ga \in SUBSET Nat /\ Gb \in SUBSET Nat /\ Ga # {}
        BY <3>2, <3>3, <3>4 DEF GivesCodec
      <3>8. Min(Ga) \in Ga /\ (\A y \in Ga : Min(Ga) <= y)
            /\ Min(Gb) \in Gb /\ (\A y \in Gb : Min(Gb) <= y)
        BY <3>6, <3>7, MinIsLeast
      <3>9. Min(Ga) < Min(Gb)
        <4>1. PICK x \in Ga : \A y \in Gb : x < y
          BY <3>4
        <4>2. Min(Ga) <= x /\ x < Min(Gb)
          BY <4>1, <3>8
        <4>3. Min(Ga) \in Nat /\ x \in Nat /\ Min(Gb) \in Nat
          BY <3>7, <3>8, <4>1
        <4>4. QED
          BY ONLY <4>2, <4>3
      <3>10. QED
        BY <1>3, <3>1, <3>2, <3>3, <3>9 DEF FirstBlock
    <2>6. QED
      BY <2>2, <2>3, <2>4, <2>5 DEF ListFollows
  <1>7. QED
    BY <1>4, <1>5, <1>6


-----------------------------------------------------------------------------
\* ResolutionContract for one suffix, with the lookup's result res and the
\* overridden plugins O as parameters.
LookupContract(res, O, suffix) ==
  /\ IsInjective(res)
  /\ Range(res) = {p \in Plugins : enabled[p]}
  /\ \A i, j \in 1..Len(res) : i < j =>
        \/ res[i] \in O /\ res[j] \notin O
        \/ res[i] \in O /\ res[j] \in O /\ FirstBlock(suffix, res[i]) < FirstBlock(suffix, res[j])
        \/ res[i] \notin O /\ res[j] \notin O /\ RegistryPos(res[i]) < RegistryPos(res[j])

LEMMA ContractUnfolds ==
  ResolutionContract <=>
    (phase = "ready" =>
       \A suffix \in Queries : LookupContract(ForSuffix(suffix), Overridden(suffix), suffix))
  BY DEF ResolutionContract, LookupContract, FirstBlock, RegistryPos

(* One lookup after init_all() has returned: the loop adds behind the      *)
(* override list exactly the enabled plugins it does not hold, in registry *)
(* order, so the result meets the contract.                               *)
LEMMA LookupMeetsContract ==
  ASSUME TypeOK, TableFollowsConfig, phase = "ready", NEW suffix
  PROVE  LookupContract(ForSuffix(suffix), Overridden(suffix), suffix)
  <1>1. PICK lst : ListOf(suffix, lst)
    BY DEF ListOf
  <1>2. /\ lst \in Seq(Plugins)
        /\ IsInjective(lst)
        /\ Range(lst) = Overridden(suffix)
        /\ \A a, b \in 1..Len(lst) :
              a < b => FirstBlock(suffix, lst[a]) < FirstBlock(suffix, lst[b])
    BY <1>1, OverrideList
  <1>3. ForSuffix(suffix) = PushMissing(lst, enabled)
    BY <1>1 DEF ForSuffix, ListOf, LowerKey
  <1>4. PICK F : F = PushFold(lst, enabled)
    OBVIOUS
  <1>5. FoldUpTo(lst, enabled, F, Len(Registry))
    BY <1>4, FoldEquation
  <1>6. enabled \in [Plugins -> BOOLEAN] /\ Len(Registry) \in 0..Len(Registry)
    BY DEF TypeOK
  <1>7. FoldInv(lst, enabled, F[Len(Registry)], Len(Registry))
    BY <1>2, <1>5, <1>6, FoldAll
  <1>8. PICK res : res = F[Len(Registry)]
    OBVIOUS
  <1>9. ForSuffix(suffix) = res
    BY <1>3, <1>4, <1>8, PushMissingIsFold
  <1> SUFFICES LookupContract(res, Range(lst), suffix)
    BY <1>2, <1>9, Zenon
  <1>10. res \in Seq(Plugins) /\ Len(lst) <= Len(res)
         /\ (\A j \in 1..Len(lst) : res[j] = lst[j])
         /\ IsInjective(res)
    BY <1>7, <1>8 DEF FoldInv
  <1>11. FlaggedUpTo(enabled, Len(Registry)) = {p \in Plugins : enabled[p]}
    BY DEF FlaggedUpTo, Plugins, ToSet
  <1>12. Range(lst) \subseteq {p \in Plugins : enabled[p]}
    BY <1>2 DEF Overridden
  <1>13. Range(res) = {p \in Plugins : enabled[p]}
    BY <1>7, <1>8, <1>11, <1>12 DEF FoldInv
  <1>14. \A k \in 1..Len(res) : res[k] \in Range(lst) <=> k <= Len(lst)
    <2> SUFFICES ASSUME NEW k \in 1..Len(res) PROVE res[k] \in Range(lst) <=> k <= Len(lst)
      OBVIOUS
    <2>1. k <= Len(lst) => res[k] \in Range(lst)
      BY <1>2, <1>10 DEF Range
    <2>2. res[k] \in Range(lst) => k <= Len(lst)
      <3> SUFFICES ASSUME res[k] \in Range(lst) PROVE k <= Len(lst)
        OBVIOUS
      <3>1. PICK k2 \in 1..Len(lst) : lst[k2] = res[k]
        BY <1>2 DEF Range
      <3>2. k2 \in 1..Len(res) /\ res[k2] = res[k]
        BY <1>2, <1>10, <3>1
      <3>3. k2 = k
        BY <1>10, <3>2 DEF IsInjective
      <3>4. QED
        BY <3>1, <3>3
    <2>3. QED
      BY <2>1, <2>2
  <1>15. \A i, j \in 1..Len(res) : i < j =>
            \/ res[i] \in Range(lst) /\ res[j] \notin Range(lst)
            \/ res[i] \in Range(lst) /\ res[j] \in Range(lst)
                 /\ FirstBlock(suffix, res[i]) < FirstBlock(suffix, res[j])
            \/ res[i] \notin Range(lst) /\ res[j] \notin Range(lst)
                 /\ RegistryPos(res[i]) < RegistryPos(res[j])
    <2> SUFFICES ASSUME NEW i \in 1..Len(res), NEW j \in 1..Len(res), i < j
                 PROVE  \/ res[i] \in Range(lst) /\ res[j] \notin Range(lst)
                        \/ res[i] \in Range(lst) /\ res[j] \in Range(lst)
                             /\ FirstBlock(suffix, res[i]) < FirstBlock(suffix, res[j])
                        \/ res[i] \notin Range(lst) /\ res[j] \notin Range(lst)
                             /\ RegistryPos(res[i]) < RegistryPos(res[j])
      OBVIOUS
    <2>0. Len(lst) \in Nat /\ Len(res) \in Nat
      BY <1>2, <1>10
    <2>1. CASE j <= Len(lst)
      <3>1. i \in 1..Len(lst) /\ j \in 1..Len(lst)
        BY <2>0, <2>1
      <3>2. res[i] = lst[i] /\ res[j] = lst[j]
        BY <3>1, <1>10
      <3>3. FirstBlock(suffix, lst[i]) < FirstBlock(suffix, lst[j])
        BY <3>1, <1>2
      <3>4. QED
        BY <3>2, <3>3, <1>14, <2>1, <2>0
    <2>2. CASE i <= Len(lst) /\ ~(j <= Len(lst))
      BY <2>2, <1>14
    <2>3. CASE ~(i <= Len(lst))
      <3>1. i \in (Len(lst) + 1)..Len(res) /\ j \in (Len(lst) + 1)..Len(res)
        BY <2>0, <2>3
      <3>2. RegistryPos(res[i]) < RegistryPos(res[j])
        BY <3>1, <1>7, <1>8 DEF FoldInv
      <3>3. QED
        BY <3>2, <2>3, <1>14, <2>0
    <2>4. QED
      BY <2>1, <2>2, <2>3
  <1>16. QED
    BY <1>10, <1>13, <1>15 DEF LookupContract

(* decoder_plugins_for_suffix(), called once decoder_plugin_init_all() has *)
(* returned, lists every enabled plugin exactly once: first the plugins    *)
(* the configuration overrides for the suffix, in the order of the first   *)
(* block naming each, then the others in static registry order.  It holds *)
(* for every registry, configuration and suffix, because the table the     *)
(* build leaves behind is what TableFollowsConfig says it is.              *)
THEOREM LookupFollowsContract == Spec => []ResolutionContract
  <1>1. TypeOK /\ TableFollowsConfig => ResolutionContract
    BY LookupMeetsContract, ContractUnfolds
  <1>2. QED
    BY <1>1, TypeCorrect, TableBuildFollowsConfig, PTL

=============================================================================
