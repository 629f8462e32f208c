# Formal model of the VGMPD decoder plugin layer

This directory holds TLA+ models of the decoder plugin layer of VGMPD, checked
with TLC, and proofs of some of its invariants, checked with TLAPS. The layer
has two parts: the plugin registry and its lifecycle (`src/src/decoder/DecoderList.cxx`),
and the decode loops of the PSF-family plugins (`src/src/decoder/plugins/`).
`PROJECT.json` lists the components, the runs, the mutants, the map from each
definition to the source lines it models, the findings and the hazards.

## The system and how its parts interact

* **Plugin registry** (`decoder_plugins[]`, `decoder_plugins_enabled[]`).
  This is a fixed, ordered list of plugins with one enabled flag each.
* **Lifecycle controller.** `decoder_plugin_init_all()` reads the
  `decoder` blocks of the configuration. For each plugin in registry order it
  skips a plugin disabled by `enabled "no"`, or calls its `Init()`. `Init()`
  may succeed, decline (`false`), throw `PluginUnavailable`, or throw a
  fatal error that aborts startup. The controller then builds the codec
  priority table. `decoder_plugin_deinit_all()` calls `Finish()` on every
  flagged plugin.
* **Codec priority table** (`ParseCodecList`, the build in
  `decoder_plugin_init_all`). A block's `codecs` value is split at commas and
  blanks and lower-cased. The block's plugin, if it resolves among the enabled
  plugins, is appended once to the list of each codec.
* **Registry lookup** (`decoder_plugins_for_suffix`,
  `decoder_plugins_supports_suffix`). The first lists the overrides of the
  lower-cased suffix first, then every other enabled plugin, in registry
  order, each plugin once. The second asks whether some enabled plugin
  declares the suffix, compared without regard to case.
* **Decode loops** of lazyusf, lazygsf, aopsf and upse. Each runs on the
  decoder thread, one file at a time:
  * it calls `Ready()` with the song length it derived from the tags;
  * it renders a buffer, fades it (usf and gsf), and submits it;
  * it reads the command the client returns: `NONE`, `STOP` or `SEEK`;
  * it ends at the song length.

  A `SEEK` restarts the emulator, skips to the target, re-bases the frame
  counters and answers with `CommandFinished()`.
* **Time-tag parsers** (`ParsePsfTimeMS` ×3, `ParseUSFTimeMS`) and the
  duration sums (`GetPsfDurationMS`, `length_ms + fade_ms`). They turn the
  `length` and `fade` tags into milliseconds, and so decide what the loops
  count down.

The registry layer and the plugins meet only through `Init()`/`Finish()` and
the lookup. The loops meet the parsers through the lengths they get. Each
interaction is therefore modelled at the boundary: a plugin's `Init()` outcome
is a nondeterministic input of `DecoderList`, and a parsed length is an input
(a frame count) of the decode modules.

## Modules

| Module | Models | State | Actions |
|---|---|---|---|
| `CodecList` | `ParseCodecList`, `IsCodecDelimiter`, the ASCII lower-casing | (operators only) | a left fold over the characters; `CodecTokensRef` is the reference tokenizer it is checked against |
| `DecoderList` | registry, lifecycle, table, lookup | `phase`, `cursor`, `config`, `enabled`, `live`, `priorities`, `cycles` | `StartInitAll`, `InitSkipDisabled`, `InitSucceeded`, `InitDeclined`, `InitFailed`, `BeginBuild`, `BuildSkipBlock`, `BuildAddBlock`, `EndBuild`, `DeinitAll` |
| `FadeSeekDecode` | `lazyusf_file_decode` and `gsf_file_decode` with their `ApplyFade` (`Variant`) | `pc`, `hasLength`, `lengthFrames`, `fadeTotal`, `pos` (emulator position), `songRemaining`, `fadeRemaining`, `bufStart`, `gain` (gain of each frame of the last buffer), `seeks`, `seekDropped` | `Open`, `RenderFailed`, `PlayToEnd(cmd)`, `PlayBuffer(cmd)`, `PlayBufferAndSeek` |
| `FrameCountDecode` | `aopsf_file_decode` (with `AopsfSeek`) and `upse_file_decode` (`Variant`) | `pc`, `hasLength`, `lengthFrames`, `pos`, `framesPlayed`, `lastStart`, `lastEnd`, `seeks` | `Open`, `AopsfEnd`, `AopsfGenFailed`, `AopsfPlay(cmd)`, `AopsfPlaySeek`, `UpseRenderEnd`, `UpseLengthReached(n)`, `UpsePlay(n,cmd)`, `UpsePlaySeek(n)` |
| `PsfTime` | the four time parsers, `strtoul` (blanks, sign, saturation at `ULONG_MAX`), `GetPsfDurationMS` | (operators only) | the segment scan is a recursive function over the characters; `RefTimeMS` is a reference parser that splits the tag at its colons |
| `DecodeCall` | the abstract promise of a decode call (spec §4, §5) | `state`, `bounded`, `songEnd` (length + fade), `at` (position), `answered` (SEEKs answered) | `Begin`, `Advance`, `Finish`, `Stop`, `Seek`, `Abort` |
| `DecoderList_proofs`, `DecoderLookup_proofs`, `CodecList_proofs`, `FadeSeekDecode_proofs`, `FrameCountDecode_proofs` | TLAPS proofs about the module they extend | | |
| `LeastElement` | the least-element principle `NatMin`, which the loop proofs use as their induction | | |

Each `MC_*` module instantiates one of these for TLC. The tag checks of
`MC_PsfTime` are driven by a small state machine that types a tag character by
character.

How the code maps onto the actions:

* Each action is one iteration of the code's loop, taken whole: render, fade,
  submit, the end test and the seek branch. Its guard is the code's condition
  and early return. For example, `PlayToEnd` is the iteration whose
  `has_length && song_remaining <= 0 && fade_remaining <= 0` test breaks the
  loop, whatever command `SubmitAudio()` returned.
* A `SEEK` target and a skip failure are chosen with `\E`. A failed
  `SkipFrames()` returns before `CommandFinished()`. That is a failed seek,
  which the spec (§7) lets end the decode call. Only a SEEK returned with
  the buffer that ends the fade sets `seekDropped`: the loop breaks before
  it looks at the command.
* Data is abstracted:
  * a sample is represented by the gain applied to it (`Full` or
    `Scaled(numerator)`);
  * times are frame counts;
  * plugin names, suffixes and codecs are model values or short strings.

### The abstract decode call and the refinement

`DecodeCall` says what a decode call promises, on the position alone. While
the call goes on, a song with a length is never played past its end (length
plus fade). Each step moves the position forward by at most one buffer
(`MaxStep`). The call ends on its own (`Finish`) only once the end is reached.
A seek moves the position anywhere and adds one answered SEEK. It is done and
the call goes on, or it fails and ends the call. A stop or a render error ends
the call.

`FadeSeekDecode` and `FrameCountDecode` each define
`DC == INSTANCE DecodeCall WITH ...` and `ImplementsDecodeCall == DC!Spec`:

| Abstract | `FadeSeekDecode` | `FrameCountDecode` |
|---|---|---|
| `state`, `bounded`, `at` | `pc`, `hasLength`, `pos` | `pc`, `hasLength`, `pos` |
| `songEnd` | `lengthFrames + fadeTotal` (0 without a length) | `lengthFrames` (the fade is already in it) |
| `answered` | `seeks`, less the dropped one | `seeks` |
| `MaxStep` | `B` | `B` (aopsf), the largest chunk (upse) |

Steps correspond as follows. `Open` maps to `Begin`. A buffer that returns
`NONE` maps to `Advance`, and one that returns `STOP` to `Stop`. The
iteration that breaks at the end maps to `Finish`: `PlayToEnd`, `AopsfEnd`
(which leaves the position where it is) and `UpseLengthReached` (which may
pass the length by up to one chunk). A seek maps to `Seek`, whether the skip
succeeds or fails. Render failures map to `Abort`.

## Runs

| Run | Expect | What it shows |
|---|---|---|
| `decoderlist` | pass | The table names only enabled plugins (`TableOnlyEnabled`). Each codec's list holds exactly the enabled plugins whose configuration blocks name it, each once, ordered by the first block that names it (`TableFollowsConfig`). Every lookup returns overrides first, then registry order, each plugin once (`ResolutionContract`). The configuration has 3 plugins, 3 configurations and 2 init/deinit cycles. |
| `decoderlist_reinit_stale` | violation | Enabled flags survive `deinit_all()`. |
| `codeclist` | pass | `ParseCodecList` equals the reference tokenizer on every value of up to 5 characters. |
| `fadeseek_usf` | pass | lazyusf's counters equal the real position across seeks (`CountersTrackPosition`). Every submitted frame gets the gain its position calls for (`FadeFollowsPosition`). A song with a length ends (`SongEnds`). The loop refines `DecodeCall` (`ImplementsDecodeCall`). |
| `fadeseek_seek_dropped` | violation | A SEEK returned with the buffer that ends the fade is neither done nor answered with `CommandFinished()`: the end-of-song break comes before the SEEK test. The trace plays a song of length 3 and fade 1 for one buffer, then gets the SEEK with the second. |
| `fadeseek_gsf` | violation | gsf's `ApplyFade` ignores the position: without a fade the frames past the length play at full volume; with a fade (`Fades = {3}`) the ramp is shifted onto body frames. |
| `framecount_aopsf` | pass | `frames_played` tracks the position. No frame is submitted past the length. The song ends. The loop refines `DecodeCall`. |
| `framecount_upse` | pass | `frames_played` tracks the position with chunks of sizes 2 and 3. The loop refines `DecodeCall`. |
| `psftime` | pass | The parsers agree with the reference on all tags of up to 5 characters over `0 1 9 : . ,`. |
| `psftime_sign` | violation | `"-1"` is read by `strtoul` as the largest length. |

Every property of a passing run has a mutant in `PROJECT.json`: a plausible
bug in a mapped definition that TLC finds. Examples are a clamp dropped from
the seek into the fade, an off-by-one in the usf gain, the end test written
`< 0`, an unclipped aopsf buffer, and the millisecond padding left out.
Three mutants break the refinement:

* the usf end test written `< 0`, so the loop plays past the fade;
* the aopsf buffer left unclipped;
* upse testing the length before it adds the chunk just submitted.

A first version of `DecodeCall` had a `Seek` step that left the answered
count alone. Any step from `play` matched it, and the refinement held even
for the first mutant. Counting answered seeks is what tells a seek apart from
playing.

### Bounds

* **Decode loops.** The buffer is 2 frames. Lengths are 0 to 3 or 4 frames,
  fades 0, 1 or 3 frames. Seek targets fall before, at and after the
  body/fade boundary and past the end. A call makes at most 2 seeks. `MaxPos`
  bounds a file without a length. These bounds produce every case the code
  distinguishes:
  * the body ending inside a buffer, and at its edge;
  * a fade shorter than, equal to and longer than a buffer;
  * a seek into the body, into the fade and past it;
  * two seeks in one call.

  The code's buffers are 1024 or 2048 frames. Buffer size only scales these
  cases.
* **Parsers.** All tags of up to 5 characters cover single and multiple colons,
  both fraction separators, empty segments and the 10000 threshold (`"10000"`
  is 5 characters).
* **Widths.** TLC's integers stop at 2^31, so `PsfTime` takes the widths of
  `unsigned long` and `unsigned` as constants, set to 30 and 28 bits in the
  cfgs instead of 64 and 32. Saturation and wrap-around happen at the same
  places relative to those widths.
* **Registry.** 3 plugins, each with each `Init()` outcome. There are blocks
  that name an unknown plugin or the same plugin twice, and two init cycles
  (the second is where stale flags matter).

### Fairness

The decode modules assume weak fairness of the decode thread's loop progress:
a `PlayToEnd` step, or a buffer that returns `NONE`. The thread runs the loop
without waiting on anything but the emulator and the client. A hung library
call is outside this layer (spec §5).

Render failures, skip failures and client commands are not fair choices. They
may happen or not. `DecoderList` has no liveness property and no fairness.

## Proofs

Five modules hold the proofs; each EXTENDS its component and TLAPS, and
rests only on the component's ASSUME (`RegistryAssumption`,
`DecodeAssumption`, `FrameCountAssumption`). Those assumptions say:

* the constants are naturals and the buffer size is positive;
* the registry is a finite sequence of distinct names;
* upse's chunk sizes have a largest element. The library returns at most
  one buffer per call, so it bounds the chunks.

`DecoderList_proofs`, for every registry, configuration set and cycle bound:

* `TypeCorrect`: `Spec => []TypeOK`.
* `TableNamesOnlyEnabledPlugins`: `Spec => []TableOnlyEnabled`. The inductive
  invariant is `TypeOK /\ TableOnlyEnabled`; `TypeOK` is needed because the
  `InitSucceeded` step must know the table holds plugins of the registry.
  The argument: enabled flags only go from false to true, `BeginBuild` clears
  the table, and `BuildAddBlock` adds only a plugin `FindByName` resolved among
  the enabled ones (lemmas `AddOverrideTyped`, `AppendRange`,
  `AddOverrideEnabled`).
* `TableBuildFollowsConfig`: `Spec => []TableFollowsConfig`, inductive with
  `TypeOK`. During the build, the table is what the configuration blocks
  read so far (`1..cursor-1`) call for: each codec's list is injective, its
  range is the enabled plugins with a block naming the codec, and a plugin
  comes before another when its first such block does. The argument is per
  block: `BuildSkipBlock` adds nothing and, as the lemma `GivesCodecSame`
  shows, the block names no plugin for any codec. `BuildAddBlock` pushes the
  plugin onto the list of each codec the block names (lemma `GivesCodecAdd`);
  `ListStep` shows that pushing a plugin that is absent, or keeping one that
  is already listed, preserves the three facts, and `ListKeep` covers the
  codecs the block does not name. `FollowsIsOrdered` restates the invariant
  over the functions `GivenBy(cfg, n, k)`, which is the form the lemmas take.

`DecoderLookup_proofs` extends `DecoderList_proofs` and `LeastElement`, for every registry, configuration set and cycle bound:

* `LookupFollowsContract`: `Spec => []ResolutionContract`. Every lookup
  returns the overrides of the suffix's codec first, in the order of the
  first block that names each, then the other enabled plugins in registry
  order, each plugin once. It is not inductive; it follows in every ready
  state from `TypeOK /\ TableFollowsConfig`, which are already proved. The
  argument has three parts:
  * `ForSuffix` is the code's loop over the enabled plugins
    (`PushMissing`: push each one `std::find` does not find), written as a
    recursive function over `0..Len(Registry)`. The provers see such a
    function only as a `CHOOSE`, so `FoldExists` shows that a function
    with the loop's equation exists. It takes the least prefix length with
    no such function (`NatMin`, the least-element principle from
    `NatLessThanWellFounded` and `WFMin`) and extends the function one
    step past it.
  * `FoldAll` proves the loop invariant `FoldInv` at every index, again by
    a least counterexample. The invariant says that the override list is a
    prefix of the result, the result is injective, and its range is the
    overrides plus the enabled plugins seen so far. The plugins after the
    prefix are in increasing registry position.
  * `OverrideList` reads the override list's facts off
    `TableFollowsConfig`: it is injective, it holds exactly the overridden
    enabled plugins, and its order is the order of their first blocks.
    `LookupMeetsContract` then combines the two.

  The model's lookup once filtered with `SelectSeq`, which tlapm cannot
  unfold, so nothing about its result could be proved. It now follows the
  code's loop (DecoderList.cxx:296-300), and a mutant that drops the
  `std::find` test breaks the run.

`CodecList_proofs` extends `MC_CodecList`, `LeastElement` and
FiniteSetTheorems:

* `ParseCorrect`: for every value of any length over any characters,
  `ParseCodecList(s) = CodecTokensRef(s)`. The scan is a recursive function
  over the prefix length; `ScanEquation` shows it exists, as for the
  lookup above. The loop invariant `ScanWit` names a start and a length
  for each pushed token. Each pushed token is a run of non-delimiters,
  lower-cased and closed by a delimiter, and the starts increase. The
  token being collected is the run that ends at the current character.
  The starts seen so far are exactly the token starts of the prefix.
  `ScanChar`, `ScanDelimEmpty` and `ScanDelimToken` are the three
  branches of the loop body; `ScanAll` proves the invariant by a least
  counterexample, and `ScanFinal` covers the last push. The reference
  picks its n-th token by rank (`Cardinality` of the starts before it).
  `PrefixImageCard` counts the values of an increasing sequence (through
  `FS_CountingElements`), so the n-th start of the scan has rank n - 1.
  `TokenEndIs` shows that the reference's `TokenEnd` is where the scan
  closed the token.
* `ParseAlwaysMatches`: `Spec => []ParseMatchesReference` for every bound
  `MaxLen`, from `ParseCorrect` and the invariant that the value is a
  sequence over the alphabet.

`FadeSeekDecode_proofs`, for every buffer size, length, fade and seek target,
and for both variants:

* `TypeCorrect`: `Spec => []TypeOK` (lemmas `FadeGainType`,
  `BufferGainType`, `FadeRemainingAfterType`, `NoBufferType`).
* `CountersCorrect`: `Spec => []CountersTrackPosition`, with inductive
  invariant `TypeOK /\ CountersTrackPosition`. `BufferStepKeepsCounters`
  shows one buffer moves both counters with the position, by cases on the
  body counter (more than a buffer left, the body ending in this buffer,
  already in the fade); `SeekKeepsCounters` shows the seek branch computes
  both counters from the target alone, whatever the state before.
* `DecodeRefinement`: `Spec => ImplementsDecodeCall`, which is the abstract
  spec under the refinement mapping. It is laid out as in the TLAPS
  examples:
  * `Init => DC!Init`;
  * `TypeOK /\ CountersTrackPosition /\ PlayAnswers /\ [Next]_vars =>
    [DC!Next]_DC!avars`, with one case per action;
  * the theorems above and `PlayAnswersHold` (no SEEK is dropped inside a
    call) combined by PTL.

  The key lemma, `EndTestIsPosition`, says the code's end test
  (`song_remaining <= 0 && fade_remaining <= 0` after the buffer) holds
  exactly when `pos + B >= length_frames + fade_total`. So a buffer that does
  not end the loop stays within the end, and one that does reaches it. This
  is why `CountersTrackPosition` is needed.

For the usf variant only (lazygsf's `ApplyFade` breaks
`FadeFollowsPosition`, run `fadeseek_gsf`):

* `UsfFadeCorrect`: `Spec => []FadeFollowsPosition`, with inductive invariant
  `TypeOK /\ CountersTrackPosition /\ FadeFollowsPosition`. Every step that
  submits a buffer computes its gains from the counters, which (by
  `CountersCorrect`) describe the position the buffer was rendered at. The
  lemma `UsfBufferGainFollowsPosition` does the per-frame arithmetic, by
  cases: a frame in the body, in the fade, or past the fade.

`FrameCountDecode_proofs`, for every buffer size, chunk set, length and
target:

* `CountersTyped`: the counters are naturals (`Counters`), needed by the
  arithmetic of the other two.
* `PlayedCountsPosition`: `Spec => []PlayedTracksPosition`, inductive with
  `Counters`.
* `AopsfAudioWithinLength`: `Spec => []AudioWithinLength`. It is not
  inductive alone: the clip `min(length_frames - frames_played, B)` bounds
  the buffer's end only because `frames_played` is the position. The
  inductive invariant is `Counters /\ PlayedTracksPosition /\
  AudioWithinLength` (lemma `AopsfFramesBound`).
* `DecodeRefinement`: `Spec => ImplementsDecodeCall` for both loops, from
  `Counters /\ PlayedTracksPosition`. The code's tests compare
  `frames_played` with `length_frames`, and they bound the position only
  because `frames_played` is the position. `StepBoundFacts` says every chunk
  fits in one abstract step.

`CountersCorrect` and `AopsfAudioWithinLength` once stood after their
module's end line, where tlapm never read them. They are now inside their
modules and checked.

TLC alone checks:

* liveness (`SongEnds`), which is out of the provers' reach (fairness and
  ENABLED). The refinement theorems are safety only, because `DecodeCall`
  has no fairness;
* nothing about the gsf fade: `FadeFollowsPosition` does not hold for it,
  and the fade theorem is proved from that invariant;
* the property of `PsfTime` (`ParsersMatchReference`). It does not hold
  for every value of the constants. The segment scan reduces each digit
  step modulo 2^w (`U64`) and `strtoul` saturates at `ULONG_MAX`, while
  the reference reads the digits as exact integers, so the two agree only while a tag is short compared with the
  widths. That is the bound the run chooses (5 characters, widths 30 and
  28). A theorem would have to carry that bound as a hypothesis and
  reason about `FoldLeft`, whose definition in the community modules is a
  fold over a set by `CHOOSE`.

Two further observations have no run of their own:

* `ParseCodecList` keeps a codec repeated up to case (`"flac, FLAC"` gives
  `[flac, flac]`, where the spec's example in section 8 has one). The table
  build drops the repeat (DecoderList.cxx:118), so `ResolutionContract` holds
  either way.
* `length_ms + fade_ms` (`PsfDurationMS`) wraps in unsigned arithmetic. With
  the sign bug, length `"-1"` and fade `"1"` announce 999 ms. No run checks
  this, because a well-formed tag reaches the wrap only past 1193 hours.

## Not modelled

* **Tag extraction, file loading and emulator internals.** These are
  library I/O. Their outcomes enter the models as inputs: lengths, render
  success, skip success.
* **`ScanFile`** (the tag visitors). These are pure mappings from strings to a
  `TagHandler`.
* **The plugin configuration globals.** They are written by `Init()` and read
  by decode, which never overlap.
* **The native-rate probe of lazyusf.**
* **The metadata fallbacks of `GetUpseDurationMS`.**
* **The ms-to-frames conversion.** Frame counts are taken as inputs.
* **upse's null-samples iteration** (`if (samples == nullptr) continue;`).
  The library code that would say whether the emulator advanced is not in
  this repository, so the step is a stutter. It is listed as a hazard.

## Further work

* Add fairness to `DecodeCall` and check that each loop implements it as a
  liveness property. TLC only.
* Model `GetUpseDurationMS`'s fallbacks and its 32-bit sum.
