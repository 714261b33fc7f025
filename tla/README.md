# VCAP verifier: a TLA+ model

The verifier reads a photo or a video that carries a VCAP proof and answers two
questions about it: does this file fit what was signed (`outcome`), and what does
the evidence around the signature attest (`level.ceiling`: green, amber or red,
explained by `labels`). The core (`core/src`) is a library without state: one file
and one set of options in, one verdict out. The web page (`web/src`) and the command
line (`cli/src`) call it. The hard part of the core is not any one check but what a
reader may conclude when evidence is minted, revoked, expired, deleted or replaced
in orders nobody wrote a test for. The hard part of the page is that every wait is
a place where the reader may have changed the question.

## The system

| Part | State it keeps | Operations | Talks to | Hard behaviour | What makes it correct |
|---|---|---|---|---|---|
| Verdict (`core/src/verify.ts`, `ceiling.ts`) | none; the file and the clock are its input | `verify`, `judge`, `ceilingLabels` | every attachment's verifier, the online lookups | evidence dated by five clocks, deleted or spoilt by whoever holds the file | green only on witnesses' word; red only on a revocation that reaches the capture |
| Registry proof, key status (`registry.ts`, `key-status.ts`) | none | `verifyRegistry`, `verifyKeyStatus` | Merkle trees, a log's signed answer | several logs, each speaking of its own keys | one log's evidence counts for one proof |
| Timestamp, anchor (`rfc3161.ts`, `anchor.ts`) | none | `validateTimestamp`, `verifyAnchor` | TSA roots, the chain reader | a token later than its block; expired certificates | a trusted instant is a witness's |
| Attestation, revocation (`attestation/android.ts`, `attestation-status.ts`, `integrity.ts`) | none | `validateAndroidAttestation`, `chainStatus`, `verifyIntegrity` | Google's status list, a registry's frozen snapshot | a list that goes silent when a certificate expires | a compromise always reaches back |
| Trailer, carriers (`trailer.ts`, `carrier.ts`, `jumbf.ts`, `cbor.ts`, `canonical.ts`) | none | `parseTrailer`, `replaceTrailer`, `readCarriers` | the verdict | three carriers of one proof that may differ | the attachments can change, the core cannot |
| Segments, timing (`segments.ts`, `timing.ts`, `container.ts`) | none | `verifyChain`, the timing root | the verdict | segments reordered, repeated, cut | a clip is a run of the recording |
| Merkle trees (`merkle.ts`) | none | `verifyInclusion`, `verifyConsistency` | registry, anchor | right edges of incomplete trees | RFC 6962, exactly |
| Watermark, location (`watermark.ts`, `location.ts`, `layouts.ts`) | none | `decodePhoto`, `readClip`, `evaluateWatermark`, `positionLevel` | a detector's reading, a log's statement | frames that disagree, ids that decode by luck, reports and statements handed on | a claim needs what the pixels, or the log, said |
| Page (`web/src/main.ts`) | the file and detection held, the model in use, the shared load, a generation and a source counter, the note, the status line, the output | `take`, `useModel`, reset, `check`, `ensureDetector`, `markAlone`, offers | core, detector, trust panels | every `await`: a newer check, model or switch meanwhile | the output is about the newest question; it always gets an answer |
| Trust panels (`web/src/trust.ts`) | the entries and chains with their switches | mount, add, switch, `enableChain`, `trustInUse` | the page (`onChange`), RPC | documents that are parsed while switches are thrown | off stays off; a change is never hidden |
| Chain reader (`core/src/chain.ts`) | none; the call under way | `rpcChainReader`, `readFrom` | JSON-RPC endpoints | endpoints that fail, lag, hang or are of another chain | a failure is never an answer about an anchor |
| Detector (`web/src/detector.ts`, `detector-runtime.ts`, ...) | a loaded model | `loadDetector`, `detect` | the page, the network | a 34 MB download that fails or is overtaken | the bytes pinned, or none |
| Offline page (`web/src/sw.ts`) | one cache per build | install, activate, fetch | the page, the network | a deployment in the middle of an install; open pages of an older build | a page is served one build |
| Command line (`cli/src`) | the trust taken in, the results so far | `run`, `extract`, `parse` | core, HTTP, the disk | several files, failing lookups, documents that do not parse | the exit code answers for every file named |
| Build signing (`bin/*.mjs`, `web/build.mjs`) | `dist/`, the published key, the log, the mirror | build, `sign-build`, `mirror-signature`, `verify-build` | the published site | a signing cut short; a tree or a checkout of the log that drifted | what verifies is what the key holder signed |

## The modules

**`Verdict`** is `judge` from step 5 on, as operators over a proof `p` and the
reader's options `o`. A proof is its declared platform, claimed level and device
clock, what happened to the media, and six attachments. An attachment's `is` says
how it checks out: `absent`, `unreadable` (a value of another type, which the code
skips), `bad` (parsed and refused), `good`, and where the code tells them apart
`swapped` (an attestation chain for another key) or `unrecorded` (an anchor whose
root the chain does not have). The media are the sealed bytes, with what was signed of
their presentation and timing true or not (`Originals`), a cut of them or something
else. A `good` attachment carries what its witness said:
an instant, a log, a level, a state. The operators follow the code's order: labels
per attachment, the instant (`Instant`, `TrustedInstant`), the attested and proven
level, the key's status asked at `Asked`, the ceiling (`IsRed`, `IsGreen`,
`Ceiling`), and last what `ceiling.ts` prints beside an amber light, from a list of its
own and with its condition on *no trusted time* (`AmberReasons`). A token may be dated
`TsaSkew` ahead of the reader's clock, the code's five minutes. The label strings are the code's own: they are what its `HOLDS_AMBER`
is a set of. `frames_not_compared` cannot happen here because every model file has
its bytes; it colours as a clip does.

**`Custody`** is the world a verdict is about: a clock all witnesses share, when the
core was signed, when each log admitted the key and how it ended, what the status
list says, and the file. Its actions are the device's (`Seal`, with any declared
clock and a true or wrong description of its media), the witnesses' (`Register`, `AttachToken`, `AttachAnchor`, `AttachRegistry`,
`AttachIntegrity`, `AttachStatus`, `RevokeKey`, `RevokeChain`), time's (`Tick`) and
a holder's: `Put` is `replaceTrailer`, which can put any attachment beside an
unchanged core, so `Strip`, `Spoil` and `Swap` are instances of it; `Transcode`
cuts or changes the media. A witness attaches only what it saw: no signature is forged,
but a stolen key may seal, since that is what revocation is for. The verdict is not
an action: a reader may read at any state, so properties quantify over `Readers`,
and `Options(r)` builds what that reader's lookups answer at this instant.

**`CustodyProofs`** holds the theorems about `Custody`.

**`Carriers`** is where a proof comes from and which one is judged: the trailers at
the end of a file (`trailer.ts`), the manifest stores in it or brought along and the
walk up their parents (`carrier.ts`: `Chain`, `Search`), `extractProof` (`Extract`),
the sidecar beside it, and the ranking of two verdicts (`verify.ts`: `Precedence`,
`OfAncestor`, `Reread`). A payload is the capture it is of, the form of its bytes,
the colour its attachments earn and whether it reads; `Judge` is the verdict of one
payload over the bytes that go with it. A JPEG's store lies outside its canonical
bytes, a HEIC's and a video's inside, which is why `format` is a variable. The
actions are those of whoever holds the file: add, break and strip trailers, embed
and drop stores, edit the content, and `ReplaceTrailer`, the code's own way to put
attachments back. The reader's sidecar and store are quantified in the properties. What
a device seals has no proof in its stores yet (`CarriersAssumption`): the trailer or
the sidecar is written after them. **`CarriersProofs`** holds the theorems.

**`Segments`** is a video's received frames: `segmentsOutcome` over the groups of
pictures `container.ts` locates (`Named`, `Credited`, `Problems`) and over the chain
`segments.ts` walks (`Follows`, `Verifies`, `Walked`, `Contradicted`). A device
recorded two videos with one key; the proof is about one of them. A group holds the
frames it shows, the SEIs that name it, its timing and whether samples are missing
from it; an entry of the proof holds the fields its signed message is rebuilt from.
Hashes and signatures are over what was hashed and signed, so a message verifies
only if the device signed exactly it. Cuts are free; every other change of the file
(`EditsTheFile`) or of the proof's unsigned entries (`EditsTheProof`) costs one of
`MaxEdits`. What the device signed of its own presentation and timing may be wrong:
`Init` lets it be.

**`SegmentsProofs`** holds the theorems about `Segments`.

**`Merkle`** is `core/src/merkle.ts`, one path node per step, beside RFC 6962's own
definitions of a root, an audit path and a consistency proof, as recursive functions
over the spans of a log. A hash is its preimage (`<<i>>` a leaf, `<<l, r>>` a node),
which is collision resistance and nothing else. `Init` picks what is claimed: every
honest proof, and every path over the hashes of a small tree for a forged one.
**`MerkleProofs`** holds its theorems, for trees of every size and paths of every length.

**`Answers`** is what the page promises: one question at a time, first the
signature's card, then one answer, which stands until a new question.

**`Page`** is `main.ts`: one thread, one action per continuation. A check is a record
with the stage it waits at (`opening` the file, `judging` in pass one, `lookup` of
its watermark, `loading`, `detecting`, `concluding`, `ended`), the trust it was
judged under, the load it waits for and the model that read. `generation` is the
number of checks, `loads` and `takes` are the downloads and the drops that wait for
their bytes. `EnsureDetector` is the function of that name, called at the end of
whichever action asks. `Take`, `ResetModel`, `Switch`, `ReadAnchor` and `PressMark`
are the reader's. A file stands for the triple (file, sidecar, manifest store) it is
verified with, and what the core says of it is fixed by three sets (`Declares`,
`Bare`, `Anchored`): the page's control depends on nothing else of a verdict. The
mapping to `Answers` takes the question to be `generation` and the card shown to be
the first card of the output; mark panels and offers are not answers. **`PageProofs`** holds
its theorems.

**`TrustPanel`** is `web/src/trust.ts` over the documents of `core/src/trust.ts`: the
rows of the log and the authority panel, by name, with their switches, the chains
switched on, and the additions under way. A document is its set of entries. `Mount` is
the shipped set, which parses (`PanelAssumption`; core/test/trust.test.ts checks it),
`Choose` a file or a pasted line, `Added` the continuation that parses it (`Parses`,
`Result`) and gives a row to the names that have none (`Add`). A name is a digest and
how it is spelled, because a log's id is compared as written and an authority's
fingerprint in lower case (`Fits`).
`Changed` is what `trustInUse` tells.

**`Lookup`** is what reading an anchor promises: one step, that says what the contract
holds or held a moment ago, or nothing.

**`ChainReader`** is `core/src/chain.ts` with the transport under it. `Begin` is
`verifyAnchor`'s call, `CheckId`, `Conclude` and `Refuse` are what `readFrom` makes of
a reply, `Failed` is the next endpoint or the end, `TimeOut` the transport's ten
seconds. Around it contracts are written to (`Record`) and endpoints follow (`Follow`),
answer (`Reply`) or send what cannot be read (`Garble`); silence is no step at all.
Endpoints do not lie, the code trusts them there.

**`Consultation`** composes the last two: a read begins with the chains that are on
(`Following`) and goes on while switches are thrown. `PublicChains` is the one constant
the two share. **`ConsultationProofs`** holds the theorems about both.

**`Dist`** is what a build is made of: named files, each known by the build that made
it, and which of them the worker keeps (`Precached`).

**`Publish`** is the key holder's side (`bin/*.mjs`, `web/build.mjs`): `Build`, the
signing run in two steps (`Sign`, `Record`) that may end between them (`Interrupted`),
`Rotate`, a mirror that builds and takes a signature from a checkout of the log that
may be behind (`Mirror`), hands on the directory (`Touch`), and what `verify-build`
accepts (`Passes`, `LogHolds`).

**`Offline`** is the reader's side (`web/src/sw.ts`): `Register`, one `Put` per
precached file, `InstallFails`, `Activate` with `skipWaiting`, one `Sweep` per older
cache, `Claim`, and a visit (`Open`, `LoadBundle`, `ReadDetectorJson`, `Download`), each
request of which is answered by the worker's cache or the host (`Answer`).
**`Release`** composes both: `PutUp` copies what was built to the host.
**`ReleaseProofs`** holds the proofs about it.

**`PhotoCode`** is the decoder of `photo-bch-v3` in `layouts.ts`: syndromes (`TakeIn`),
one action per turn of Berlekamp-Massey (`Turn`), and the roots, the correction and its
check (`Correct`). The algorithm is the source's for any field; the runs use a smaller
one. **`ClipCode`** is `video-rep-v1`: the checksum, the vote of the copies, the floor,
and the clip's total beside its frames. **`Watermark`** extends both from the frames to
the answer: `Sample` and `Report` are `detector-runtime.ts`, `Relay` is whoever hands the
report on and loses a member of it, `evaluateWatermark` the core's comparison.
`decodeClip` averages its frames; the model sums them, which has the same signs.

**`Location`** is `core/src/location.ts`: what logs stated about which core, the
attachment beside this one, which a holder may attach, edit, spoil or strip, and the
checks, the level and the labels in the code's order. A `location.level` that is none of
the known words counts as declared, as in the code.

**`CommandLine`** is one run of `vcap-verify`: one action per step of `run` (`Parse`,
`ReadLogs`, `ReadTsa`, `ReadChains`, `ReadWatermark`, a `Judge` per file, whose result is a verdict or the error that reading
or judging it threw, `Finish`) and
`Extract`, each of which may end it with a code.

**`Readings`** puts `Watermark`, `Location` and `CommandLine` in one module. They share
no state, so a behaviour follows one of them. **`ReadingsProofs`** holds their theorems.

The `MC` modules give the small worlds of the runs. `Verdict` is extended by `Custody`,
`Custody` by `CustodyProofs` and `MCCustody`; `Page` instantiates `Answers`, `ChainReader`
instantiates `Lookup`. Otherwise modules meet through a verdict: the media's state in
`Verdict` stands for what `Segments` computes, `Judge` in `Carriers` for the outcome of
either, an anchor that is `good` or `unrecorded` in `Verdict` for what `ChainReader`
found, and `Page` takes what is said of a file as given. The outcome and the ceiling are
computed from separate parts of a proof, and no module composes them.

## The runs

| Run | What it shows | Bounds and why they are enough |
|---|---|---|
| `custody_green` | Green is dated by a witness between the signature and the reading; a token's key was logged before it; only Android can have it; nothing that explains an amber light stands beside it, and an amber light says what caps it; a lost condition never gives it, nor an expiry takes it back | One log, four instants: a signature, a token, a block and a tree head can fall in any order, and the chain (2) and the TSA (3) expire inside. `PlainOrAtOnce` (`BoundedSpec`) follows a plain Android capture through all instants and every other kind of file in the first one, where no order matters |
| `custody_revocation` | The red light falls on every capture a revocation reaches and on no other | Key ends at each instant, retroactive or not; chain revoked with and without a date, for a compromise or not; three instants put each before, at and after the capture, and the last is past the chain's expiry |
| `custody_logs` | One log alone carries a green light | Two logs, every set of them trusted, either answering: a third adds no new relation |
| `custody_strip` | Deleting a snapshot that says revoked, after the chain expired, turns red into green | two instants |
| `merkle_claims` | Exactly RFC 6962's proofs are accepted | Honest proofs up to 20 leaves cover every shape of right edge of four levels; forged ones up to 4 leaves and 3 nodes, all paths over the hashes there are |
| `segments_clip` | A received file called a verified clip is signed segments of this recording, in signed order, with the signed timing and presentation; frames that are not signed are accused and a mere cut never is; a credit is for frames that are there; the original stands whatever a reader can recompute | Three segments: one with no predecessor, one between two, one last, so every gap, order and repetition of neighbours occurs; cuts are free, and two other changes are what it takes to alter a group and the entry it is held against; two timing records, one shared by two segments |
| `carriers_copies` | A genuine file beside its sidecar stays authentic; a sidecar gains only what deleting a carrier would give; every copy that differs is told; a capture's proof does not accuse what was made from it; a sidecar copy does not displace the file's; `replaceTrailer` leaves the outcome alone | Six payloads: the capture's own, stripped and re-serialised, another capture's, one that is not JSON, one whose reading throws; at most two trailers and two stores, which is all the code tells apart; proofs up to two parents up, past an unreadable manifest and round a cycle; three changes, for a trailer, a store and the content |
| `page_answers` | The page implements `Answers` and its newest check gets an answer unless it waits for the detector itself; readings are by the model in use, verdicts under the trust in use, one load per source | Two checks, one overtaking the other at any wait; two downloads, one for each, and the one drop whose bytes are still read; a detection file, a good model and an unreadable one (`OneSupplied`: not both in a drop), the chain's switch, and a trust set that is still loading |
| `page_mark` | The mark panel of an overtaken check lands in the newer file's output | three checks |
| `consultation` | A read of an anchor is one step of `Lookup`, ends, calls no genuine anchor missing and asks nobody unasked; additions never undo a switch nor come half; a change is told | Three endpoints, the first really of another chain: one that is refused, one that fails or lags, one that is left. Two additions under way is what it takes for one to resolve into what the other changed. The panels and the reader do not look at one another but for the chains that are on, so `OneOfThree` works on one at a time |
| `release` | What verifies is what was signed; the log has one manifest per commit however signings are cut short; an open page, its detector and its cache are of one build | Two builds of one commit, one of the next and one of a dirty checkout; two keys; two lines; one file changed by hand; two deployments, so that an install, an activation and a sweep each meet one. `OneOfTwo` keeps the key holder's steps and a visit apart |
| `readings` | A photo with at most T wrong bits gives its id and one with more none or a codeword's; a clip's match or contradiction is carried by the pixels, and a thinner report says no more; a position is corroborated by a log's word about this core; the exit code answers for every file named | BCH(15,5) with T = 3, shortened by two, and every pattern up to four wrong bits: at the limit, one beyond it, and places outside the word. Twelve places in a clip's block, of which the floor forgives one; two frames. Two logs, one statement. Command lines that differ in kind, up to three files |

Deadlock is not checked: a page with nothing to do waits for its reader, a bounded
clock stops, and a call that returned is over. `MaxTime`, `MaxChecks`, `MaxLoads`,
`MaxTakes`, `MaxEdits`, `MaxSize`, `ForgedSize`, `ForgedPath`, `MaxAdds`, `MaxLog`,
`MaxTouches`, `MaxDeploys` and `MaxErrors` are the bounds; `MaxDepth` is the code's own
`MAX_CHAIN_DEPTH`, smaller here, as are the sizes of both watermark codes (the source has
BCH(252,128) with T = 18 and eight copies of 24 + 8 bits).

Every passing property has a mutant next to the definition it breaks (comments that
start with *Fault*): a plausible bug of that code under which the property fails.

### Fairness

`page_answers` and `consultation` use it. On the page only a check's own steps are weakly
fair (`OwnStep`): reading the file at hand, the core, and what follows once the detector
it waits for is here or has failed. The core's one call to a network, the chain
reader's, is under a timeout (trust.ts:286). Nothing is assumed of a download, a detection or
a pick: neither the detector's requests (detector.ts:65, 106) nor the media events
it awaits (detector-runtime.ts:126-136) are under one, so each may hang for ever.
What is left to promise is `NewestIsAnswered`: the newest check is answered, or it is
itself waiting for such a download or detection and the signature's card stands
meanwhile. A hanging load of a replaced model, an older check's detection or a
failure that nobody hears of must not hold it up; the mutant loses such a failure. Weak fairness
is enough because nothing but a step of the check itself takes it from where it stands.
The reader owes nothing, and neither do frames (`FrameRead`).

Of the chain reader's endpoints nothing is assumed either, not even an answer: only what
arrives is looked at (`Got`) and the transport's timer fires (`TimeOut`, trust.ts:286),
both weakly fair. `ReadsEnd` stands on the timer alone, and its mutant takes it away.

### What the code does not hold

Two runs end in a violation on purpose; PROJECT.json quotes the line each one
disagrees with. More was met while modelling and has no run. In the core:

- a capture dated by an anchor alone may be green although its key entered the log after
  that block: a tree head is compared with a token and with the device's clock, never
  with the block (verify.ts:573; core/README.md:176 says "the key in the log before the
  capture");
- a stamped file read without TSA roots may be amber with nothing from `ceilingLabels` to
  explain it (ceiling.ts:65), although core/README.md:182 promises labels, and so may a file
  whose `registry` or `timestamp` is of another JSON type, which `judge` skips in silence;
  `LightIsExplained` excepts these two (`PassedOver`) and no other;
- samples before a track's first IDR belong to no segment and are compared with
  nothing (container.ts:557, which says that the specification leaves them open);
  `Segments` has no such samples;
- the online list's silence about an expired chain reads as *clear* (android.ts:162;
  `custody_strip` uses it);
- an endpoint that lags, and reverts or answers with a zero root for an anchor the next
  one holds, decides (chain.ts:94); `GenuineAnchorIsNeverMissing` therefore speaks of
  anchors every endpoint knew when the read began;
- a declared `mark_id` outside 24 bits can be contradicted and never matched (verify.ts:465).

On the page:

- a file dropped before the shipped trust set is parsed keeps a verdict computed with no
  log (main.ts:516; main.ts:511-512 calls it "the thing this page must not produce");
  `AnswersUnderTrustInUse` exempts it;
- of two models picked one after the other the one hashed last is used, and a reset
  pressed while a model is hashed is undone when the hash is in (`Hashed`; main.ts:445);
- a file dropped together with a model that cannot be read is held but never
  checked, because `take` awaits `useModel`, which rejects (`HashFails`; main.ts:496);
- the status line and its note belong to every check: a frame read for an abandoned one
  leaves the line at work after the newest verdict is in (`FrameRead`; main.ts:254), and a
  load that fails for it rewrites the note (`LoadFails`; main.ts:186);
- adding a log that is there but switched off changes nothing and says it is now trusted
  (trust.ts:51); an authority whose fingerprint a document spells in capitals gets a
  second row, which brings it back (trust.ts:169; the exception in `OffStaysOff`);
- a read under way goes on when its chain is switched off.

In builds and their delivery:

- `sign-build` writes `hashes.json.sig` before it looks for a clash in the log
  (sign-build.mjs:88, 104), so a refused second manifest is left signed;
- after a rotation a logged manifest signed again gets a second line, and
  `verify-build` and the mirror take the first, by the old key; `Continuity` speaks of one
  key; a mirror does not compare its files with its manifest;
- an install that spans a deployment keeps files of two builds under one id (sw.ts:34),
  and a worker that takes over between two files of a visit answers the second from
  another build (sw.ts:38, 47): `mixed` and `steady` record both;
- an activation's sweep may delete the cache a newer worker is filling (sw.ts:44-46):
  `swept` records it.

On the command line:

- a `--tsa-root` file that is missing exits 70, an internal error, where main.ts:89-92
  means such mistakes to be the caller's; so does `extract --show-trust` without a file;
- `extract` of a proof that is not text fails, and with `--json` prints a null and
  succeeds;
- it asks no log about a key, so none of its verdicts is green (options.ts:96-100) and
  `--require-green` always exits 2 at best.

## The proofs

Eight modules hold theorems. Each theorem is about the specification the runs check,
for every value of its constants that its module's assumptions allow; TLC evaluates the
assumptions in the runs.

### A verdict: `CustodyProofs`

| Theorem | Says |
|---|---|
| `TypeCorrect` | `TypeOK` |
| `GreenIsDatedByWitnesses` | a green light's instant lies between the signature and the reading |
| `GreenKeysPrecedeTokens` | under a token, the key was in its log before |
| `RevokedKeysAreRed` | a core signed with a key already revoked is red to whom that log answers |
| `OneLogCarriesGreen` | one log vouches for everything under a green light |
| `IosStaysAmber` | no iOS capture is green |
| `LossNeverGreens` | no loss of a condition makes a file green |
| `GreenOutlives` | the clock never takes a green light back |
| `LightsExplainThemselves` | nothing `ceiling.ts` would print beside an amber light stands beside a green one (`GreenExplainsItself`); every label that caps a light is printed beside an amber one, and on an authentic file there is one, `PassedOver` aside (`AmberExplainsItself`) |
| `RedIsExact` | red falls on every capture a revocation reaches and on no other |

Assumptions: `InstantAssumption` (no `None` among instants, no `NoLog` among logs) and
`CustodyAssumption` (what the constants are). A verdict depends on instants written into
the file by different parties, so no property about it is inductive alone. `WitnessInv`
adds to `TypeOK` what each witness can only have done: a log's dates are past
(`LogsDated`), a token and a block are minted between the signature and now (`TokenDated`,
`AnchorDated`), a tree head is no older than the key's admission (`HeadDated`). `PutInv`
shows once that a well-formed attachment keeps it, and each action reduces to it. From
there `GreenMeans` unfolds a green light once, and each theorem reads one fact off it.
`GreenExplainsItself` and `AmberExplainsItself` hold the list of `verify.ts` and that of
`ceiling.ts` against one another, in both directions.
`GreenOutlives` compares two readings of one proof at two clocks: they agree on all labels
that hold a ceiling once a witness dates the capture and no token is ahead
of either clock (`ClockIndependent`, `NotAhead`), and the only
thing the clock changes is that the status list falls silent (`ListFadesOnly`), which can
turn *revoked* into *clear* and nothing worse. `RedIsExact` needs one fact more, `RedInv`:
a snapshot that says *revoked* says what the list said and still says (`SnapshotTold`),
since a list never takes an entry back. Without it a red light could rest on a reason and
a date nobody ever gave.

### A video: `SegmentsProofs`

| Theorem | Says |
|---|---|
| `TypeCorrect` | `TypeOK` |
| `ClipsAreOfTheRecording` | a verified clip is signed segments in signed order, shown and timed as signed |
| `ForeignFramesAreAccused` | frames that are not the signed ones are tampering once a group names the capture |
| `EveryCreditIsEarned` | a credited segment's own frames are in the file, named once |
| `CutsAreNotAccused` | a file that was only cut is never called tampered |
| `TheOriginalStands` | the file the device wrote is accused of nothing, whatever of it a reader can recompute |

The assumption is `SegmentsAssumption`. For the first four `TypeOK` is invariant enough:
the verdict is computed from what the file and the entries are now. If the container
accuses nobody every group is credited under an index of its own, and indices rise along
the file (`AllCredited`); an entry the walk reached carries the message the device signed
for that index (`VerifiedEntry`); so a group that is not contradicted shows exactly the
segment it names (`EveryGopIsSigned`), and the comparisons of timing and presentation
that guard a clip finish the argument. The last two are about the past: `RecordInv` says
that the device signed one timing record for each segment and that a file nobody touched
is what it wrote.

### Carriers: `CarriersProofs`

| Theorem | Says |
|---|---|
| `FilesKeepTheirParts` | `FileInv` |
| `DifferencesAreTold` | a verdict that stands on one copy tells of every other that differs |
| `DerivedFilesAreNotAccused` | a capture's proof does not accuse what was made from it |
| `CopiesDoNoHarm` | a genuine file beside its own sidecar stands, and so does the copy it carries |
| `ReplacingIsSafe` | `replaceTrailer` never changes what is said of the content |
| `SidecarsGainNothing` | a sidecar gains only what deleting a carrier would |

The assumption is `CarriersAssumption`. `FileInv` is small: a trailer that can be read
holds a payload, and a file's stores are stores. The work is in the verdict. The chain of
parents is a recursive function of depth, and what it holds is shown by its least
counterexample (`ChainIs`, `ChainStays`), so a search gives the payload of a manifest of
that store at that depth (`SearchGives`). `Verify` is then taken apart into who is judged:
the lemmas named `Over...` and `...Beside` say, for each carrier that may stand first and
each rival, what the verdict is, and `Settles` and `Outranked` rank the two. From there
each theorem compares two verdicts: a proof judged over the same content says the same
whatever is beside it (`ReadsAsHigh`, `StoresWeighNothing`), and a sealed store, which
holds no proof, changes nothing (`SealedHoldsNoProof`).

### The page: `PageProofs`

| Theorem | Says |
|---|---|
| `Inductive` | `IInv` |
| `PageIsWellFormed` | the state is of its type, and no two downloads of one source compete |
| `ReadingsAreByTheModelInUse` | a reading shown for the newest check is by the model in use |
| `AnswersAreUnderTrustInUse` | and a verdict is under the trust in use, the shipped set's arrival aside |
| `PageImplementsAnswers` | the page is an `Answers`: one question, a signature, one answer that stands |

The assumption is `PageAssumption`. Every handler resumes after an `await` in a page that
may have moved on, and what lets it be reasoned about is that the page remembers its
work by two numbers, `generation` and `source`. `IInv` says of each what a late
continuation can rely on: loads of the current source are one, and of the model in use
(`LoadsInv`); a check waits for something that is there (`CheckInv`); what the output holds
while the newest check is where it is (`OutInv`, `Stands`); and that check and the cards
shown are under the trust in use (`TrustInv`). `ReadByTheModelInUse` is inductive only
beside the second clause of `LoadsInv`: a detector that arrives is of the current source.
For the refinement, `Shown` is read off the one card there is and the question off
`generation`; a reader's step that asks maps to `Ask`, `Judged` to the signature or the
answer, the end of a check to the answer, and everything an older check does to a
stutter.

### The trust panels and the chain reader: `ConsultationProofs`

| Theorem | Says |
|---|---|
| `TypeCorrect` | `TypeOK`: a read stays inside its chain's list |
| `GenuineAnchors` | an anchor all of its chain's endpoints knew is never missing, nor different |
| `ReadsAreLookups` | every behaviour is one of `Lookup` under the mapping `Seen` |
| `GenuineAnchorsOnThePage`, `PageReadsAreLookups` | so on the page, while switches are thrown |
| `OnlyTheAllowedAreAsked` | nobody is asked about an anchor whose chain the reader did not switch on |
| `ChangesAreTold` | a trust that is not the shipped one is called so |
| `AdditionsHonest` | no addition puts on what was switched off, and none comes half |

Assumptions: `ChainAssumption`, that a chain's list is not empty, as `parseChainsDocument`
demands, and `PanelAssumption`. The reader's `IInv` adds to `TypeOK` that an id is written
once and an endpoint knows nothing its chain does not hold, that a reply is what the
endpoint asked could have computed, that a second call is only made of an endpoint that
named the right chain, and that while a read is `settled` its endpoints still know the
claim. Without the third, what a foreign chain holds under the id could be concluded;
without the fourth, an endpoint could forget. For the refinement the world's steps map to
`Lookup`'s or to stutters, `Begin` to `Begin`, and every way a read ends to `End`; moving to
the next endpoint is a stutter. On the page a read begins only with the chains that are
on, which restricts `Begin` and nothing else, so the reader's lemmas carry over. Of the
panels `PanelInv` says that nothing is added before the shipped set is read
(`AfterShipped`) and that the rows called shipped are the shipped document's
(`ShippedRows`): additions that resolve in another order than they were made cannot break
either, because each looks at the rows there are when it resolves. `Consented` says that a
chain that is on was switched on.

### Builds and the offline page: `ReleaseProofs`

| Theorem | Says |
|---|---|
| `Inductive` | `IInv`: the invariant of both sides |
| `LogIsARecord` | `Continuity` |
| `AcceptedIsSigned` | `AcceptedIsWhatWasSigned` |
| `OfflineStaysWhole` | `OfflineIsWhole` |
| `PagesAreOfOneBuild` | `PageIsOfOneBuild` |

Assumptions: `DistAssumption`, `PublishAssumption` and `OfflineAssumption`, that `None` is
none of the values it stands beside and that names are where they belong. `IInv` is
`PublishInv /\ OfflineInv`. On the key holder's side, what was signed was in order when it
was (`SignedInOrder`), every signature is by a key that was published (`KeysHeld`), a line
is appended only beside no other manifest of its commit (`OnePerCommit`), and a copy's
signature is about its own manifest unless somebody changed a file (`CopiesInOrder`). On
the reader's side, the cache being filled holds what is no longer `left` and is never the
active worker's (`Installs`), the active worker's is whole (`Serves`) and not among those
being deleted (`Sweeps`), and `Visits` says where each file of the page came from. The
strengthening is in the clauses about what is unfinished: whole caches and pages are kept
only because an install of the active build cannot run beside it, and because what
is put up is whole (`PutUpKeeps`, the one step in which the two sides meet).

### Readings: `ReadingsProofs`

| Theorem | Says |
|---|---|
| `LocationsAreEarned` | a position is worth what a followed log said of this core |
| `ExitCodesAreHonest` | the exit code answers for every file named |
| `MarksAreEarned` | `ReadingIsEarned`: a match, a contradiction and an id on the progress line are carried by the pixels, and a thinner report says no more |
| `PhotosAreNotMisread` | an id read from a photo is that of a codeword within T places of the bits read |
| `PhotosAreReadRight` | `PhotoIsReadRight`: up to T errors are found and undone; beyond T there is no id, or that of a codeword so near |

Assumptions: `CommandAssumption`; `ClipAssumption` and `EmbeddedAssumption`, the sizes of
the codes, a checksum's polynomial of bits and that writers embed codewords;
`FieldAssumption`, that the polynomial is primitive: every element but zero is one power
of alpha, as with the code's 0x11d, and the shortened word has no more places than alpha
has powers (TLC evaluates it for the field of the runs);
`WatermarkAssumption`, that the model says a number for each place of a frame. A position
rests on there being one statement to hand around (`OneStatement`). `IToolInv` says of each
step of `run` what the steps before it have settled. `MarkInv` says that the frames stay
what they were once there is a report, and that a report is what was read or that
without one member (`Lessened`); what the core makes of it is then one case distinction
(`ResultIs`). That a vote names the id every copy agrees on is a fact about folds: the
library's fold is a fixed point chosen among those of its equation, so `FoldExists` builds
one, and a statement about all of them is shown of a smallest set where it would fail
(`SmallestOf`, `SumSigns`). `PhotosAreNotMisread` does not look at the search for the
locator at all: whatever it comes to, `Correct` flips at most T places and keeps only a
codeword.

That the search succeeds up to T errors is the theory of BCH codes, from the field's laws
up. `EXP`, `LOG`, `Mul` and `Div` make a field (`MulIs`), which rests on `FieldAssumption`
and on `TimesX` being linear. Sums over finite sets add, scale, move and swap (`SumLaw` to
`SumSwap`). Two facts of algebra follow: a polynomial has no more roots than its degree
(`FewRoots`), and weights whose first power sums vanish, as many as there are weights, are
zero (`WeightsVanish`). The syndromes are the power sums of the places that were read wrong
(`SyndromesAre`), and what a recurrence makes of them is a power sum too, weighted with the
value of its polynomial turned round (`DevIsMoment`).

The invariant of a turn is Massey's, in `LocatorOK`: the recurrence explains every syndrome
taken in, which is `Recurs`, and the one from before the last lengthening explains all of
its own but the last, where it was `last` off. The second half is not in any property and
nothing is inductive without it: it is what makes the corrected recurrence right at the new
syndrome and leaves the old ones as they were (`UpdatedRecurs`, `LocatorKept`). Beside it
`DecodeInv` says that the length never passes the number of errors: a recurrence right for
as many syndromes as there are errors has no weights left, so its next discrepancy is zero
and it is not lengthened (`LongEnough`, `LengthKept`). After the last turn, with at most T
errors, the weights of the final recurrence vanish for the same reason: every error's place
mirrors a root (`RootIs`), the degree leaves room for no others, and `Places` is the set of
errors (`ErrorsAreFound`). A word taken for clean is the codeword that was sent, by the same
vanishing (`CleanIsRight`).

### Merkle trees: `MerkleProofs`

| Theorem | Says |
|---|---|
| `Inductive` | `IInv`: what the counters and the hashes of a walk are at every step of it |
| `OnlyHonestClaimsPass` | an accepted path is the one RFC 6962 defines, and the hash is the log's own |
| `HonestLogsAlwaysPass` | what RFC 6962 defines is accepted |

The one assumption is `MerkleAssumption`, that the sizes are numbers; what is claimed may
be of a log of any size, at any index, with any path. Both walks are the same climb. On
the level of the nodes over `w` leaves, `w` a power of two, node `j` spans the leaves from
`j * w`, cut at the log's end, and the way to a node is the path still to be read when the root of the
tree is reached from it. `Standing` says, while a walk is on: `fn` and `sn` are this node
and the last of its level; as many nodes were read as the way to it is long; what is hashed
in `new` is its root exactly when the given hash and the path so far are right, and in that
case `old` is the root of what the older tree has of it. Nothing weaker is inductive. That
`new` is right only when the path was decides what is accepted, the converse what an honest
log gets, and both need the lengths, since a path that goes on above the root or stops
short of it must be refused although every hash in it is right. A step rises from a left
child, from a right child, or through levels where the last node has no sibling
(`StandsAfterLeft`, `StandsAfterRight`, `StandsAfterAlone`); the inner loop skips those
levels at once (`ClimbStands`, `AboveLands`).

The definitions in `Merkle` are recursive functions, and that they have the values their
equations say is itself proved: a loop ends because it lowers a rank (`LoopExists`), and
what holds of every number holds of its least counterexample (`NoDescent`). `Split` is the
largest power of two by the code's own test for one (`SplitIs`).

### Only model-checked

Liveness (`NewestIsAnswered`, `ReadsEnd`), because the prover has neither fairness nor
ENABLED. Induction over data by the library's theorems is out of reach too, since they take
an operator; where a proof needs one it goes by a least counterexample instead, or by a set
of numbers that holds zero and the successor of each of its members (`Induct`).

## What is not modelled, and why

Bytes: containers, CBOR, JUMBF, ASN.1, X.509, JCS, CMS and the signatures are one
bit each in an attachment's `is`, in a manifest's `kind` or in how a payload `reads`.
The ISO parser and the arithmetic of a timing record: `Segments` starts from located
groups and compares records for equality. Pixels: what the
model says of a frame is given, its decoding is not. Wording and layout: rendering prints
a verdict already computed. Of the option parser only what decides between paths of the
program; of a trust document only what refuses it. The progress and the phases of a
model's download; the build of the detector and its engine; `hashes.json` and `HASHES.md`
in the cache; an upload that is seen half-way. In `TrustPanel` an input field that is
wiped after its line was added.

## Plan

Written, in the order of what matters most: `Verdict` and `Custody`, `Page` against
`Answers`, `Merkle`, `Segments`, `Carriers`; then the chain reader against `Lookup` with
the trust panels, publication and the offline page, the watermark, the location and the
command line. Proved: every safety property the runs check. Next:

1. `Timing`: the arithmetic of a timing record as a pure module: rounding between
   timescales, zero and the width of its fields.
2. The phases of `loadDetector`, and the detector's download with a host that stalls.
