# A verification of the resource tools of the Android rules

The repository holds the Android rules of Bazel: Starlark code that describes
build actions, and programs that those actions run. The largest is `ak`
(`src/src/tools/ak`), a Go binary with a command for each kind of action. The Starlark
code is evaluated by one thread and is deterministic; concurrency, channels,
failing I/O and cancellation are all in `ak`. So this directory models `ak` first,
and of the rules what has a property worth stating: TLA+ modules, TLC configurations
that check small instances of them, and theorems that TLAPS proves for all instances.

## 1. The system

### Components of `ak`

| component | state it keeps | operations | what is hard | correct means |
| --- | --- | --- | --- | --- |
| dispatcher `ak.go` | the chosen command | `main`, `runCmd` | – | one command runs and ends |
| merged streams, `res/respipe/streams.go`, `bucketize/pipe.go` | one forwarder per input, a WaitGroup, the output channel | six merge functions, `SendRes`, `SendErr` | closing the output, cancellation | everything arrives once and in order; no send on a closed channel; no goroutine left behind |
| emitters and resource IO, `res/respipe/path_emitter.go`, `res_io.go` | channels | `EmitPathInfos…`, `Produce`, `Consume` | a reader that stops early | everything passes, errors surface |
| `bucketize`: `Archiver.Archive` | four channels, a context, three merged streams | separator, `numParsers` parsers, the select loop | four channels close in any order; the first error cancels the rest | success means everything was collected; an error always surfaces; it returns |
| `bucketize`: partition session | maps of paths, values and attributes; the open archives | three `Collect…`, `Close` | order of maps; any call fails halfway | archives are deterministic, complete or cut off at a known place |
| `bucketize`: shadow encoder and `xml2.Encoder` | prefixes in both directions, a stack of undo records | `EncodeToken`, `ChildEncoder` | start tags whose end tags are never seen; hidden prefixes | a prefix in a payload means what it meant in the source, for a URI of one prefix; no good file is refused |
| `liteparse`: `ParseAll`, `ParseAllContents` | dispatcher, parsers, two merged streams, two readers | `ResParse`, `processResAndErr` | success and error race in a select | all resources or the first error |
| `liteparse`: the parsers of one file | nested `ForwardChildren` goroutines, counts of open tags | `StreamDoc`, `valuesParse`, `parseStyleableChildren`, `parseAttrChildren`, `nonValuesParse` | two goroutines on one channel, a level that is not drained | what is sent is what the document says |
| `res` | none | names, paths, types | – | pure functions |
| `finalrjar` | lines grouped by type, R classes | one scanner per R.txt, the writer, the compiler | lines arrive in any order | one field for each type and ID |
| `generatemanifest` | a buffered channel, a WaitGroup | one goroutine per manifest | results are read after the wait | the maximum is written |
| `dex`, `shard.ZipShard` | outputs | desugar, d8, shard | deferred closes | every class in one shard, next to its inner classes |
| `extractaar` | groups of files, outputs | validate, copy, placeholders | order of a map | all or nothing, no empty directory |
| `repack` | the names seen, two outputs | pack | one set for both outputs | the first of a name wins |
| `rjar`, `nativelib`, `shellapk` | the archives they write | one sequence of calls each | colliding names, ignored errors | every entry that was asked for is there; of libraries whose names collide, all entries are the one copied last |
| `patch`, `manifest` | the attributes to set | `CreatePatchElements`, the patch of a document, one output for each split | a map that is changed from output to output | each output has what was asked for its elements, but for `<manifest>` (findings) |
| `compile`, `link`, `mindex` | directories, arguments | rename, aapt2 | order of archives; a rename onto a directory that is there | aapt2 sees every file |
| zip, walk, flag files, ini (`src/src/common/golang`) | a map of flags | `flagFile.Set`, zip helpers | order of a map | each flag has the value that was given |

Outside of `ak`: `jdeps` (a function of one protocol buffer),
`enforce_min_sdk_floor.py` and `merge_feature_manifests.py` (functions of
manifests), the Starlark rules (`src/rules`) with the processing pipeline and the
merge of resource providers, the mobile-install aspect (`src/mobile_install`),
toolchains, examples and CI scripts. Section 8 says what of them is not modelled.

### How the components interact

`ak` runs one command, so commands share no state at run time. Within a command the
goroutines talk through unbuffered channels and one context.

* `bucketize` walks the resource directories; the separator sends values files to
  the parsers and the other paths to `archive`; parsers send values, attributes and
  errors, each kind through a merged stream, to `archive`, which calls the three
  `Collect…` methods of the partitioner and at the end its `Close`.
* A parser reads its file with a decoder, gives the tags of the top level to the
  shadow encoder, and copies each resource with a child encoder of it.
* `liteparse` uses the merged streams of `respipe`, not those of `bucketize`; each
  of its parsers runs the pipeline of `resxml` for one file at a time.
* The other commands work on files that other actions wrote: `compile` on what
  `bucketize` packed, `link` on what `compile` made, `rjar` on what `link` made,
  `shellapk` on that of `dex` and `nativelib`.
* The rules run their processors one after the other; each returns a context that
  later ones take by name. The minimal SDK version of a manifest is such a context.

PROJECT.json lists every component with its status, and every hazard with the line
where it bites and the properties that watch it.

## 2. The modules

| module | models | state and actions |
| --- | --- | --- |
| `FanIn` | the goroutines of each of the six merge functions | forwarders (`fwd`, `held`), closer (`outClosed`); `Take`, `Hand`, `GiveUp`, `Finish`, `CloseOut` are the steps of the loop and of the `WaitGroup` |
| `MergedStream` | nothing of the code: what a merge promises its reader | `Deliver`, `End`, `Cancel` |
| `ValuesDoc` | `syncParse`, `syncParseReader`, `parseRes` as a function | from a document to what its parser sends, in order |
| `Bucketize` | `Archiver.Archive` and all its goroutines | three instances of `FanIn`; one action per send, receive, close and cancellation; the three `Collect…` methods of the session are operators on maps, which are functions on the keys present |
| `PartitionClose` | `PartitionSession.Close` | `flushCollectedPaths`, `flushCollectedVals`, the closes; each call on a file or archive has a failing twin |
| `ShadowEncoder` | the prefix state of `xml2.Encoder`, and how `bucketize` uses two encoders | `setUpState`, `tearDownState`, `translateName`, `ChildEncoder` as operators; a document, tag by tag: `Resources`, `SkipTag`, `ExtractElement`, `CopyStart`, `CopyEnd`, `StyleableChild`, `EndOf` |
| `Liteparse` | `ParseAll` and `ParseAllContents` | two instances of `FanIn`; dispatcher, parsers, readers, `Return` is the select |
| `ValuesParse` | the pipeline of one file | `StreamDoc`, one `ForwardChildren` for each level, `Parse` |
| `PathEmitter` | `EmitPathInfosDirs`: the walks and their two merged streams | two instances of `FanIn`; `SendInfo`, `SendBadPath`, `Cancelled`, `WalkFails`, … are the outcomes of `emit` for a visit |
| `ResIO` | `Produce` and `Consume`, one into the other or fed by a caller | each read, write, flush and send, with its failure and its cancellation |
| `Respipe` | the package: a merged stream between senders and a reader, `PathEmitter` and `ResIO` | `SendRes`, `SendCancelled`, `CloseIn`, `Receive`, `RangeEnds`, `ReturnEarly`, `CallerCancels`; one of the three parts runs |
| `ResPath`, `ResName` | `ParsePath`; `ParseName`, `String` and the names for Java | operators on tokens |
| `FinalRJar`, `GenerateManifest`, `Dex`, `ExtractAar`, `Repack`, `RJar`, `NativeLib`, `ShellApk`, `PatchCmd`, `ManifestCmd`, `Compile`, `Link`, `BucketizeCmd` | one command each | one action per call that changes a file, a map or a channel, and its failure |
| `ZipUtils`, `ManifestUtils` | what several commands share | operators |
| `FlagFile` | `flagFile.Set` and `parseFlags` | a line, or a flag of the map, at a time |
| `Ak` | `main` and `runCmd` | instances of the commands and of `PartitionClose`; `runCmd` chooses one |
| `MinSdk` | `enforce_min_sdk_floor.py` and the functions of `resources.bzl` that run it | operators |
| `Pipeline` | `processing_pipeline.bzl`, and the pipelines of `android_library` and `android_binary` | operators |

The modules `MC…` give constants to those modules; `MCAk` also has what is checked of
`MinSdk` and `Pipeline`. The theorems are in `RespipeProofs`, `BucketizeProofs`,
`LiteparseProofs`, `ShadowEncoderProofs`, and for `Ak` in three modules: `AkProofs`
(`generatemanifest`, `repack`, `dex`, `nativelib` and flag files), `AkPackageProofs`
(`finalrjar`, `extractaar`, `rjar` and the session of `bucketize`) and `AkApkProofs`
(`compile`, `link`, `manifest`, `patch`, `shellapk`, the minimal SDK version, and the types of
all commands).
`Recursion` has the lemmas on induction and on sequences that they cite.

In `Ak`, the command `bucketize` is the parsing of its flags and paths
(`BucketizeCmd`), and then `PartitionClose` with what `Archive` may have collected;
`Bucketize` is `Archive` between the two. The three are checked apart, since the
interleavings inside `Archive` end before `Close` begins.

### Conventions

* A channel without a buffer passes an element in one step of both sides. `FanIn`
  has the forwarder's half; the module that instantiates it conjoins the other half.
  That is sound because neither side can do anything else in between.
* The deferred closes of one goroutine are one step, as nobody can tell them apart:
  each closed channel is read by one goroutine, which reacts in a step of its own.
* Names, payloads and paths are numbers or model values. What the code compares of
  them is kept: the length and the body of a payload (`CollectValues` keeps the
  longer one), a dot at the start of a name, the extension, the order of paths.
* A map that the code ranges over is a set from which any key is taken next.
* A call on a file that may fail is two actions, the call and its failure; `ioFails`
  in a call says whether the second may be taken.
* `log.Fatal` ends the process: a phase or result of its own (`"fatal"`, `"panic"`).
* Hashes are parameters (`Shard`, `FNV`), since the properties do not depend on them.

## 3. The runs

All bounds are in the `MC` modules or the cfg files.

| run | instance | shows | states |
| --- | --- | --- | --- |
| `respipe` | three inputs with two, two and no elements; two directories with a file of every outcome; nine inputs that fail at every place of the pipe | the merge implements `MergedStream` and never sends on its closed output; the walks emit each file once and in order; what is written is a beginning of the input; everything ends but for one case | 15 thousand |
| `bucketize_clean` | two parsers, two values files and a drawable, no error | success means everything was received; each name has its longest payload; attributes are in order; all goroutines end | 9 thousand |
| `bucketize_faulty` | two parsers, a file with an error inside a styleable, a caller that may cancel | an error always surfaces; only the send of an attribute can hang | 128 thousand |
| `liteparse` | five calls | each resource once and in the order of its file; the call ends | 147 thousand |
| `liteparse_lost_error` | a file that is cut off | **violated**: see findings | |
| `liteparse_pairing` | contents in memory, a dot file first | **violated**: see findings | |
| `values_parse` | six documents, cancellation at any time | the pipeline sends what the document says, up to its first error, which is sent; it ends, or panics behind that error | 125 thousand |
| `values_parse_two_readers` | one document with a bad `<enum>` | **violated**: see findings | |
| `shadow_encoder` | all documents within the bounds | names of a URI with one prefix resolve; a good file is refused only behind a tag whose own name has a prefix; a payload leaves its encoder as it found it | 393 thousand |
| `shadow_encoder_outside` | the same, with prefixes that are not bound | **violated**: see findings | |
| `ak` | calls that reach each branch of the thirteen commands and of flag files, and six sessions of a partitioner | outputs are complete and independent of order, archives cut off at most in the last entry; every command ends | 23 thousand |
| `patch_lost_attr` | the same | **violated**: see findings | |

### Why the bounds are enough

* *Merged streams.* Two inputs with two elements race for the output and can
  overtake each other; the third shows a forwarder that never holds an element. The
  theorems cover every number of inputs and elements.
* *Bucketize.* The code starts `numParsers` parsers (25 by default). Two can hold one
  element on each stream at the same time, and one can be finished while the other
  sends. One name occurs twice with two lengths in a file, once more in another file
  with a different payload, and one resource has a type without an archive. The error
  of the faulty run is in a styleable of a styleable, the deepest place it can come from. Theorems
  cover the rest, except for `Ends`.
* *Liteparse.* The five calls are: a dot file; two errors in one file, of which only
  the first is read, with a path that is no resource name and a file that may not
  open; more files than parsers with a cancellation; nothing to parse with a
  cancellation; a file of four bytes. Two parsers and the dispatcher are all the
  kinds of senders. Theorems cover every other call, except for `Ends`.
* *Values.* `CleanDoc` has a string in a string (which the count of open tags is for), an
  unknown tag with a string in it, an `<attr>` with an `<enum>`, and a second `<resources>`.
  `StyleableDoc` has a styleable with attributes of three kinds; `TornDoc` is that document cut
  off at the deepest level. `BadEnumDoc` has a bad `<enum>` in a styleable and more behind it,
  in the same and in another styleable. In `BadAttrDoc` a bad attribute of the styleable follows
  it: the process panics there, unless the goroutine left over by the bad `<enum>` takes the
  attribute. `IdsDoc` is a layout whose events outnumber the buffer.
* *Respipe.* The directories have dot files, files of no resource type, bad densities and
  an error in the middle of a walk, in one directory and in the next. The buffer of the
  writer is full within a record, and a write fails at every place. Theorems cover every
  tree and every input, except for `AllEnds`.
* *Partition.* The sessions have two drawables of one declared directory, a values
  file of another, a file that was not declared, a dot file, a name that is refused,
  and a sharder that returns a shard one or two too high. Theorems cover every session.
* *Encoder.* `MaxTags` 2, `MaxDepth` 3 and `MaxChildren` 1 with three URIs on three
  prefixes. Two URIs share a prefix and one of them has a second: a tag can hide the prefix of
  `<resources>`, or declare another for its URI, a tag in it can do the same, and the next tag
  meets what both left behind. Each name is with or without a prefix, the tag's own or an
  attribute's. The child of a styleable is decoded again without what is around it. Theorems
  cover every document.
* *Ak.* R.txt files with common lines, one ID with two types and a line that is too
  long; three manifests of four kinds; six dex files on one to three outputs; five
  AARs; three sources with common names, one of them empty; libraries in two archives
  that collide by name, by path or by both; APKs whose Java resources have names of the
  command's own files; attributes for an element that there is twice, once, or not, and
  two splits of one output; directories whose new name is taken, by the same file or by
  others; and every sequence of three out of eleven kinds of lines of a flag file. Every
  command is checked with calls that fail at each place, and with none that fail.
  Theorems cover every call of every one of these commands, and every flag file.
* *Rules.* Manifests with up to two `uses-sdk` elements and floors of -1 to 3: theorems
  cover the rest. Pipelines of two processors and one more; the two of the rules as they
  are.

### Fairness

Each goroutine is weakly fair: the Go scheduler runs a goroutine that can run. A
`select` with two ready cases may take either one each time, and nothing assumes that
it alternates. No actor outside is fair: nobody has to cancel, to stop early or to
fail. In `Ak` it is enough that the process goes on (`WF_vars(Next)`).
`ShadowEncoder` is sequential, with properties of safety only.

### Deadlock

TLC looks for deadlocks in all runs but four. In `bucketize_faulty` and `liteparse`
goroutines can stay blocked in a send that does not watch the context; `Ends` says
precisely which ones, and that nothing else blocks. In `ak` and `patch_lost_attr` the process has ended.

## 4. What the properties say

**Merged streams.** `ImplementsPromise` is a refinement: with what the reader has
received as `delivered`, every step of the goroutines is a step of `MergedStream` or
changes nothing there. `NoSendOnClosed` is the panic of Go that a missing `wg.Add`
would cause. `Ends` is that a reader who returns early leaves nobody behind.

**Respipe.** `Emitted`: what is received of a directory is its resource files in the
order of the walk, and its errors, and all of them at the end of the streams. `SkipDir`,
which `emit` returns for a file after a cancellation, skips only the rest of its
directory, so files of later directories may still arrive; `Emitted` says that nothing
behind the lost file arrives of the same one. An error visit within a directory that is
skipped is passed over with it, and the walk goes on behind it. `WrittenRight`: the output is at every
moment a beginning of the encoding, and all of it when the caller saw no error. `AllEnds`
names the one way not to end: `Consume` returns at a failed write without draining its
channel, and a caller that goes on waits for a producer that is blocked in it.

**Bucketize.** `NothingLost`: when `Archive` returns nil, every element of every
parser was received and every accepted path collected. `ErrorSurfaces`: it does not
return nil if any file has an error. Both speak of a context that the caller did not
cancel: after that the separator and the parsers stop silently and `Archive` returns
success with a part of the resources, which the model does too. `ValuesDetermined`
and `AttributesInOrder` say that what is collected does not depend on the schedule.
`Ends`: the send of an attribute (`bucketize.go:206`) is the one send of a parser
that does not watch the context. A parser may stay in it after an error, and if the
caller cancels, `Archive` itself may never return.

**Partition.** The entries of an archive have one order: the paths by their names, then
the values files, each with its values by their names. `InOrder`: an archive is at every
moment the beginning of that, cut off in its last entry, also after a failure.
`ClosedComplete`: an archive that got its directory has all of it, even when the close of
another one fails; and the command succeeds only when it closed an archive for each
output it was given.

**Encoder.** The shadow encoder sees a start tag for each child of `<resources>` but
an end tag only for some, so its stack grows. The three properties say what of this shows.
`PayloadResolves`: a name whose URI is declared in the payload or by `<resources>`, and has one
prefix in the document, is written with a prefix that is bound to that URI. With a second prefix
for the URI it can go wrong (section 5), and a URI that only an outer tag which is not written
declares cannot be resolved at all. `NeverFails`: every name can be written, however many
prefixes a URI has, no state is corrupt, and the end of `<resources>` is refused as unbalanced
only if the own name of a tag beneath it has a prefix (section 5 again). `ChildRestored`: a
payload leaves the maps of its encoder as they were, but for an entry with no prefix that a
deleted key leaves. Default namespaces (`xmlns="u"`) and a styleable in a styleable are not in
the model.

**Liteparse.** `NothingLost` for what a successful call returns, `FileOrder` at every
moment.
`Ends` names the only ways not to end: the process is ended by `log.Fatal`, or the
dispatcher is in one of its two sends that do not watch the context.

**Values.** `Expected` in `ValuesParse` is what the document says, read in order with
no pipeline. `SendsWhatIsThere`: what the goroutines send is that, up to the first
error. `ErrorSent`: that error is sent. What comes behind it may be lost (findings), and behind a
child of a styleable with a bad name the process panics (section 5), which is a state of the
model (`"panic"`): the first error was sent before it, and nothing is sent after it.

**Ak.** `RJarRight` (the R class and the jar), `MaxWritten`,
`Partitioned` (shards of classes, next to their inner ones), `OutputsRight` (an AAR, all
or nothing), `Repacked` (the first of a name wins, nothing else is lost; where the filtered output lost an
error it has the whole or a cut body of a first, or lacks it),
`SubclassesRight` (an R class for each package, the first with all classes and the others
extending it), `NativeLibsRight` (an entry for each library; where two have one
architecture and name, both entries are the one copied last),
`ApkRight` (one manifest, one dex file, its own `MANIFEST.MF` last, and every entry of
the sources), `PatchRight` (each output
has in each element what was asked for it, but `<manifest>`, which stays as it is, and a split
has its own name there), `AaptRight` (what aapt2 is called with, for
`compile`, `link` and `manifest`), `FlagsDetermined` (a flag that is set has what its type
makes of its last text in the file, whatever the order of the map, but for a flag that a
nested flag file has too; on an error none is set, and only a nested file that panics
leaves some of them set), `InOrder` and `ClosedComplete` (the archives of `bucketize`), `Returns`.
Where an error is lost (a deferred close, a library that cannot be read) the property
asks nothing of what the error was about, and says so by a variable `lost`.

**Rules.** Checked as assumptions of `MCAk`. `MinSdk`: the manifests that validation
refuses are those that a bump to the floor changes; a bumped manifest is not refused;
two bumps are one to the higher floor; a default changes no version that is there.
`Pipeline`: a pipeline runs if and only if each processor comes after those whose
contexts it takes and no context is returned twice ("Order dependent, as providers will
not be available to downstream processors"), which is so for the two of the rules;
`prepend`, `append` and `replace` keep that under the conditions `StillRuns` states.
`ResName`: what `String` prints, `ParseName` reads back, but for the cases that
`RoundTrip` names.

## 5. Findings

Five runs show that the code does not do what one of its docs or tests says.

* `liteparse_lost_error`: `processResAndErr` returns "the resources if successful or
  the first encountered error"; its select can see the end of the resources while an
  error is still in a forwarder, and returns success.
* `liteparse_pairing`: `ParseAllContents` pairs contents by index with a list from
  which dot files were dropped. In this repository only a test calls it.
* `values_parse_two_readers`: when an `<enum>` in an `<attr>` of a styleable is bad,
  two goroutines read the events of the styleable, and one of them throws away what
  it reads: later attributes are missing, depending on the schedule.
* `shadow_encoder_outside`: a prefix that an earlier tag declared is accepted behind
  that tag. The test of that name uses a prefix no tag declares.
* `patch_lost_attr`: `patch` sets `"(optional) attr(s) to set. {element}:{attr}:{value}."`
  Attributes for the element `manifest` are replaced by an empty map right after they
  were parsed, and dropped without an error.

Differences met while modelling that no run shows: `ParseName` documents names of the
form `?type:pkg/name` (`naming.go:98`) and refuses them as an unknown type, while it
takes `type/pkg:name`; `prepend` of a processor whose name is taken keeps the old one
(no rule does that); the comment of `removeLast`
(`xml2/marshal.go`), the message of the bounds test for a shard index (`[0,%d)` in
`partitioner.go` and in `shard.go`, while that test lets the number of shards
through), the comment of `parseAttrChildren` on what it reads, and errors of
`Close` that are dropped in `dex`, `finalrjar`, `link` and `repack`. Those are steps
of the models, and the properties of those commands exclude them by name.

One more: `marshal.go:287` expects one prefix for a URI "at any point in time in an xml
file". That is less than the shadow encoder needs. Beneath `<resources xmlns:a="u">`, a tag
with `xmlns:b="u" xmlns:a="v"` has one prefix for `u` as well; but the shadow encoder does
not see its end, so the next payload gets the prefix `b` for a name in `u`, which no tag
around it declares. `ShadowEncoder` has such
documents, and `PayloadResolves` excludes the names of URIs that have two prefixes.

And two that no doc speaks of, which are steps of the models. `parseStyleableChildren` returns
no metadata and `true` behind a child with a bad name, and `minResChildParse` gives it to
`SetMetaData` (`values_parse.go:131`), which dereferences it (`naming.go:56`): one bad attribute
name in a styleable ends the process with a panic, after its error was sent (`BadAttrDoc`). The
files of `Liteparse` have no such child. And as the shadow encoder does not see the end of a tag,
`</resources>` is compared with the start of the last one (`marshal.go:139`); the names must
differ in both parts to be refused, so a tag with a prefix of its own, such as `<a:tag>`, makes a
file fail as unbalanced that is not.

## 6. The proofs

TLAPS proves these for all values of the constants that the assumptions named below
allow.

| theorem | statement |
| --- | --- |
| `RespipeProofs!TypeCorrect` | `Spec => []TypeOK` |
| `RespipeProofs!OrderKept` | each input is received as 1, 2, 3, … |
| `RespipeProofs!NoneLost` | an uncancelled stream that ends delivered all |
| `RespipeProofs!NoPanic` | `Spec => []NoSendOnClosed` |
| `RespipeProofs!Implements` | `Spec => ImplementsPromise`, the refinement |
| `LiteparseProofs!OrderKept` | `Spec => []FileOrder` |
| `LiteparseProofs!TypeCorrect` | `Spec => []TypeOK` |
| `LiteparseProofs!AllDelivered` | `Spec => []NothingLost` |
| `AkApkProofs!InvalidAreBumped` | validation refuses exactly what a bump changes |
| `AkApkProofs!BumpedAreValid` | a bumped manifest is not refused |
| `AkApkProofs!BumpsCompose` | two bumps are one to the higher floor |
| `AkApkProofs!DefaultsAreValid` | a default at the floor leaves only versions of the manifest's own to refuse |
| `BucketizeProofs!TypeCorrect` | `Spec => []TypeOK` |
| `BucketizeProofs!NoneLost` | `Spec => []NothingLost` |
| `BucketizeProofs!ErrorsSurface` | `Spec => []ErrorSurfaces` |
| `BucketizeProofs!ValuesAreDetermined` | `Spec => []ValuesDetermined` |
| `BucketizeProofs!AttributesKeepOrder` | `Spec => []AttributesInOrder`: what is collected is always a beginning, in order |
| `RespipeProofs!FilesEmitted` | `RespipeSpec => []Emitted` |
| `RespipeProofs!OutputWritten` | `RespipeSpec => []WrittenRight` |
| `AkPackageProofs!ArchivesInOrder` | `FairSpec => []InOrder` |
| `AkPackageProofs!ClosedAreComplete` | `FairSpec => []ClosedComplete` |
| `AkProofs!MaximumWritten` | `FairSpec => []MaxWritten` |
| `AkProofs!AllRepacked` | `FairSpec => []Repacked` |
| `AkProofs!FlagsAreDetermined` | `FairSpec => []FlagsDetermined` |
| `AkProofs!DexIsPartitioned` | `FairSpec => []Partitioned` |
| `AkPackageProofs!RJarIsRight` | `FairSpec => []RJarRight` |
| `AkPackageProofs!OutputsAreRight` | `FairSpec => []OutputsRight` |
| `AkPackageProofs!SubclassesAreRight` | `FairSpec => []SubclassesRight` |
| `AkProofs!NativeLibsAreRight` | `FairSpec => []NativeLibsRight` |
| `AkApkProofs!AaptIsRight` | `FairSpec => []AaptRight` |
| `AkApkProofs!PatchIsRight` | `FairSpec => []PatchRight` |
| `AkApkProofs!ApkIsRight` | `FairSpec => []ApkRight` |
| `AkApkProofs!TypeCorrect` | `FairSpec => []TypeOK` |
| `ShadowEncoderProofs!TypeCorrect` | `Spec => []TypeOK` |
| `ShadowEncoderProofs!NamesResolve` | `Spec => []PayloadResolves`, for names whose URI has one prefix |
| `ShadowEncoderProofs!NothingRefused` | `Spec => []NeverFails`, without unbound prefixes |
| `ShadowEncoderProofs!PayloadRestores` | `Spec => ChildRestored` |

**Merged streams.** The properties are not inductive: that the stream ended says
nothing about elements unless one knows where each element is. `Accounted(i)` says
so: a forwarder that is not done accounts for all that was sent on its input (received,
or the one it holds, which is the next); one that is done without a cancellation saw
its input closed, and an input is closed uncancelled only when all was sent.
`IInv` is `TypeOK`, `Accounted` for each input, `InOrder` and `NoSendOnClosed`. For
the refinement each action is one step: `Receive` is `Deliver` because by `Accounted`
the element held is the next one and the stream is open; `CloseOut` is `End` by
`NoneLost`; steps that cancel are `Cancel`, or nothing if it was cancelled before.
Assumptions: `Count` is a function to the naturals, `None` is no element.

**Bucketize.** `NothingLost` needs to know where each of the elements is at each
moment. `IInv` has `Assigned` (a parser at work has a file the separator gave it and
no other parser has it), `Flow` for each merged stream (a forwarder holds an element
exactly while it sends, and uncancelled it ends after its parser), `Closing` (the
order in which separator, parsers and channels end), `Located` (an element of a file
that was taken is with its parser, in a forwarder, or received), `PathsTaken` (the
paths collected are those the separator passed), `ErrorsEnd` (a received error has
ended `archive`), `Context` (only the caller or the end of `Archive` cancels) and
`NothingLost`. `ErrorsSurface` follows: on success every element was received, and
an error that was received ended `archive` with an error.

What is collected takes two invariants more. `Kept`: the keys of `vals` are those of the
values received, and each has one of them that none of the same key is longer than; on
success all were received, which is `ValuesDetermined`. For `AttributesInOrder`:
only one forwarder at a time holds attributes of a file, that of the parser at work on it
(`Owned`); it holds the one next to those collected, and the parser sends the one after
(`InTurn`). For that the attributes of a file must be what its parser sends first
(`AttributesAssumption`: those of the `<resources>` tag).
Assumptions: paths are a sequence without a repeated one (`ResFilesAssumption`: that
is what `walk.Files` gives), each `sends[f]` is a sequence of elements of the three
streams (`SendsAssumption`), `None` is none of them, and sizes are naturals
(`SizesAssumption`).

**Liteparse.** `FileOrder` speaks of what was received, but the order is made where the
parsers send. `IInv` adds `Assigned` (parsers at work have different files, which the
dispatcher has left), `Sent` (what is held or received is of such a file), `Behind` (a
parser is past all that was sent of its file, and only its own forwarder holds of it) and
`HeldOrder` (no two forwarders hold of one file, and what is held comes after what was
received of it). That needs no assumption: a file that is taken is new to all forwarders
because the dispatcher never goes back, and a parser that goes on to another file leaves
at most one element of the old one behind, in its forwarder.

`NothingLost` is the invariant `DInv`: to that and the types (`Typed`) it adds `PathsOnce`
(the dispatcher sends the path resource of a file once), `Ending` (what a result says of
the streams it was read from) and, as long as nobody cancels and each file can be read,
`Flow`: the order in which dispatcher, parsers and streams end (`Closing`), and for each
resource where it is (`Located`). That the number of what is returned is right follows from
a bijection: nothing is received twice, and all of it is. It uses that paths and
emissions are sequences (`SequencesAssumption`), and that the dispatcher is no parser
(`DispatcherAssumption`).

**Respipe.** The pipe: what is written, in the buffer and on its way to it is always the
encoding of the records that were taken and could be encoded (`Whole`), `Ranging` says
when a producer at its end has taken them all, and `Unseen` that without an error or a
cancellation nothing stays in the buffer of a consumer that ended. `WrittenRight` follows:
a beginning of that is a beginning of the encoding of all records.

The walks: for each directory, `Walks` says where the walk may be, `InfoRight` what it has
emitted (received or in the forwarder: rising, only resource files, all before the visit
but those behind a file that was given up), and `ErrRight` the same of errors. A cancelled
walk skips to the end of the directory. That what it skips is of the directory, and that
nothing of it comes later, is what `TreeAssumption` says of a walk: the visits below a
directory are together. Other assumptions: the words of the table of densities end in
`dpi` (`QualifierAssumption`), visits are not `None`, inputs are as their types say
(`ResInputsAssumption`).

**Partition.** The order of `Less` says which entry comes before which, so each has a
place: the number of those before it, and one. `PsInv` says that the keys to do are
behind those that are done (`PsSorted`); that the writers of a values file are those of
the first archives of its type, and the names to do behind those that are written
(`PsWriting`); that each archive has at each place the entry that belongs there, in
full, and only the one at hand cut off (`PsProgress`); and that no key is left when
archives are closed (`PsClosed`). The step that matters is the append: what
stands before the entry of the key at hand is exactly what is written (`PsNext`), since
a path before it would be one to do, and so the entry gets its place. The values of an entry
are counted in the same way (`PsRanks`). The refusals of a key (a path that was not
declared, a shard that does not exist) end the session before anything is appended.
`ClosedComplete` has a part about the command: `BkInv` says that the archives are those of
the outputs that `makePartitioner` counted. Assumptions: what is collected is finite, of
types that have an output, and names and payloads are numbers (`SessionsAssumption`);
outputs are names (`BucketizeCallsAssumption`).

**Encoder.** The state of an encoder is a stack, and what `tearDownState` does with an
entry depends on what the maps were when it was pushed. So the invariant has the *history*
of the stack (`History`): for each length of it the URI of each prefix (`Uri`) and the
prefixes of each URI, the innermost last (`Held`). One declaration goes from one length to the
next, and undoing it goes back. That a scope is known (`Sure`) means that each prefix the
decoder has is bound to some URI, and that the URI the decoder has for it holds some prefix;
with more than one prefix for a URI these need not be each other's, and more is not needed for
a name to be written. `Shadow`: the scope of `<resources>` is known at the top
and below each tag of the shadow encoder's stack, so it does not matter that end tags unwind
the wrong ones. `Copied`: the stack of a child encoder has an element for each tag open in
the payload, and below it the scope of the tag around is known; its bottom is what the
shadow encoder had. From it an end tag finds its own element (`NeverFails`), and the last
one gets the encoder back to where it began (`ChildRestored`). `Children`: the names in a
`declare-styleable`, which the shadow encoder meets a second time without the declarations
around them, have a prefix that the child declares or the shadow encoder knows. `Plain`: as
long as no tag beneath `<resources>` has a prefix, all elements of the shadow encoder have no
Space, so writeEnd refuses none of its end tags, whichever start it compares them with. A name
whose URI has one prefix is written with that prefix, since the URI holds no other, and the
decoder has it bound to that URI (`OnlyPrefix`). `NothingRefused` is stated for documents without
unbound prefixes: those are to be refused. Assumption (`DeclsAssumption`): declarations are pairs,
and no prefix is the name of a URI or one of the words of the model.

**Commands of `ak`.** A step of `ak` is a step of one command or leaves that command as it
is (`GmSteps`, `RpSteps`, `DxSteps`, …), so each has an invariant of its own.
*generatemanifest* (`GmInv`): the results in the channel are those of the goroutines behind
their send, and behind the wait that is all of them; the maximum is one of the results or the
flag, and none is greater. *repack* (`RpInv`): sources and entries have an order; what is
packed is, of the entries before the next one, the first of each name (in the filtered output,
once an error of it was lost, some of them cut or missing), and `seen` has the names of all.
*flagfile* (`FfInv`): after n lines the map has, for each name, the value of the
last of those lines with that name; the flags that are set are those taken from the map so
far and those of a nested flag file, each with what it takes (`Taken`) of the text of the one
or the other; also when the nested file panics.
*dex* (`DxInv`): each file in an output has the hash of that output, and the files of an
output are, in order, those of its hash before the next one. That an inner class is with
its outer one is a fact about names (`DxInner`): what is hashed ends at the first mark of a
name, and is the same for a name that continues another behind a mark.
*finalrjar* (`FrInv`): the map has, of the lines sent so far, one resource for each type and
ID, and a value that one of those lines has; a scanner that has not ended has met no long
line, so with the channel closed the lines sent are all that scanners get to (`FrAll`).
Sorting is any rearrangement that is ordered, and as IDs of one type differ there is only
one (`FrSorts`).
*extractaar* (`EaInv`): what was copied of a group and what is left to copy are together the
files of the group; what was validated, whatever the order of the map, has no error or an error
in the list; behind the validation all groups are valid, before it nothing is copied.
*rjar* (`RjInv`): the list of packages has each one once, where it occurs first; the sources
written are those of the plain packages before the next one, so the first of them is the base of
all, and their number is that of a set that grows by one.
*nativelib* (`NlInv`): what is unzipped of the archives is, of each path, the last; what was
copied under a name is the last library of that name (`NlCopy`); and the archive has the names
in the order in which they were taken from the sorted ones, one for each library (`NlWriting`).
*compile* (`CpInv`): as `dirReplacer` changes no name that it made (`CpReplacedOnce`), a
directory that was looked at is the image of one of the bucket, and each of those has one.
*link* (`LkInv`): the arguments are the archives seen so far, each once and in the order of the
first time (`LkFirsts`); the jar has all that aapt2 wrote, or nothing if its error at `Close`
was lost, which the code drops.
*manifest* and *patch* (`MfInv`, `PtInv`): `CreatePatchElements` is a fold over the arguments,
of which the last for an attribute wins (`Arguments`), and `Patch` sets these and leaves the
rest. The map of `patch` lives on from one output to the next; `PtAsked` says that all elements
in it but `<manifest>` are always those of the flags, and `PtManifest` that `<manifest>` has what
the outputs share and, behind the first split, the split of the output that was written last: no
output depends on anything else that an earlier one left.
*shellapk* (`SaInv`): the directory has a name for each Java resource and no other
(`SaDir`), and what is written is a subsequence of what there is to write, with all that no lost
error can drop (`SaWriting`); that one manifest and one dex file remain, and that a name is read
where it was written last, are facts about that sequence.

`TypeCorrect` is about all commands at once. What their `TypeOK` says beyond the types of single
variables relates two of them, and the invariants above give most of it; the rest has small
invariants of its own, next to the others. The channel of *generatemanifest* is never fuller
than it can be (`GmBounded`), what *repack* packs was seen (`RpBounded`), an error of
*extractaar* is of a group that was validated (`EaErrsDone`). *rjar* writes no more sources than
there are packages (`RjBounded`), because a list that has each package once is no longer than
theirs (`RjListLength`). *bucketize* creates its outputs in their order (`BkRest`); the keys and the
writers of a session are its own (`PsKeyed`), and the source file that is open is always that of
the path at hand (`PsOpened`), so at most one is, and none when the paths are flushed.

Assumptions: calls are as the types of the code say (`RJarCallsAssumption`,
`ManifestCallsAssumption`, `DexCallsAssumption`: there is an output, and a hash is a number of
one; `RepackCallsAssumption`, `AarCallsAssumption`, `RJavaCallsAssumption`,
`FlagFilesAssumption`: a line without text has no dashes or quotation marks;
`LibCallsAssumption`; `LinkCallsAssumption`: names are ordered). `ManifestDocsAssumption`
and `PatchCallsAssumption` take manifests as they are: an attribute has a space and a local
name, `<manifest>` is the root, and the attributes that the outputs share are in the
namespace that `patch` writes them in, which matters because `WriteOldApp` copies them by
their local names. `ApkCallsAssumption` has the order in which a directory is walked, and that
a manifest and a dex file have the suffixes of theirs and no other file in the way.

**Induction.** The library's induction theorems take an operator, which the provers cannot
instantiate. `Recursion` states induction with a set of numbers and recursion with a
function in place of the operator, and proves both from the theorem that a set of naturals
has a least element; so recursive functions and what they compute can be reasoned about.

**Minimal SDK.** Not an invariant, but facts about every manifest and floor. What is set
is what is found (`SetThenFound`), the second of two settings stays (`SetTwice`), and the
build actions do what the functions do, or nothing for a floor that is not positive
(`ActionsAre`).

The pure parts of `Bucketize` enter only through those assumptions, so the theorems hold for every
document, whatever a parser makes of it.

## 7. What is only model-checked

* Liveness (`Ends`, `AllEnds`, `Returns`): fairness and `ENABLED` are beyond the prover.
* `ValuesParse`: what a document says (`Expected`) is recursive in the document, as is the
  pipeline that reads it, so `SendsWhatIsThere` and `ErrorSent` would need induction over data
  for each level of goroutines, each with its own buffered events. No proof.
* `Pipeline` and the functions of `ResName`: dictionaries and names are read by recursive
  operators, for which the prover has no backend.
* What a run shows violated (findings) has no theorem, of course; `UsedOutsideRefused` is one.

## 8. What is not modelled, and the plan

Not modelled, and why:

* The command around `liteparse` writes its resources with `ResIO` and prints; nothing is
  in it that `Liteparse` and `ResIO` do not have. `mindex` writes a constant. `ini.go` is
  used by no command, and the `Set` of `flags.go` replaces a list by the parts of the text.
* Help texts, the writing of XML, zip and protocol buffers, and the external programs
  (aapt2, javac, d8, desugar), which are calls that may fail.
* `struct.go` and the tables of `res`: generated names and their protocol buffer forms.
* `jdeps` is a function of one protocol buffer, `merge_feature_manifests.py` one edit of
  one document.
* The Starlark rules besides their pipeline and the minimal SDK version: declarations, and
  functions that register build actions and merge providers. They have no state, run in
  one thread, and what they say of order is said by depsets, which are Bazel's.
* mobile-install collects providers and registers actions of `ak`. Toolchains, examples
  and CI scripts are configuration.
* The width of `int` on 32-bit builds (`shard.go`), which the rules do not use.

What could follow: that the two streams of `Liteparse` and the three of `Bucketize`
implement `MergedStream`; for `ValuesParse`, that each level reads only its own events, which
is what a proof of it would begin with; the merge of resource
providers of `resources.bzl`, if its order ever becomes more than that of depsets.
