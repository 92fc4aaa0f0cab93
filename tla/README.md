# Verification of go-casclib

TLA+ models of go-casclib, a Go library that reads CASC storages (the archive format of
Blizzard games), with TLC runs on small instances and TLAPS proofs for every instance. The
library mounts an installation, serves files by name, content key or encoded key, reads what is
missing from a CDN, takes edits in memory and flushes them to a directory of its own.

Line numbers refer to the source next to this directory. `PROJECT.json` maps every definition
that models code to its lines, and lists the runs, the mutants that show each property can
fail, the theorems, the findings and the hazards the properties aim at.

## 1. The system

| Part | State | Operations | What is hard |
|---|---|---|---|
| Write overlay of a `Storage` (`pkg/casc/write.go`, `casc.go`) | `overlay` and `removed`, under `overlayMu`; the mounted storage behind it, nil after `CreateStorage` | `AddFile`, `RemoveFile`, `RenameFile`, `OpenFile`, `FindFiles`, `Close` | `RenameFile` gives up the lock in the middle; `OpenFile` and `FindFiles` use state after unlocking; callbacks |
| Flush (`pkg/casc/flush.go`) | segments, `.idx`, build config, CDN config, `.build.info` in a directory | `Flush`; `OpenStorage` reads the result | many files, one after the other, without a lock or a rename; errors and crashes between them |
| Archive segment writer (`internal/archive/writer.go`) | segment index, file, offset, under a mutex | `NewWriter`, `WriteSpan`, `Close` | rollover, reopening, partial writes, a second writer |
| Local index (`internal/index`) | entries of an `.idx` file | `EncodeV1`, `Parse` of both versions | archive index and offset share 40 bits; blocks are found by trying their hashes |
| Mounted storage (`internal/storage`) | indexes, ENCODING, root, archive pool, under `mu` | `Open`, `ReadByEKey`, `FindByName`, `LoadAll`, `Close` | `Close` against readers; best-effort loading |
| Read methods of a `Storage` (`pkg/casc/casc.go`, `context.go`) | a `File` with its content in memory | `OpenFile`, `OpenFileByCKey`, `OpenFileByEKey`, `OpenFileByID`, `ReadByCKey`, `ReadByEKey`, `FindFiles`, `GetInfo`, `AddEncryptionKey`, context variants | fields of the mounted storage read without its lock; several reads of them in one call; whatever could not be loaded |
| Archive pool (`internal/archive/archive.go`) | open `data.NNN` handles, under a mutex | `open`, `ReadSpan`, `Close` | handles used after the unlock |
| CDN client, archive indexes, cache (`internal/cdn`, `internal/storage/cdn_archives.go`, `cache.go`) | `CDNArchives`; the cache directory | `Fetch`, `FetchRange`, `fetchAndMergeArchiveIndexes`, `cacheRead`, `cacheWrite` | goroutines and channels, failing hosts, a directory shared with other programs and restarts |
| BLTE codec, decryption (`internal/datafile`, `internal/decrypt`) | the key registry | `Encode`, `ParseHeader`, `Decode`, `Add`, `DecryptFrame` | sealed frames in sealed frames; keys added while a frame is decoded; streams without a frame table |
| Manifests (`internal/encoding`, `root/install`, `cdn/download`, `buildcfg`, `csv`) | none | parse and encode | pages, widths, offsets, counts; files cut short |
| Root handlers (`internal/root/...`) | maps of names, ids and keys, built once | `Parse`, `LookupByName`, `LookupByFileDataID`, `All` | path tables (TVFS), delta coding and guessed versions (WoW), header layouts by build (Overwatch), tries in bit arrays (MNDX) |
| CMF key providers (`root/overwatch/cmfkeys`) | 512 bytes and two functions for each of 179 builds | `Key`, `IV` | 32-bit cursors that wrap, remainders as indexes |
| Listfile (`internal/listfile`) | names by hash | `Load`, `Lookup` | spellings |
| Compression, ciphers, hashes, parity tools | none | | out of scope, see section 8 |

**How they interact.** A `casc.Storage` is an overlay in front of a `storage.Storage`. `OpenFile`
asks the overlay under `overlayMu` and then the storage, which resolves name → content key →
encoded key (root, then ENCODING) and reads the span from the archive pool or, failing the local
index, from the CDN. `FindFiles` walks the root handler, asking the overlay about each entry,
and then copies the overlay and walks the copy. `Flush` copies the overlay, appends everything
to the segments with an archive writer of its own, and overwrites the manifests; the next
`OpenStorage` follows `.build.info` → build config → ENCODING → INSTALL (the root) through the
`.idx` file and the segments.

What makes each part correct:

* *Overlay*: a name is never both present and marked removed; a shadowed base file never comes
  back; a rename moves; the whole looks like one map of names with atomic operations; a listing
  misses nothing that stayed; a read returns something the name held; no call hangs or panics.
* *Segment writer*: entries keep pointing at their own complete span; segments only grow.
* *Flush*: what a successful Flush wrote is what a reader gets, whatever later ones do before
  they replace the index; manifests of two Flushes never mix.
* *Storage and pool*: no handle is orphaned or used after it was closed under a live pool.
* *CDN*: loading cannot hang or lose an index; every host is tried; the cache never shows half a
  blob; a read returns another key's content only from a host that ignores ranges; what was fetched is cached.
* *Read methods*: a lookup gives the bytes that were encoded, or an error that is true: a file that
  is not found is not there, an encrypted one lacked a key while the call ran.
* *Formats*: a parser gives back what was written; of a file cut short or damaged it gives a part
  or an error, never something new and never a panic; what is listed is found.
* *Key providers*: every build derives its keys without an index out of an array, and two files
  do not share an IV.

## 2. The modules

| Module | Models | State ↔ code |
|---|---|---|
| `Namespace` | what the overlay promises: a map of names with atomic add, remove, rename | abstract |
| `Overlay` | `write.go`, and `OpenFile`, `FindFiles`, `Close` of `casc.go` | `overlay`, `removed` are the two maps; `mu` the writer's hold on `overlayMu`; `inner` is `none` (nil), `open`, `closed`; `base` what the root has; `made` whether the storage was created; `op`, `pc`, `loc`, `ret` the call of each goroutine |
| `OverlayHistory` | `Overlay` with history variables for what a call may have seen | `held`, `window` observe, nothing reads them |
| `OverlayProofs`, `OverlayHistoryProofs` | proofs about `Overlay`, that it implements `Namespace`, and about `OverlayHistory` | |
| `SegmentWriter` | `archive.Writer` | `cells`, `size` the segment files; `segmentIndex`, `segmentFile`, `segmentOffs` the fields; `pos` the file position of the handle; `entries` what was returned |
| `SegmentIndex` | the 40-bit field of a V1 `.idx` entry, written and read back | operators `Stored`, `Loaded`: the field as its two digits to the base 2^`OffsBits` |
| `SegmentWriterProofs` | proofs about `SegmentWriter` | |
| `Flush` | `flush.go` over `SegmentWriter` and `SegmentIndex`, crashes and restarts, and the reader `OpenStorage` + `FindFiles` + `OpenFile` | `stage` the position in `Flush`, `snap`, `left` its `files` slice; `whole` the manifest files that are there to the end, `index` and `info` what `.idx` and `.build.info` say when they are |
| `FlushProofs` | proofs about `Flush`, over those of `SegmentWriter` | |
| `ArchivePool` | `FindByEKey`, `archivePool`, `Pool.open`, `ReadSpan`, `Close` | `ekeys`, `pool` the fields under `Storage.mu`; `files`, `state` those of each pool; `handles` what the operating system holds open |
| `ArchiveIndexLoad` | `loadCDNArchiveIndexes` | `next` the channel of work, `results` the channel of results, `byEKey` the `ArchiveSet` |
| `CdnFetch` | `fetchByEKeyViaArchives`, `cacheRead`, `cacheWrite`, `Client.fetch` | `cache` the directory; `host` what each host does now |
| `StorageRead` | `Open`, `ReadByEKey`, `Close`, restart: the three modules above together | `online` is `s.CDN # nil`, `loading` that `Open` has not returned |
| `StorageReadProofs` | proofs about `StorageRead` and its three parts | |
| `StorageApi` | the read methods of `casc.go` and `context.go`, `Open` with `LoadEncoding` and `LoadRoot`, `FindByName`, `DecodeSpanWithOptions`, `Close` of the mounted storage | `phase` how far `Open` or `Close` is and whether `inner` is nil; `build` what is on disk; `ekeys`, `encoding`, `root` its fields; `keys` the registry; `call` the locals of each goroutine, a `File` included |
| `StorageApiProofs`, `StorageBytesProofs` | proofs about `StorageApi`: what a call finds; what bytes it gives, over lemmas about `Blte` | |
| `Blte` | `datafile.Encode`, `ParseHeader`, `FrameDecoder`, `DecryptFrame` | operators on streams of cells, seals included, each cell given by its place; `StorageApi` takes one step per access to the registry and keeps `cursor`, the place of its frame |
| `Blob` | the integers and names that all formats are made of | a blob is a sequence of bytes |
| `EncodingManifest`, `InstallManifest`, `DownloadManifest`, `IndexFile`, `ArchiveIndex` | the manifests and indexes | `Encode...` is a writer of the code, `File...` one of the game client, inferred from what the parser reads |
| `WowRoot`, `TvfsRoot`, `Diablo3Root`, `CmfFile`, `TextRoots` | the root handlers and the listfile | as above |
| `SparseArray`, `MndxTrie`, `MndxRoot` | `mndx/trie.go` (bit arrays with rank and select, packed numbers; the trie and the walk through it), `mndx.go` | the fields of a loaded array and trie; `stops`, `depth`, `text`, `steps` are the search state |
| `Formats` | a document that is written, cut or damaged on its way, and parsed, in any of 21 formats, or shown to the probes of the roots | `doc`, `blob`, `fault`, `parsed`; `handler`, which `root.Detect` chose |
| `CmfRecipe`, `CmfFuncs` | the 358 generated functions, one row each: a seed, a step of the cursor and a mix with the digest, in 32-bit arithmetic | `Recipe(build, seed, step, mix)` |
| `CmfKeys` | one call of a key provider: both functions, iteration by iteration | `kidx`, `seed`, `buffer`, `key`; a byte remembers which table and digest indexes made it |
| `CmfKeysProofs` | proofs about `CmfKeys` | |
| `MC...` | the instances for TLC | |

One step is one critical section, one system call, or the code between two of them. Each action
names the function it is in; an action whose name carries no letter of the source (`FindWalked`,
`TakePool`) is one section of it. Operators marked *Mutant* are bugs the code does not have;
`PROJECT.json` uses them to show that each property depends on the code.

Names are model values. `normalizeOverlayName` maps several spellings to one name and is applied
by every method first, so a model value stands for all spellings of a name. A key is the hash of
what it names and is modelled by that thing. A file is a sequence of cells, a cell standing for
a block of bytes; a span is `HeaderSize` cells and its stream. In `Formats` a blob is really a
string of bytes, but the bytes of a key, a name or a hash are marked as such (`<<kind, what, k>>`),
so that a parser which cuts one apart or takes one for another is found out; hashing is injective.
A panic is a result of its own.

## 3. What the runs check

On two cores the passing runs take between three seconds and three minutes.

| Run | Instance | Shows |
|---|---|---|
| `MCOverlay_serial` | 3 names, 2 contents, a goroutine that adds, removes, renames and closes, one that opens and lists; opened and created storages | `Atomic`: `Overlay` implements `Namespace`; `Disjoint`; `SerialInv`, the inductive invariant of the proofs |
| `MCOverlayHistory_racing` | 2 names, two goroutines that both change the storage | what survives real races: `ShadowStable`, `ListsWhatStayed`, `OpensWhatWasThere`, and, under fairness, `CallsReturn` |
| `MCSegmentWriter_reopen` | two writers one after the other; spans of 2 and 3 cells, segments of 4; `data.000` empty, nearly full or full before; open and write errors, in part or in whole | `EntriesIntact`, `AppendOnly`, and `WriterInv`, the inductive invariant |
| `MCFlush_serial` | 2 names, 2 contents, two Flushes, edits while they run, errors and crashes at every step, a rollover in the second Flush | `RoundTrip` and `NoMixture` |
| `MCStorageRead_shared` | 2 goroutines, a local key and one that is not, 3 CDN archives, 2 loaders, 2 hosts that are good, down, send garbage or ignore ranges, closes and restarts, 2 pools | `NoOrphan`, `ReadsOpenFile`, `NeverBlocksOnSend`, `EachOnce`, `CacheComplete`, `RightContent`, `TriesEveryHost` |
| `MCStorageApi_lookups` | a reader that makes every kind of call and may cancel it, an owner that adds keys, also wrong ones, and closes; 3 files (in two frames, one sealed; sealed under two keys without a frame table; sealed once too often), WoW and TVFS roots, each span missing, cut or damaged, or no `data.NNN` at all behind an intact index, with and without CDN, `OvercomeEncrypted`, and `inner` | `RightSpan`, `RightBytes`, `NotFoundIsTrue`, `EncryptedIsTrue`, `PanicsNeedClose`, `RootNeedsEncoding`, `ListedKeyOpens` |
| `MCFormats_documents` | 299 documents in 21 formats, binary ones cut at every byte, indexes damaged at every byte | `ReadsBack`, `ReadsNothingNew`, `DamageIsNoticed`, `PanicsOnTenBytes`, `ListedIsFound`, `DetectsOwn` (each root, whole or cut, shown to all the probes) |
| `MCCmfKeys_builds` | all 179 builds, two headers, three digests | `Derives` (no index out of an array; build 39103 apart), `IVTellsFilesApart` (builds 37703 and 50148 apart) |

Four runs end in a violation, which is the point of them: each checks what a document or a
comment says, and TLC finds where the code does otherwise.

| Run | What the code does |
|---|---|
| `MCOverlay_rename_race` | `AddFile(a)` between the two critical sections of `RenameFile(a, b)` leaves `a` in the overlay and marked removed: it cannot be opened but is listed and flushed |
| `MCFlush_full` | a Flush into a directory whose `data.000` is full writes its first span past the cap; the offset, now 2^30, spills into the archive index of the `.idx` entry and the file cannot be read |
| `MCStorageApi_by_id` | `OpenFileByID` reads the encoded key of the root's entry, which no root with ids fills in, without asking ENCODING (`casc.go:398`): it does not find files that are on disk |
| `MCFormats_wow` | a version 2 WoW root that `Encode` writes of 20 to 256 files which all have names is taken for version 3 (`wow.go:113`) and refused |

Divergences met on the way for which no run is kept.

The overlay, the storage and the CDN:

* `RemoveFile(b)`, `RenameFile(a, b)` with `a` in the mounted storage returns nil and loses the
  file: `write.go:182` does not clear `removed[b]`.
* `OpenFile` of a name that is not in a created storage, the other lookups, `GetInfo` and
  `AddEncryptionKey` of one call methods of a nil `*storage.Storage` (`casc.go:307`).
  `PanicsNeedClose` names them.
* Two Flushes of one `Storage` at once both return nil and leave a directory that serves neither
  snapshot (`flush.go:89`).
* A blob that comes out of a CDN archive is never cached (`cdn_archives.go:158`), though
  `cdn_archives.go:138` and `storage.go:117` say so.
* A host that answers a ranged request with 200 and the whole archive makes the read return the
  first span of that archive (`client.go:137`), where `client.go:79` promises the span that the key
  resolves to. `RightContent` names this as its only exception; the run has such hosts and shows
  that the damage ends with the read.
* `FindFiles` goes on to the overlay entries after `fn` returned false for a root entry
  (`casc.go:677`, `:685`), though `casc.go:603` says that the iteration stops.
* A file replaced by another goroutine between the walk over the root and the copy of the
  overlay is listed twice.
* `Close` sets `Encoding` to nil before `Root` (`storage.go:296-297`), and `FindFiles` reads both
  without the lock: it may find no ENCODING and then walk a root that is still there, and lists the
  keys of the root's entries. `RootNeedsEncoding` speaks of who holds the lock; `ListedKeyOpens`
  admits these keys under a `Close` only.
* A key that is in the local index of a directory without any `data.NNN` gives `ErrFileNotFound`
  offline (`lookup.go:100-113`), as if the index did not have it. `NotFoundIsTrue` says so.
* `FindFiles` reads `s.inner.Root` twice without the lock (`casc.go:614`, `:626`); a `Close`
  between the two makes it call a nil handler. `Overlay` has the step (`FindPanics`).
* A `WriteSpan` that failed in the middle leaves the handle past `segmentOffs`; if the caller
  went on, later entries would be wrong. `Flush`, the only caller, gives up.
* A reader that found its entry before `Close` makes a new pool after it (`lookup.go:138`); only a
  second `Close` releases its handles. `NoOrphan` shows that a second one does.
* A body that does not decode is cached before it is decoded (`cdn_archives.go:178`) and served
  from then on. `CacheComplete` therefore admits `Garbage`.
* A ranged fetch that fails is not followed by a fetch of the blob on its own.
* The comments at `write.go:38` and `casc.go:231` say that `Flush` is not supported, that at
  `casc.go:98` that `Online` is not implemented, and that of `OpenFileByID` that it returns
  `ErrNotSupported` where the root has no ids: it returns `ErrFileNotFound`.
* A stream without a frame table has no hash, and neither the content key nor the encoded key is
  compared with what was read: damage, or a wrong key for a sealed frame, gives wrong bytes without an
  error. `RightBytes` leaves these out (`Vouched`). `encoder.go:44` does not check the size of
  such a stream.

The formats:

* The page hashes of ENCODING and of archive indexes are not verified.
* A damaged version 2 `.idx` of one block, when it is long enough to be paged, is read as pages and
  gives an empty index without an error. `captureGuardedBlock2` hashes whole entries
  only, so that bytes behind the last are in no hash; no entry is read from them.
* `DOWNLOAD` of version 1 with flags is written with flags and read without. Parsing one of 10
  bytes is a panic (`download.go:103`, `PanicsOnTenBytes`).
* `wow.go:81-84` says that `Probe` detects a root of version 1; it refuses all that does not start
  with `MFST`, and the storage opens without a root. `DetectsOwn` leaves version 1 out.
* `text.go:48-49` says that `Probe` asks for a bar and a key; it asks for a bar (`text.go:60`). A
  table of Overwatch whose key column is `CKEY` becomes a text root without entries.
* `Detect` keeps the table of Overwatch from the text handler only by the alphabetical order of the
  import paths, on which `DetectsOwn` rests. The storage never calls `LoadSubdirectories` of
  Diablo III. The comment at `AssetFileName` says decimal, the code prints hexadecimal. `cmf.go`
  says that the key functions are not ported, `mndx.go:26-30` that the trie is not.
* The IV function of build 39103 may index its table below zero (`keyfuncs_generated.go:3139`),
  and those of 37703 and 50148 ignore the name of the file.
* MNDX: `findGroupItems0` (`trie.go:528`) looks at the upper end of its interval instead of the
  middle and `findGroupItems1` halves only once, so that select is wrong, or a panic, when two of its
  points are ten groups of 512 bits apart or more, as with 512 nodes in a row that have ten
  children each; TLC confirms it on 6200 bits with every 11th set. `trie.go:573` and `:674` say
  that they find the item. Listing stops after `maxTrieSteps` over the whole trie (`trie.go:1222`),
  though `trie.go:1536` says every name. As many package names are kept as there are entries
  (`mndx.go:300`), so that an entry of a later package has no name. A root without names lists
  labels that `LookupByName` does not find. A MAR number past 2, or a child trie without a
  hash table, is a panic.

**The properties that are easy to misread.** `RoundTrip` speaks of the last Flush that returned nil,
until a later one truncates the `.idx` file. From then until `.build.info` is replaced, a crash
leaves a directory whose `.build.info` names a build the new index does not have: it serves
nothing, and never a wrong file (`NoMixture`). `CacheComplete` is about what a reader of the cache
can see, of this program or the next. `TriesEveryHost` uses a history field, the hosts that stayed
reachable since the call began. `RightContent` admits another key's content from a host that ignored a
range, since the code then returns it; it would be violated if any of that reached the cache, another host's
answer or another read. `NotFoundIsTrue` takes "not found" for true of a storage without a CDN when
there is no local span to read: the index lacks the key, the directory has no archives, or `Close` has run.
`RootNeedsEncoding` does not speak of the moments inside `Close`, of which only unlocked readers know;
it covers every state in which `FindByName` can take the two. `RightBytes` allows zeros for a sealed frame when the caller asked
for them and a key was missing *at some time during the call*: the registry may change between two
frames, and `seen` records its values. `EncryptedIsTrue` reads the same field. `ReadsNothingNew` allows
a tag of a cut manifest to have a short bitmap, and a cut MNDX root without its tries to list
labels. In `ListedIsFound` a name that two entries share is found as the last of them.

## 4. Bounds

* *Overlay*: three names let a rename have a source, a destination and a bystander; two contents
  tell a replaced file from the old one. Two goroutines suffice for every race between two
  critical sections of one call and one other call; the proofs cover any number.
  In `MCOverlay_serial` the rename targets are disjoint from the names that are removed or
  renamed away (the condition `FreshTargets` of the theorem): otherwise the file is lost, see
  section 3.
* *Segment writer*: a segment of 4 cells and spans of 2 and 3 are filled exactly, exceeded by
  one, and left short. `Addr` bounds file offsets and `Segment` the files; a step that would go
  beyond is disabled, and the sizes are such that both kinds of rollover happen before.
* *Flush*: spans of two cells, and segments of 16 cells, a power of two as 2^30 is, so that
  offsets have exactly 4 bits; the second of two Flushes rolls over. `MaxFlushes` is 2.
* *Reading*: three archives and two loaders make the number of results exceed the number of
  goroutines. Two pools allow one `Close` and one pool made after it.
  Each host may change between its four behaviours at any step; the first archive begins with one
  key and the other key is in it too, so that a host which ignores ranges gives the wrong one.
* *Read methods*: one goroutine that calls and one that changes what it reads make every
  interleaving of a call with `Close` and `AddEncryptionKey`, since calls of readers do not affect
  each other. Frames are of two cells, the content of three, so that the last frame is short; `MaxDepth` is
  the one of the code, and one span is sealed one time deeper. At most one span of a build is damaged.
  The disk that may lack its archives (`Emptied`) is the one with nothing else wrong. `Close` is three
  steps: the pool, with the lock taken; ENCODING; the root and the index, with the lock given back.
* *Formats*: keys have 5 bytes and pages 16 or 32 (`KeyLen`, `Kilo`, `PageSize`), so that a page holds
  two records, one record fills a page or does not fit, and a manifest has up to four pages. The
  widths of fields are those of the code. The documents sit at its boundaries: 8 and 9 entries
  for a bitmap, 51 and 52 keys for the width of a TVFS offset, 19 to 21 files for the version of a
  WoW root, the builds on both sides of each CMF layout.
* *MNDX*: a byte has its 8 bits, so words, counts and groups are the 32, 64 and 512 bits of the code;
  bit arrays of 1 to 1700 bits cross all of them in every density. The tries have fragments
  marked both ways, fragments in a child trie, a cached path, a root that is a file, and, in one of
  321 nodes, a collision table over two groups and fragments past 256 bytes. `MaxTrieSteps` is
  the 65536 of the code, which no document reaches, and select points are less than ten groups
  apart: see section 3 for what happens beyond.
* *Key providers*: nothing is cut down but the inputs: one table of 512 bytes, which takes every
  byte value, and headers and digests at the ends of their ranges.

## 5. Fairness and failures

`FairSpec` (and `HFairSpec`) assume strong fairness of `Continue(p)`, the steps of a call that has
begun: the Go scheduler runs every goroutine, and a `sync.RWMutex` does not starve a waiter (a
waiting `Lock` holds new readers back), so a step that is possible again and again whenever the
lock is free is taken. Nothing is assumed about new calls, or about callbacks beyond their
returning. The other specifications have no fairness, and their properties are safety.

A crash is the end of the process, not of the machine: the code never calls `fsync`, and what a
power failure leaves is not modelled. A write that is cut off leaves a torn file. A torn `.idx` is
refused by its checksums and a torn text manifest lacks the key that is looked for, so a reader
treats a torn file as absent.

## 6. Proofs

TLAPS checks, for every value of the constants:

| Theorem | Says | Under |
|---|---|---|
| `TypeCorrect` | `Spec => []TypeOK` of `Overlay` | |
| `ShadowsForever` | `Spec => ShadowStable` | |
| `SerialDisjoint` | `[]Disjoint` | `OneWriter`, `FreshTargets` |
| `SerialInductive` | `[]SerialInv` | `OneWriter`, `FreshTargets` |
| `SerialAtomic` | `Overlay` implements `Namespace` | `OneWriter`, `FreshTargets` |
| `FindsAllThatStays`, `OpensWhatItSaw` | `ListsWhatStayed`, `OpensWhatWasThere` of `OverlayHistory` | |
| `WriterTypeCorrect` | `[]TypeOK` of `SegmentWriter` | |
| `WriterInvariant` | `[]WriterInv` of `SegmentWriter` | `Serial`, `AbortOnError` |
| `EntriesStayIntact` | `[]EntriesIntact` of `SegmentWriter` | `Serial`, `AbortOnError` |
| `SegmentsAppendOnly` | `AppendOnly` | `Serial`, `AbortOnError` |
| `FlushTypeCorrect` | `[]TypeOK` of `Flush` | |
| `NoMixtureEver`, `RoundTrips` | `NoMixture`, `RoundTrip` in every state with `OffsetsFit` | `Serial` |
| `FittingSegmentsRoundTrip` | `[]RoundTrip`, `[]NoMixture` | `Serial`, `SegmentsFit` |
| `ReadTypeCorrect` | `[]TypeOK` of `StorageRead` | |
| `CloseReleasesAll`, `HandleIsOpen` | `[]NoOrphan`, `[]ReadsOpenFile` | |
| `SendNeverBlocks`, `EachArrivesOnce` | `[]NeverBlocksOnSend`, `[]EachOnce` | |
| `CacheStaysComplete`, `AllHostsTried`, `ContentIsRight` | `[]CacheComplete`, `TriesEveryHost`, `RightContent` | |
| `RootHasEncoding`, `PanicsOnlyAfterClose` | `[]RootNeedsEncoding`, `[]PanicsNeedClose` of `StorageApi` | |
| `ReadsTheRightSpan`, `SaysNotFoundTruly`, `ListsKeysThatOpen` | `[]RightSpan`, `[]NotFoundIsTrue`, `[]ListedKeyOpens` | |
| `ApiTypeCorrect` | `[]TypeOK` of `StorageApi` | |
| `GivesTheRightBytes`, `LacksAKeyTruly` | `[]RightBytes`, `[]EncryptedIsTrue` | |
| `KeysInvariant`, `KeysTypeCorrect` | `[]KeysInv`, `[]TypeOK` of `CmfKeys` | |
| `EveryBuildDerives`, `IVsMixTheName` | `[]Derives`, `[]IVTellsFilesApart` | |

`OneWriter` says that at most one goroutine calls the methods that change the storage, any
number calling the others; `FreshTargets` that no rename target is ever removed or renamed
away. They are not conveniences: without the first, `MCOverlay_rename_race` breaks `Disjoint`,
and without the second, a rename onto a removed name loses the file and breaks `Atomic`. Likewise `Serial` (one
live writer per directory) and `AbortOnError` (the caller gives up, as `Flush` does) are what the
segment writer relies on. In `Flush` the second is so, and `Serial` says that the caller runs one
Flush at a time: two at once leave a directory that serves neither (section 3). `OffsetsFit` says that
each entry a Flush was given fits its two fields of the `.idx` file. The code does not see to it, and
`MCFlush_full` is a Flush where it fails; it holds as long as no segment file outgrows the offsets
(`SegmentsFit`).

*Type correctness and shadowing.* `TypeOK` is inductive with one lemma per way of ending a step
(`Goto`, `Return`). Shadowing follows because a name leaves `removed` only when it enters `overlay`
in the same step, and leaves `overlay` only when it enters `removed`.

*The overlay implements the map.* `Disjoint` and the refinement are not inductive: between
`RenameUnlock` and `RenameCommit` the goroutine believes things about its source and destination
that only hold because nobody else changes them. `SerialInv` says what it believes at each
position of `RenameFile` (the source is not in the overlay and not removed, the destination is
free, the content it read is that of the base) and what the marks mean. The refinement maps
`files` to what a reader would find and `call` to the calls of the writers; a rename takes effect
at its commit, every other method of a writer in one step, and all steps of readers stutter.

*The segments.* `EntriesIntact` needs to know that a write goes to the end of the file:
`HandleInv` says that an open handle is there and that `segmentOffs` agrees, and `OneLive` that no
other writer moves the end. Their conjunction `WriterInv` is inductive; a failed write may break
the agreement, but closes the writer in the same step under `AbortOnError`. `TypeOK` needs neither
condition: an offset stays an address with any number of writers in a directory.

*What a reader sees of a race.* `HistoryInv` says where a `FindFiles` has each name that has been
readable since it began: given to `fn` already, still to be walked, or in the overlay (`Accounts`).
A name that leaves the first place for the overlay can do so only before the copy is taken. Of an
`OpenFile` on its way to the base it says that what the base holds was what the name held when the
overlay was left. Nothing else about the writers is needed, so any number may race.

*Flush and reopening.* Both properties are about what lies in a directory, after any failures and
crashes, and none of the Flushes that wrote there can see another. `FlushInv` ties them together:
what each has appended when it is at a stage (`WroteInv`), that these spans are still there
(`WriterInv` of `SegmentWriter`, of which every step of `Flush` is shown to be a step or a stutter),
that the `.idx` file, when whole, is that of one Flush which has come that far (`IndexInv`), and that
the files of the newest one are in place (`NewestInv`, which a crash keeps because it moves no
stage back). A reader goes from `.build.info` to a config to ENCODING by key, a key is the hash of what
it names, and so it either gets what the snapshot named by `.build.info` has, or nothing
(`ReadsTheKey`). That an entry comes back from its 40 bits as it went in (`Or` with nothing below it) is
where `OffsetsFit` comes in.

*The read path.* `ReadInv` has one part for each of the three modules of `StorageRead`, and every
step of the storage is shown to be a step of each of them or to leave it alone (`PoolSteps`,
`FetchSteps`, `LoadSteps`). `PoolInv`: the pool that is live is the one the storage has, only it has
files, the handles are exactly its files, and a read that has a file has it until its pool is
closed. `FetchInv`: what a fetch is about to cache is its own key's blob or does not decode, and a
host that has been reachable ever since the call began is one it has still to try. `LoadInv`:
whatever left the channel of work is with exactly one goroutine or in the results, once. Then a
goroutine with a result always finds room: the results are distinct archives other than its own,
so there are fewer of them than places (`RoomForAll`, by the pigeonhole principle). That the merge
finds a first index needs that a set of numbers has a least one (`Least`); the induction theorems
of the library cannot be used (their parameter is an operator), the well-founded order of
the finite subsets can. `ContentIsRight` assumes nothing of the hosts: the step in which a read takes
the answer of a host that ignores ranges is the exception the property names, and that no other step
gives another key's content follows from `FetchInv`, since such an answer is decoded at once and
never in the hands of a fetch that caches.

The constants are assumed to be what the code makes of them (`LocalIndexAssumption`,
`CdnAssumption`, `BodyAssumption` of `StorageRead`): the local indexes name archives of the
directory, the archives of the CDN hold keys, there is at least one host, and keys, bodies that do
not decode and error results are told apart. TLC evaluates them on every run.

*Panics.* `ApiInv` says that there is no root while the storage is opened, that a root has its
ENCODING but between two writes of a `Close`, that a call running then or later knows of that `Close`,
and that a call which has tested `s.inner.Root` and goes on without the lock either still has the root
or was overtaken by a `Close`. So a method dereferences nil only on a storage that was
never opened, or after a `Close` during the call.

*The right span.* `LookupInv` follows a call from its argument to the key it reads: the root in memory
is the one of the build, the local index is what is on disk until a `Close` empties it, and a call that
is anywhere between the lookup and its File has the key that the manifests of the build give its
argument (`Located`). It must say of a call by id that it never gets beyond the zero key
(`MCStorageApi_by_id`), and of every call that runs after a `Close` that it knows of it (`InTime`), or an
index that a `Close` emptied would make "not found" a lie.

*The right bytes.* A File is put together frame by frame while other goroutines change the registry,
so `RightBytes`, which speaks of Files only, says nothing of a step. `BytesInv` says what a call has in
its hands: what it has put together is what the frames before this one give (`Assembled`), the frame
itself is the one that was encoded under the first of its keys (`Peeled`), and the values the registry
has are among those the call has seen (`SeesKeys`), which is why a key that is missing was missing
during the call. `Peeled` holds of some sequence of cells even when nothing vouches for the span
(`Vouched`), damaged or opened with a wrong key: this is what the decoder's type needs, and
that a damaged frame is never taken for a key of another name. It rests on lemmas about `Blte`: a right key
takes off the outermost seal and nothing else (`SealOpens`), what is left when the end of a sealed
frame is cut off or overwritten is still sealed under the same keys (`SealCut`, `SealFlip`), a
frame of a span with a table is either the one that was written or has another hash (`FrameReads`),
and the next key to be asked for is one of the frame's (`KeysBelow`). `Peeled` speaks of all
sequences, so TLC cannot evaluate `BytesInv`; it checks the properties that follow from it.

`TablesAssumption`, `SpansAssumption` and `CallsAssumption` of `StorageApi` say what a build is: the
handlers with ids know content keys only, ENCODING lists at least one encoded key for each content key
(`encoding.go:112`), every frame has its own list of keys. TLC evaluates them on both its runs.

*The key providers.* A run gives the 358 generated functions two headers, one keytable and three
digests; the theorems say what they do with any. They rest on three layers of lemmas. The 32-bit
operations return 32 bits and the remainders an index below their modulus, also for the signed one
and for a product put together from its bytes (`PlusWord`, `TimesWord`, `SignedModRange`). Each form
of a seed, a step and a mix then keeps to the arrays and to 32 bits whatever its parameters
within stated bounds (`TableSeeds`, `OtherSeeds`, `Steps`, `Positions`, `Mixes`): this is where an index that is not
reduced would show, and `AtTimesDigestLessLengthUnmasked`, the seed of the IV of build 39103, has no such
lemma; all that is proved of it is that it yields 32 bits if its index is in the table. Last, every recipe is
made of these forms (`KeyRecipesOK`, `IVRecipesOK`, one step per group of builds), and every build that
has a keytable is in both tables (`SameBuilds`). `KeysInv` needs to know nothing of single recipes: the
function that runs is the one of the build and of the phase, and each byte of the buffer read
what `Plain`, or else a mix that uses the digest, reads. `HeadersAssumption` and `ArraysAssumption`
are the Go types of the fields and arrays.

Only model-checked: the formats, whose parsers are folds and recursive operators over data and so out of TLAPS's
reach; and liveness (`CallsReturn`), which is out of its reach as well. `NotFoundByIdIsTrue` is not true
(`MCStorageApi_by_id`).

## 7. Plan

1. *Composition*: the real `Overlay` in front of `StorageApi` or `StorageRead`, so that a `Close` under
   `OpenFile` reaches the pool.
2. *Proofs*: what the format modules promise of the parsers that are not recursive, once those are
   in modules of their own that reach no `RECURSIVE` operator.

## 8. Not modelled

* Compression, Salsa20, Jenkins hashes, MD5, AES: transformations of bits, mostly of the standard
  library. The models assume that hashing is injective, that a damaged body does not inflate,
  and that a cipher gives back what was enciphered with the same key.
* The contents of the 179 key tables (`keytables_generated.go`): constants for which any bytes stand;
  `builtinKeytables` is the set of their builds.
* The limits of 1 KB and 4 KB within which the probes look for a bar or the end of the header line.
  A probe takes a document of lines for text and any other for binary data.
* The mask-based search of the MNDX trie (`comparePathFragment`, `findFileInDatabase`): nothing calls
  it.
* The queries of products and versions over the network, which are single requests, and the
  parity tools.
* The bytes of the text manifests; the pattern filter of `FindFiles`; errors of `WriteSpan` that
  change nothing (a closed writer, a span larger than a segment); the locale option.
* The CDN config is only found in the local config directory: nothing downloads it. `StorageRead`
  starts either with the indexes to load or without any.
* Damage is of one byte of a local index, or of the end of a span; other documents are cut, not
  damaged, since no hash of theirs is verified.
