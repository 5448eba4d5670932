# A verification project for ESOData

ESOData reads the data of a game client: archives (`.mnf` manifests and `.dat`
files), file tables, and a database of definition files. On top of it,
`ESOProjectedFilesystem` is a Windows service that serves the files of the
archives under a mount point through ProjFS. This directory holds TLA+ modules
that model the parts of it where order, concurrency, failures and boundaries
matter, TLC configurations that check them on small instances, and proofs that
TLAPS checks for every value of the constants.

`PROJECT.json` lists the components, the runs, a mutation of the code for each
property that a run must catch, the source lines behind every definition, the
hazards and the theorems. Where the code does something else than its comments or
its callers expect, the properties except the case by name and section 4 lists it.

## 1. Inventory

### The mount (src/ESOProjectedFilesystem)

*Directory enumeration* (`startDirectoryEnumeration`, `getDirectoryEnumeration`,
`endDirectoryEnumeration`). State: `m_directoryEnumerations` (GUID to
`DirectoryEnumeration`, behind a mutex), and the immutable `m_files` and inode
tree. ProjFS calls it from a pool of `hardware_concurrency()` threads. Callers may
use buffers of any size, so a listing is cut into any number of calls, and may
restart with another search expression. Two kinds of directory: inodes, walked by
an iterator, and `\by-id`, where a directory is a range of 64-bit keys and an entry
is found by `lower_bound` and passed by arithmetic on ranges. Hard: a raw pointer
kept after the unlock; the position between calls; the ends of ranges and of the
key space. Correct when: each listing delivers every entry once, in order, and
then ends, whatever else is open.

*Lookup and reading* (`getPlaceholderInfo`, `getFileData`). No state of their own.
Correct when: a name opens exactly if the listing of its directory shows it, and as
what the listing shows; a read returns the bytes of the window asked for and
nothing else, for any offset.

*Life cycle* (`ServiceMain`, `initialize`, `run`, `stop`, the control handler). State:
`m_run` with its mutex and condition variable, the reported service status; on disk
the file `virtualizationInstanceId` and the placeholder mark of the root directory;
in the system the registered service and its `.ini` file. Interacts with the service
control manager (a second thread delivers stop) and with ProjFS. Hard: stop racing
the start and the wait; a crash or a failing call between two steps that must both
happen; decisions at start that rest on what an earlier process left. Correct when:
a stop request ends the service, success is reported only after a stop, and no start
fails because of an earlier one.

*Inode tree* (`createInode`, `pathToInode`). Built once from the file names. Hard: names
that are file and directory at once, names that repeat, names inside `\by-id`.

### The library (src/ESOData)

| Component | State and operations | What is hard, what makes it correct |
|---|---|---|
| Database manager | `m_loadedTables`, `m_loadedDefs`; `fetch`, `clear` | a table is filed before it is loaded, any read may throw and the caller retry; a fetch returns the row asked for, of a supported version, or null when there is none |
| Hash table | slots with tags, read from a manifest; `find`, iterators | removed slots, full tables, wrap-around; find is exact and ends, iteration meets each key once |
| Archives, filesystem | open data files, manifests, file tables; `addManifest`, `loadFileTable`, `readFileByKey`, `enumerateFiles` | an archive whose construction fails half way; a read gives the content of the file from the first archive that holds it, checked, of the size announced |
| Oodle | two function pointers | used without having been loaded |
| Serialization | input regions, nested output streams, byte order | lengths at the width of their type, room for a length left before a segment is written; what is written is read back |
| Definition files, index, world files | formats | fields in the order they were written, present under the same conditions |
| Dynamic database | vectors of definitions and caches of pointers into them; `loadDirectives`, `loadDef` | sorts and reallocations under pointers, aliases, a second load; a record has the fields its directive names with the values of its row |
| Depot | lists of manifests, tables and versions; `loadDirectives`, `load` with a callback, `validateDepot` | cancellation and failure half way, then another call; what was promised is loaded and reported |
| Directive files | lexer state, parser state; `parseFile`, `processLine` | end of file in any state, blocks left open; no line is lost silently |
| Granny2, Cryptography, IO | wrappers of external libraries | little that a model would show |

### The compiler of definitions (src/ESODefCompiler)

Reads directives, nests types named `A_B` into `A`, records dependency edges between
siblings and writes C++ types in an order that respects them. Hard: the order of
nesting, cycles, edges between nested and outer types, names that C++ takes for another
type. Correct when: a type is complete where C++ needs it to be, every name means the
type it was made from, and bad directives end in an error.

### Who calls whom

`ServiceMain` -> `initialize` -> `Filesystem` (-> `Archive` -> manifest, `HashTable`,
`Oodle`), then `run`; ProjFS -> the callbacks -> the immutable maps and
`Filesystem::readFileByKey`; `ESODepot` -> `Filesystem`, `ESODatabase`, `DatabaseManager`;
compiled definitions -> `DatabaseManager::fetch`. The only concurrency inside the code
is that of the ProjFS pool and of the control handler; the library itself locks
nothing.

## 2. Modules

| Module | Models | Correspondence |
|---|---|---|
| `ByIdNames` | arithmetic of `\by-id` | `parseByIDName` as a cursor that advances by a component, `byIdSplit` as arithmetic modulo the key space; `KeysUnder` is the reference, digit by digit, that no callback computes |
| `MountContents` | `m_files`, the inode tree | `LowerBound`/`UpperBound` are the map's; `Contents(path)` is the reference listing |
| `DirectoryListing` | (abstract) | what a listing promises to its caller |
| `DirectoryEnumeration` | the three enumeration callbacks | a step per critical section, per component parsed and per entry passed; `frame` is a callback's stack, `session` and `scan` are what ProjFS and the caller know |
| `FileLookup` | `getPlaceholderInfo`, `getFileData` | a step per component parsed and one for the answer, every early return a status |
| `InodeTree` | the rest of `initialize`: `enumerateFiles`, `createInode`, `enumerateFileNames` | `inodes` is the tree as a function of paths, `creating` the argument of `createInode`; a step per file, per component made and per name. Instantiates `MountContents` with what it builds |
| `ServiceLifecycle` | `main.cpp`, `initialize`, `run`, `stop` | `pc` is where `ServiceMain` is; a step per call that changes the disk, the lock or the status |
| `DatabaseManager` | `DatabaseManager` | a step per read that may throw |
| `HashTable` | `HashTable` | `Insert` and `Remove` are the unknown writer of the file; `find` is a step per probe |
| `ArchiveStore` | `Filesystem`, `Archive`, `LoadOodleLib` | `task` is the call of `Filesystem` that runs, `call` the `Archive::readFileByKey` in it, a step per stage: stored data, Oodle by its first bytes, the switch over compressions, checksum, signature |
| `FileFormats` | `operator <<` and `operator >>` of all file types | a format is a sequence of operations, with a parameter where the two operators differ |
| `FileStreams` | the streams, segments, vectors, `zlib`'s framing | `streams` is the stack of nested streams and `todo` that of the operators that run on them; a step per field, written and then read. The formats are a parameter (`FormatOf`), so that what is proved holds for any |
| `FieldContainers` | `ESOFieldContainer` | a container keeps the order of its names; what a parse comes to is a value and the rest of the row, or that it threw |
| `RecordParsing` | `parseField`, `parseStructureIntoRecord` | recursive operators from a row to a container of named values, or to the point where it threw |
| `Depot` | `ESODepot`, `ESODatabase`, `ESODatabaseDef` | a step per manifest, table and def of `load`, each with the callback's answer; pointers are positions with the allocation they point into; `std::sort` leaves equals in any order; how a row is parsed is a parameter (`ParseInto`), so that what is proved holds for any parser |
| `DepotRecords` | (property) | `Depot` with `RecordParsing`: what the records are that a load leaves; its run gives `ParseInto` the value `ParseStructure` |
| `DirectiveFiles` | `DirectiveFile::parseFile` and the `processLine` of each kind of file | a step per letter; the step that ends a line is `processLine` with it |
| `DefCompiler` | `ESODefCompiler` | a step per directive inserted and type nested, and per call, heading and trailer of `generateType`, with its stack |

Each has a module `MC...` with its instance for TLC (`ByIdNames`, `MountContents`,
`DirectoryListing`, `FileFormats`, `FieldContainers`, `RecordParsing` and `DepotRecords` are checked
through those that use them). What is proved is in a module `..._proofs`:
`MountCallbacks_proofs` is about `DirectoryEnumeration` and `FileLookup`, `Data_proofs` about
`Depot`, `DatabaseManager` and `FileStreams`, `Directives_proofs` about `DefCompiler` and
`DirectiveFiles`, the others about the module in their name.

**Abstractions.** A path is a sequence of numbers: numbers below `Base` are the two-digit
hexadecimal names, in their order; names that differ by case only are one number, as
ProjFS takes them; a trailing or doubled separator is not represented. A search
expression is the set of names it accepts. A buffer is the number of entries that
fit. File contents are their size. A GUID is "plain" or "binary" (one that text mode
delivers incompletely). A database row is its table and id. A slot of a hash table
holds its key instead of an index into the vector of keys. Digits in base `Base` stand
for bytes; the proofs hold for 256 and 8.

Data of an archive is "stored", the "content" of the file, or "garbage", which the checksum
is taken to tell from the content; of a file are kept its sizes, its compression, what its
first two bytes look like and its damage. In `FileStreams` a byte is a digit to the base
`Base` and what deflate makes of a segment is one byte that stands for it. In `Depot` a
row is the items its fields are read from, and directives and manifests parse or throw.
In `DirectiveFiles` a keyword is one letter, and a constant says which tokens are
numbers. In `DefCompiler` a name is the parts between its underscores, and of the text
written only headings, trailers and the names in them are there; the order of a `std::map`
is any that puts a name before those it begins.

**Notable facts kept in the model.** `\by-id\placeholder` is an inode that can be opened by
name and that no listing shows. The root lists `by-id` even when no archive holds a
file. `emplace` does not replace an enumeration filed under the same GUID.

A name that is published as a file keeps the children that other names put below it, and
nothing lists them (`FilesAreListed` excepts these); the empty name, or the separator
alone, turns the root into a file, so that `TreeIsRooted` of `MountContents` fails;
`\by-id\placeholder` has the `fileKey` 0 that `make_unique` gives it, so that
reading it reads file 0. A name without a leading separator ends the process: `createInode`
inserts into the children of a null pointer.

**Assumed of the outside.** ProjFS gives every open directory its own GUID and does not
overlap two callbacks for one GUID; a call that returns `S_OK` without entries is the
end of a listing. The service control manager delivers stop only while the service
reports `SERVICE_RUNNING`, accepts status reports, and passes `ServiceMain` the arguments
of the start request only. `PrjMarkDirectoryAsPlaceholder` refuses a marked directory,
`PrjStartVirtualizing` an unmarked one. Two processes do not serve one root at once. Files
on disk do not change under a running call. `FileLookup` assumes of the tree (`TreeAssumption`)
that no file is published as `\by-id` itself and that names are published for known keys;
that its `DataSize` are the sizes listed is `SizesAgree` of `ArchiveStore`.

## 3. Runs

Deadlock is checked for the mount's callbacks, its service, `DatabaseManager` and `HashTable`,
which may not stop. `initialize`, a file that is written and read, a directive file and the
compiler come to their end; `ArchiveStore` and `Depot` stop after a crash or at the bounds on
their calls.

| Run | States | Instance | Shows |
|---|---|---|---|
| `MCDirectoryEnumeration` | 6,446 | 1 thread, 1 GUID, 12 paths, keys of 3 ternary digits, room 0..2, 2 restarts | `ImplementsListing` (refinement of `DirectoryListing`), `DeliveredInOrder`, `ScanEnds`, `TypeOK` |
| `MCConcurrentEnumeration` | 209,628 | 2 threads, 2 GUIDs, one inode directory and `\by-id`, symmetric | `NoDanglingPointer`, `ListingExact` |
| `MCFileLookup` | 14,577 | every path of up to 5 components, 3 binary digits; data longer and shorter than announced, and unreadable; 5 offsets and 3 lengths | `LookupAgreesWithListing`, `ReadClipped` |
| `MCInodeTree` | 10,971 | 2 archives that share a key, 2 file tables of at most 1 and 2 of 9 names | `TreeIsExact`, `FilesAreListed`, `SizesOfFirstArchive`, `BuildEnds` |
| `MCServiceLifecycle` | 1,387 | crashes at every point, failures at every fallible call, both kinds of GUID | `InstanceFileMatchesRoot`, `FailuresAreExcused`, `SuccessMeansStopped`, `StopIsHonoured`, `TypeOK` |
| `MCDatabaseManager` | 1,681,441 | 6 tables (0 included, one of another version, one refused by its flags, three compiled for version 0: one of that version, one of another, one with too little data for its header), 3 ids | `FetchIsExact`, `OnlySupportedVersions`, `TypeOK` |
| `MCHashTable` | 8,911 | 3 slots, 3 keys, two of which collide in the last slot | `FindExact`, `IterationExact`, `FindEnds`, `TypeOK` |
| `MCArchiveStore` | 985,791 | 2 manifests, 3 keys, a file of every compression, first bytes and damage, with and without signatures, precise sizes and the Oodle library | `ReadIsExact`, `SizesAgree`, `MountedFilesRead`, `TypeOK` |
| `MCFileStreams` | 66,659 | every format in both byte orders, every value a condition depends on, lengths 0 to 2 and some that do not fit | `RoundTrip`, `StreamsAligned` |
| `MCDepot` | 433,541 | 9 directories of directives, 9 disks, a field of every kind; every step cancelled or failing, 2 calls of each | `PointersExact`, `RecordsExact`, `LoadReports`, `RetryKeepsPrecedence` |
| `MCDirectiveFiles` | 117,571 | two lines of eight tokens in every spelling, cut at every letter; every pair of database lines in every block | `TokensRecovered`, `RecordsAreBlocks` |
| `MCDefCompiler` | 1,883 | 13 sets of directives: three levels, keys both ways, shadowing, diamond, duplicate, orphan, unknown types, cycles, a type within itself | `NestingExact`, `DefinedBeforeUse`, `NamesResolve`, `CompilationEnds` |

**Bounds and why they suffice.** *Enumeration:* three digits give ranges at the top, in the
middle and at the bottom, which are the three cases of the callbacks; ternary digits give a
first, a middle and a last child; the files put two keys in one child, one in another, one
at the end of a range, one at the last key of all, and leave children empty. Room 0 to 2 gives an entry that does not
fit at the beginning of a call, after an entry and at the end of a listing. `MaxRestarts`
only bounds how often one directory is restarted; after a restart nothing of the scan
before it is left. Two threads and two GUIDs are all that can interact: a callback
touches one entry of the map. *Database manager:* ids reach the table indices and `IdSpace`
is small, so that every collision of the two kinds of keys occurs; each way in which file,
compiled version and a failed load can meet has a table. *Lookup:* offsets and lengths put the
window before, across, at and past the end of the data and of the size announced. *Hash table:* three slots
allow a chain over a removed slot that wraps around, and a table without an empty slot.
*Inode tree:* three names are enough for a conflict, a repetition in one table or in two,
and a directory shared by two files; paths of up to three names have a directory to make
before, between and after others. The state space of `ServiceLifecycle` is finite without
any bound.

*Archives:* a read goes through one archive after the archives before it, so two manifests
(`MaxArchives` bounds how many are added, the same one twice included) and a key in one, in
both and in none give every order. *Streams:* base 4 makes 16 elements too many for a length
of two bytes. Every operation and every condition of every format is reached; a sized segment inside another
occurs in no format, so that seeking in a stream nested twice is not reached by TLC; the
theorem about it holds for any depth (section 5).
*Depot:* `MaxDirectiveLoads` and `MaxLoads` of 2 are a call and one after it, which finds what
any number of calls before it may have left: lists, archives and defs only grow. *Directive
files:* the lexer keeps nothing of a line but the tokens, so two lines are what can interact;
a block of two lines has each kind of line first, after each other kind, and last.
*Compiler:* three levels give a type whose parent was moved and one whose parent was not;
`StackLimit` is more than the types there are, so that only a cycle reaches it.

**Exceptions.** The properties of listings except the directories of `\by-id` whose last child
holds the last key of all and a file (`WrapsAround`), of which the instances have some;
`FetchIsExact` leaves out table 0, and a null from a table compiled for version 0 whose index
file was not read (`LooksLoaded`); `InstanceFileMatchesRoot` and
`FailuresAreExcused` except three steps (history variable `spoiled`); `FilesAreListed` leaves
out files below a name that is itself published as a file, and names in `\by-id`;
`Unreadable` lists why a read may fail, `MountedFilesRead` excepts files of one byte;
`PointersExact` leaves out what follows a second load of a database; `Readable` leaves out def
files, manifests of version 3 with other than one data file, and lengths that do not fit;
`NamesResolve` excepts shadowed names and keys to nested types; `DefinedBeforeUse` excepts a type
that uses itself and a base nested in its user (`NamedWithin`), and says that these are never
complete. Each is in section 4.

**Fairness.** `DirectoryEnumeration!FairSpec`: a callback that has started runs on (weak, per
thread: nothing in it waits but for a mutex that is held for one step), and a caller
that gets infinitely many chances to ask for more with room for an entry takes one
(strong, since other callers may occupy the pool in between); nobody is obliged to open or
close anything. `ServiceLifecycle!FairSpec`: `ServiceMain` goes on whenever it can (a
thread of its own, whose calls return); nothing is assumed of starts, stops, crashes
or spurious wakeups. `HashTable!FairSpec`: a call of `find` runs on.
`InodeTree!FairSpec` and `DefCompiler!FairSpec`: one call on one thread runs on.

## 4. Disagreements

What the models do because the code does, against what its callers or its own text expect.
The properties except these by name (section 3); everything else they say holds.

*The mount.*
- A listing of `\by-id` that reaches the last child of the key space does not end: the
  position after it is 0, the loop ends, and the next call starts from key 0
  (`ProjectedFilesystem.cpp:532`). The properties of listings leave these directories out
  by the name `WrapsAround`.
- A GUID with certain bytes can be used once: it is written in binary and read in text
  mode, so that the next start finds it incomplete, marks the root again and is refused
  (`ProjectedFilesystem.cpp:121`).
- A crash between the instance file and the mark is permanent: the file can be read, later
  starts skip the mark, and the unmarked root is refused (`ProjectedFilesystem.cpp:153`).
  So is the end of the process when `FileGuard` cannot remove the file: the exception of
  `std::filesystem::remove` leaves a destructor (`ProjectedFilesystem.cpp:145`).
- A registered service does not see its options: they are in its command line
  (`main.cpp:176`), it parses the arguments of the start request (`main.cpp:97`).
- Neither the service nor `ESODepot` calls `LoadOodleLib`, so that Oodle data is a call
  through a null pointer; and with precise sizes one file that cannot be read makes
  a manifest with signatures impossible to add.

*Archives* (`Archive.cpp`, `oodle.cpp`).
- `LoadOodleLib` returns true whether or not the library was found.
- Data stored raw or with snappy that begins with Oodle's magic bytes is lost (`:110`).
- An empty file reads `data[0]`, a file of one byte that begins as Oodle's does `data[1]` (`:110`).
- A file that fails in the first archive is not looked for in the others.
- Without precise sizes a file's announced size includes its signature.

*Formats.*
- `ManifestFileEntry` reads the archive index and the compression type in the other order.
- A definition file's header is written without the version that is read (`DefFile.cpp:19`).
- A manifest of version 3 is not read back unless it has one data file; none makes the
  reader count down from zero.
- The length of a `SizedVector`, and that of a terrain row, is cut to its type while every
  element is written.

*Database.*
- A table refused for its flags is read on the second fetch (`DatabaseManager.cpp:64`).
- A table is filed before it is loaded, with version 0 (`DatabaseManager.cpp:49`). If its index
  file then cannot be read, the next fetch takes it for loaded, and only the version check
  stops it (`:68`). A DEF without `VERSION` has version 0 (`DatabaseDirectiveFile.cpp:91`) and is compiled
  for it (`ESODefCompiler.cpp:346`): every row of such a table is then reported as absent, by null,
  for good. No row is ever read from a half-loaded table, though: if the index was read and the
  data file was not, reading the row throws, and the header, which is read from the data in
  memory, cannot be read only if they are shorter than any row.
- Objects are cached under another key than they are looked for (`DatabaseManager.cpp:90`):
  the cache hits for table 0 only, which then returns objects of other tables.
- A second `loadDirectives` leaves the defs of the first with pointers into a context that
  is gone.
- An alias of an alias throws; when a directive file throws, what was parsed of the
  others stays appended.
- A load reports one step more than `getExpectedNumberOfLoadingSteps`; a load that is
  repeated adds archives again and gives records their unnamed fields again.

*Directives and their compiler.*
- A heading in a block whose `END` is missing is one of its fields if it is a field type's
  line; the end of the file closes a block.
- A cycle of uses is a stack overflow, and what was written by then stays.
- A nested type hides a root type of its name from the types beside it, and only keys to
  root types are declared before they are used.
- The compiler accepts a type that has itself as the type of a field or as its base, and one that
  derives from a type nested in it: `addDependencyToType` refuses only what is around the user
  (`ESODefCompiler.cpp:133`). What it writes then names an incomplete type, which C++ refuses,
  unless the field is a `std::vector` of it.

## 5. Proofs

All theorems are for arbitrary constants that satisfy the named assumptions of the
modules (base and number of digits, a table of powers, a finite-width key space, any
files and tree, any sets of threads, GUIDs, paths and expressions; any sets of crash and
failure points; any tables and rows; any table size and hash function; any file formats). No
behaviour is excluded beyond what section 2 says.

**`ServiceLifecycle_proofs`** proves all five safety properties of its run. `TypeOK` is
inductive because it says where `run` holds its lock and its virtualization.
`InstanceFileMatchesRoot` is too: in the steps between deciding to re-create and marking,
the root is unmarked; everywhere else file and mark agree, unless `spoiled`.
`FailuresAreExcused` needs, on top, that a root about to be virtualized is marked and one
about to be marked is not. `SuccessMeansStopped` needs that `run` is only left when `m_run`
was cleared, and that only a stop request clears it.

**`HashTable_proofs`** proves `FindExact` and `IterationExact` for any size. The invariant:
every stored key has, in the probe sequence of its hash, no empty slot before it, and is
stored once; during a search, no slot probed so far holds the key. From these a search
that meets an empty slot, or has gone round once, knows that the key is absent.

**`Data_proofs`** proves for `Depot` `LoadReports`, `RetryKeepsPrecedence` and `PointersExact`, for any
directories of directives, any disk, any number of calls and any way in which a row is
parsed. The types say that every vector is a list (`ListsOK`, `DatabaseOK`) and that the number
of the context is the number of calls that made one. `LoadReports` needs what a load has done at each
step: the first `progress` of the manifests, tables and defs are loaded (`ReportsInv`). The
invariant of `RetryKeepsPrecedence` is stronger than the property: besides its order, what is in
the file system includes the first `progress` manifests whenever a load runs. `PointersExact` is not
inductive, since it says nothing until all defs are made. Its invariant follows the
calls: while aliases are resolved, every def of the directives is in the context, the aliases
done are made (`AliasMade`), those left are the rest of the directives', and the cache, which
is of the time before, still leads to defs of the directives (`Resolving`): defs are only added
behind those it points to. Once the defs are made, each points to its own place
in the context and every name to the first that has it (`PointersLead`), and only a second
call can change that. That the first is found rests on the least element of a set of
positions (`LookupFindsFirst`); that the sort loses nothing on what a bijection is
(`SortedHasTheSame`).

For `DatabaseManager` it proves `FetchIsExact` and `OnlySupportedVersions`. The invariant:
a table whose version was read is complete, every cached object is filed below `IdSpace`
(so that no key of a table other than 0 hits it), and the rows of a table are those of its
index unless that was lost. A fetch past the version check has either a complete table of the
right version, or one compiled for version 0 that was never loaded to the end: of this no row
can be read, since its data are not there or too short (`DataHasRows`), and null is right unless the
index was lost.

For `FileStreams` it proves `StreamsAligned`, for any formats, widths, values and byte order, and
sized and deflated segments nested in one another to any depth. The property alone is not inductive:
the length of a segment is put behind what was written since, and the stream in whose data
it goes may be several targets away. The invariant (`Aligned`) says, besides, that no stream
stands behind one nested in it (`Descending`), and that a nested stream begins four bytes
after the position it will go back to (`AtEnds`). `SeekMoves` shows that `setCurrentPosition`, which each nested
stream passes on to its target with its offset added, moves all of them equally far; `PutMoves` the same of
`getRegionForWrite`. So the three calls at the end of a segment (back, the length, forward)
move them by amounts that add up to nothing, and the four bytes lie within the data there
are (`LengthPutBack`). The record of what is still to do is a stack in step with the streams.
No length has to fit its type for this: one that is cut is wrong where it is read, not
where the streams stand.

**`MountCallbacks_proofs`** proves for `DirectoryEnumeration` `TypeOK` and `NoDanglingPointer` for any pool.
The invariant has four parts: shapes of the variables; at most one callback per GUID;
for each thread, the range parsed so far is a block of keys (`IsBlock`, all keys that
share their leading digits) and a fetch has a live enumeration of the caller's path; for
each GUID, the enumeration's range is such a block and its position a key. `IsBlock` is
what makes `byIdSplit` defined (it throws for any other range); `ByIdNames_proofs` shows
that parsing preserves it and that a split of it stays within the key space, from facts
on division in the same module.

On top of that it proves, for all constants, `ListingExact`, `DeliveredInOrder` and the
refinement `ImplementsListing`. The invariant `Tracks` relates the enumeration to what its
caller has seen: what was delivered in a scan are the entries wanted that the enumeration
has `Passed` (`Progress`), and what it passed comes before what it has not (`Aligned`: `posID`
is the first key of a child, or `iterator` an upper part of the children), before, in and
after the loop, over any number of calls and restarts. It rests on facts about ranges from
`ByIdNames_proofs`: the range of a directory holds exactly the keys under it
(`Selects`), its children partition it in their order (`ChildrenFillBlock`, `ChildRange`), and
`byIdSplit` returns the child of a key and the first key after it (`SplitOfChild`); this
first key is 0 after the last child of all, which is where `WrapsAround` is needed.
Each step then is one of the abstract listing or none: an entry written is `Deliver`, a call
that leaves empty-handed `End`, a first call or a restart `Begin`, a close `Abandon`.

For `FileLookup` it proves `LookupAgreesWithListing` and `ReadClipped` for any key space, tree
and path. The invariant says that the range parsed so far holds exactly the keys whose
leading digits are the components read (`Selects`): setting a byte of both bounds selects
by one digit more (`PutByteSelects` in `ByIdNames_proofs`, from facts on quotients of
quotients). With it the range is empty exactly when the reference, digit by digit,
finds no file, and one key remains exactly at a full path; a path
parsed to its end is one of `\by-id`, and any other is looked up in the tree (`PathOfRead`). So the key read is that of the
file named, in both branches, and `ReadClipped` remains as an equation of intervals: what is
copied is the window cut to the data. Over both state machines together, in any
interleaving, `ListedNamesOpen` states what ProjFS relies on: an entry that a listing has
delivered opens under its name, as what the entry says, and a name that opens is in every
finished listing that should show it (`OpensAsListed`).

**`ArchiveStore_proofs`** proves all four properties of its run, for any disk. The invariant
has four parts: shapes; an archive in the store is complete, and its sizes are those of the
manifest or, with precise sizes, of what was read; a running call past its search is at
the first archive that holds its key; the data in hand at each stage is what the file's
compression and damage allow, garbage only of a file that is spoilt. `MountedFilesRead` needs
that a file whose precise size is known has passed every check, and that the Oodle library,
once loaded, stays. `SizesAgree` is what discharges `FileLookup`'s assumption on `DataSize`.

**`InodeTree_proofs`** proves `SizesOfFirstArchive`, `TreeIsExact` and `FilesAreListed`, for any
archives and file tables and whatever order the names of a table come in. None of the three
says anything before `initialize` is done, so the invariant says at each moment which
names were taken so far (`Taken`) and what the tree is for them: closed under parents
(`Closed`); nothing in it that is not above a taken name, the placeholder or the name at
hand (`NothingElse`); all of those there (`AllThere`); and under every path the inode of the
last table that has taken it (`Kinds`), which is what lets a later table make a file of what an
earlier one made a directory. `SizesOfFirstArchive` follows from the least archive among
those seen.

**`Directives_proofs`** proves for `DefCompiler` `NestingExact`, `DefinedBeforeUse` and `NamesResolve`, for any
directives and any depth of the stack. While types are nested the invariant says which have
been moved and where each is (`Placed`): a name is moved after the names it begins with,
since a `std::map` meets those first, so that what is moved holds nothing yet. Then each
dependency of a type is nested in it or follows an edge from the type or from one around it
(`Edged`). While types are written, the calls of `generateType` are a depth first search:
over a type in its body the stack holds only types within it (`Beneath`), each call's callees
are complete, left, or the one it waits for (`Pending`), and a type in its body has all its
edges behind it, as have the types around it (`Visits`). A type that is met again is therefore
complete and not half written, which the code does not check: it would have to be within
itself. `DefinedBeforeUse` follows at each heading and trailer, with `Completed`: a
complete type is so with all nested in it. That the two exceptions are never complete needs
that nothing within a type is complete before it is opened (`UnmetIsIncomplete`), nor the type
while it is in its body (`Incomplete`). `NamesResolve` needs that the root of a complete type
has been opened, and that the forward declarations list every root def and alias.
No theorem needs the uses to be free of cycles: with one, the stack overflows before a type of
it is opened.

It proves for `DirectiveFiles` `RecordsAreBlocks`, for any texts, tokens and numbers. The
code adds a line to the last record of the kind that is open; the property speaks of the
whole text: where the headings are, which of its kind each is, and what lines are up to the next
`END`. The invariant (`Blocks`) joins them: every record describes the block whose heading has its
number (`RecordsDescribe`), and a block is open only if it is the last of the kind in
`m_state`, with no `END` in it so far (`OneIsOpen`). Then a line grows one block (`BlockGoesOn`)
and no other, headings keep their numbers (`RankStays`), and it remains that a field spells its
line (`FieldSpells`) and that a line of an enum adds its values, and a name to a value that has
none (`ValuesAdded`).

`MountReadiness` joins `InodeTree_proofs` to the callbacks': what `initialize` leaves satisfies
`FilesAreKeyed` and `TreeIsRooted`, the two assumptions on `m_files` and the tree from which
`MountCallbacks_proofs` starts, unless a file table names the
root itself (section 2).

Four theorems state what no run checks: that a registered service has its configuration
file (`RegisteredServiceHasConfig`), `FileLookup`'s type correctness, `ListedNamesOpen` and
`MountReadiness`.

**Model-checked only.** Liveness (`ScanEnds`, `StopIsHonoured`, `FindEnds`, `BuildEnds`,
`CompilationEnds`), which needs fairness and ENABLED; `RecordsExact`, about what the recursive
`parseField` makes of a row; `RoundTrip`, which compares what two operators make of the same
bytes; `TokensRecovered`, which compares lines with the letters they are spelled in. An
induction over rows, formats or letters is what they would take.

## 6. What is left

**Not modelled.** *Granny2*: tables of type descriptions for an external library, without
state. *Cryptography*: owners of Windows CNG handles; what they compute is the library's,
and `ArchiveStore` has the one thing that depends on it, whether a signature verifies.
*I/O helper and example program*: one read of a whole file, and calls of the library.
Of modelled components: the canonical name that a lookup writes into a placeholder and
failures of ProjFS' write calls; vectors of `bool`, which no format has; the arithmetic
of file ids (constants added); `WorldTerrain::readFromData`'s walk over the directory of its
layers; the text of serializers and enum members that the compiler writes, and its
command line; the hash function, which is a constant.
