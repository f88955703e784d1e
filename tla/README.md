# Models and proofs of the netCDF file-out module of the BES

The repository is a module of the Back-End Server (BES): it turns the DAP
response to a request into a netCDF file and sends it to the client. This
directory holds TLA+ models of it, TLC configurations that check them on small
instances, and proofs checked by TLAPS.

## The system

A BES process is sequential. It answers the requests of one connection after
another; several such processes share the directory `FONc.Tempdir`. There are no
threads and no callbacks; what is hard is

- static state that survives a request (`FONcArray::Dimensions`,
  `FONcGrid::Maps`, `FONcGrid::InGrid`, `FONcDim::DimNameNum`),
- objects shared with hand-written reference counts,
- results that depend on the order of the variables of the response,
- exceptions out of any step, caught in different places by type,
- the temporary file: opened twice (descriptor and name), removed by destructors,
  shared name space with other processes, processes that are killed.

| Component (source) | State | Operations | What makes it correct |
| --- | --- | --- | --- |
| `FONcTransmitter` | temporary file, descriptor, umask | `send_data`, `write_temp_file_to_stream`, `updateHistoryAttribute` | the client gets its own file, whole, or an error; the file is private and removed |
| `FONcTransform` | `_fonc_vars`, `_ncid` | constructor, `transform`, destructor | every variable to be sent is in the file; the file is closed; objects are freed |
| `FONcArray` | `Dimensions` (static), `d_dims`, `d_grid_maps`, `d_dont_use_it` | `convert`, `find_dim`, `define`, `write`, destructor | dimensions shared exactly when they may be; counts right |
| `FONcDim` | `_ref`, `_size`, `_defined`, `DimNameNum` (static) | `incref`, `decref`, `update_size`, `define` | defined once, deleted with the last user |
| `FONcGrid` | `Maps`, `InGrid` (static), `_maps`, `_arr` | `convert`, `InMaps`, `define`, `write`, destructor | a shared map equals the one it stands for; coordinates keep their dimension |
| `FONcMap` | `_ref`, `_arr`, `_ingrid` | `compare`, `incref`, `decref`, destructor | who owns the array of a map |
| `FONcStructure`, `FONcSequence` | `_vars` | `convert`, `define`, `write` | members under embedded names; sequences noted as elided |
| scalars, `FONcStr`, `FONcBaseType` | `_varid`, `_defined` | `convert`, `define`, `write` | one variable each |
| `FONcUtils` | `name_prefix` | `id2netcdf`, `gen_name`, `get_nc_type`, `convert`, `reset`, `handle_error` | legal names, a class for every type, no pointer kept over requests |
| `FONcAttributes` | - | `add_variable_attributes`, `add_attributes`, `add_original_name` | every attribute in the file |
| `FONcModule`, `FONcRequestHandler` | registrations, configuration values | `initialize`, `terminate`, key reading, help, version | the keys in force when the module was loaded decide how files are stored |

`FONcTransmitter::send_data` makes the temporary file and runs a
`FONcTransform`, which asks `FONcUtils::convert` for an object per variable and
calls `convert`, `define` and `write` on all of them in three loops. Grids,
arrays and dimensions meet in the static vectors. Errors are exceptions: a
`BESError` from this code (`FONcUtils::handle_error`, a conflict), an `Error` of
libdap or a `std::exception`; `transform` closes the file for the first kind only.

## The modules

| Module | Models |
| --- | --- |
| `FONcUtils` | names (paths of tokens), types, the variables of a response, `FONcMap::compare` |
| `FONcStructure` | nested structures as the sequence of their leaves, embedded names, members that are not sent |
| `FONcResponse` | abstract: a request is answered with a complete and faithful file or refused, and refused as a conflict only if the variables do not fit in one file |
| `FONcFile` | abstract: how the netCDF file of a request is opened, closed, lost and read back |
| `FONcTransform` | one process: conversion, definition, writing, destruction, over any number of requests |
| `FONcTransmitter` | several processes with their temporary files |
| `FONcAttributes` | the attributes: history, flattening, names, fill values, widths of numbers |
| `FONcModule` | loading and unloading of the module: registrations, configuration keys, help and version |
| `FONcValues` | the factory, chunk sizes, `nc_create`, storage and the write methods, in a process with `FONcModule` |
| `FONcTests`, `FONcAttrTests` | the responses of the repository's test programs and what their baselines say of the files |
| `FONcTransform_proofs` | theorems about `FONcTransform`: its inductive invariant, registries, the file |
| `FONcTransform_refs_proofs` | reference counts, and that a request frees its objects |
| `FONcTransform_arrays_proofs` | maps that grids share, shapes of arrays, alignment of grids; which objects there are, under which names and with dimensions of which sizes |
| `FONcTransform_promise_proofs` | what the file holds, the refinement of `FONcResponse`, and that a request takes finitely many steps |
| `FONcTransmitter_proofs` | theorems about `FONcTransmitter`: types, leftovers, idle processes, the file; names, whose data is sent, privacy, whole files |
| `FONcValues_proofs` | theorems about `FONcValues` and `FONcModule` |
| `FONcAttributes_proofs` | theorems about `FONcAttributes` |
| `NumberInduction` | induction over numbers, in a form the provers can use |
| `MCFONcTransform`, `MCFONcTransmitter`, `MCFONcAttributes`, `MCFONcValues` | instances for TLC |

### FONcTransform

`pc` names the loop the program is in, `vi`, `mi`, `di` are the iterators (variable,
map or array of a grid, dimension). `obj` maps a key `<<variable, k>>` (k = 0: the
variable or the grid's array; k > 0: its k-th map) to the `FONcArray` alive for it,
`held` is `FONcGrid::_maps`, `Dimensions` and `Maps` are the static vectors with the
objects they point at. A deleted `FONcDim` or `FONcMap` stays in the vector with the
count 0, as the dangling pointer does. `ncDims` and `ncVars` are the file.

One action is one turn of a loop: `ConvertArray` is the creation of an array and
the first lines of its `convert`, `ShareDim`, `NewDimension` and `DimensionClash` the
three ends of `find_dim` for one dimension, `ShareMap` and `ConvertMap` the two branches
for a map of a grid, `DefineDim` one call of `FONcDim::define` (which also keeps the identifier
as the dimension's name; nothing reads the name after it), `DestroyVar` one
`delete` with everything the destructors it runs do. `Throw` is stack unwinding: the
program goes to the destructor of `FONcTransform`; `ThrowAndClose` is the `catch` of
`transform`. Lookups stop at the first match, as the code's loops do.

Abstractions: a name is a sequence of tokens, with `Clean` and `Prefixed` for what
`id2netcdf` makes of a token; the data of an array is one value, with `NaNVals` for
data not equal to itself; a structure is the sequence of its leaves; strings have a
length only. The netCDF library refuses a second variable or dimension of a name
and a variable without a type.

### FONcStructure, FONcTests

A dataset is a sequence of nodes in the order in which they were added, each with the
node it was added to. `Embed` is the list of names `FONcStructure::convert` pushes and hands
to its members, `Reached` the order in which `define`, `write` and `delete` reach them, `Flatten` the
response that is left for `FONcTransform`.

`FONcTests` has the responses that the programs of `data/build_test_data` and `unit-tests` build
in memory, with the constraints the tests apply, four of the files `readT` reads (some
variables of each kind: the HDF4 and CEDAR files have hundreds), and for each the header of
its baseline. The run `one` puts them through `FONcTransform`: `BaselineMatch` requires the same dimensions,
variables, types and elided sequences in the same order. This ties the model to what
the program is known to print. `FONcAttrTests` does the same for the attributes of `attrT`.

### FONcTransmitter

Each process has a `pc`, a template name, the inode behind its descriptor (`fd`) and
behind its netCDF handle (`nc`), an offset and what its client has received. The
directory maps names to inodes; an inode is its blocks and whether others may read it.
`Mkstemp` takes any name that is free (`O_EXCL`); the permissions follow the umask, as
with the old `mkstemp` a comment of the code is about. `NcCreate` opens by name: it truncates
the file it finds or makes a new one. `Unlink` removes whatever has the name. `Die`
kills a process between any two steps. `FONcTransform` appears as `NcCreate`,
`WriteBlock`, `NcClose` and its ways to fail.

That this is all `FONcTransmitter` needs of `FONcTransform` is checked, not assumed: `FONcFile` states the
protocol of one netCDF file (opened once, closed when `transform` returns or throws a
`BESError`, lost for another exception, read back only when complete and closed),
and both modules implement it under the mappings `FileUse` in `FONcTransform` and
in `FONcTransmitter`.

### FONcAttributes

One response at a time. An attribute table is the sequence of its entries in the
order of the recursion of `add_attributes`, each with the index of its container. `ds` is
the response, which the code changes on the way: `UpdateHistory` appends to
it, `WidenFill` changes the type of a fill value. `vi`, `ti`, `ai` are where the loops
are: variable (or `NC_GLOBAL`), table (those of the parents, outermost first, then
the variable's own), entry. `calls` is the stack of calls of `add_attributes`, a
container and its `prepend_attr` each: `EnterContainer` pushes, and an entry outside of
the container pops (`Returned`). `Put` is `nc_put_att_*`: an attribute of the same name is
replaced. `asked` is the response as it came, for properties only.

A line of text is a path; a number is an integer, cut to its type as the
stream extraction does it (`Clamped`, `Wrapped`) with `ByteMax`, `ShortMax` and `IntMax` for
the limits, and `NaN`, which a stream does not parse, becomes 0. `PutFails` stands for
every error, one of the assertion in `handle_error` included.

### FONcModule, FONcValues

`FONcModule` has what the lists of the framework hold of the module (`handler`, `transmitters`, `formats`)
and the static configuration (`conf`). `Initialize` is the maker, `initialize`
and the constructor of the request handler; `InitializeFails` is that constructor with an
exception out of `string::erase`, for a key without a value: `key[key.length() - 1]` reads what
precedes the text, so whether it throws is a choice. `Terminate` empties the lists but for the formats, which `terminate` leaves. The module may be loaded
again: the constructor tests whether a directory is known already, which it is only then. The static members have
stayed if the code stayed mapped, otherwise they start anew, and the keys may be others.

`FONcValues` extends it with requests, followed for one variable at a time. `Made` is the choice of
a class in `FONcUtils::convert` with the test of its constructor, `Convert` also the part
of `FONcArray::convert` that sets sizes and chunks, and `setVersion`, which reaches top-level variables
only. `Create` is `nc_create` with the mode of the version and the keys, `DefineArray` chooses the storage.
The write actions are the write methods of the classes: the numbers of an array go to the library
in one call (`IndexOf` is its row-major order), its strings one by one with the index in
`start`, which `Bump` carries over as the loop on `var_start` does. The length dimension may be
longer than the variable's strings need, because another array shares it.

`read_int` drops a number unless something follows it in the value: `istringstream` is at
its end after a plain number and the default is taken. `FONc.ChunkSize` therefore has no
effect, and no property is about it.

## The runs

| Run | Instance | Shows |
| --- | --- | --- |
| `one` | all responses of one or two variables of a catalogue of 30, and those of three of 6, and those of the test programs; netCDF calls may fail; a process per request | counts, registries, sharing, ownership, alignment of grids, closing, freeing; the answer is what `FONcResponse` promises; the files of the tests have the headers of their baselines; the file is used as `FONcFile` allows; every request ends |
| `many` | four responses in any sequence in one process; netCDF calls and libdap may fail at any step | registries never hold deleted objects while a response is worked on; each request frees what it made, but for one array after an exception |
| `temp` | two processes, three requests of one or two blocks, three names; netCDF errors, killed processes | isolation, whole files, privacy, clean idle processes |
| `ends` | two processes, two requests, two names; `mkstemp`, netCDF, libdap, read and stream errors | no file outlives its request; the netCDF file is used as `FONcFile` allows; every request ends |
| `members` | two structures with equal coordinate arrays | one of them is not in the file under its name (finding) |
| `lengths` | a dimension named like a string-length dimension | it is enlarged (finding) |
| `ingrid` | a failing grid, then another request | `InGrid` stays set (finding) |
| `values` | variables of every type, with up to three dimensions, as netCDF-3 and netCDF-4, at the top and inside of other variables, and 11 configurations; loading, which may fail, unloading and loading again with another | every value in its place and as the same number where the file's type has it; chunk sizes fit; chunks and compression are asked of netCDF-4 files only, compression of top-level arrays as `FONc.UseCompression` says |
| `uint16` | the same | scalars of UInt16 overflow (finding) |
| `attributes` | responses of up to two variables of a catalogue of 12, with eleven tables of global attributes | every attribute is in the file under its flattened name with its values; the old history and the new entry; types of fill values; the attributes of the test `attrT` |
| `history` | two `_GLOBAL` containers, each with a history | the new entry is overwritten (finding) |
| `read` | a read error while streaming | the client gets part of the file and no error (finding) |

The catalogue of `one` has the cases the code tells apart: coordinate arrays inside
and outside of structures, grids with equal, different and NaN maps, maps of another
size, projections without the array or a map, unnamed dimensions, names that become
one identifier, string arrays, arrays of Url, sequences, an unknown type, variables
that are not sent. All sharing is between two users, and what a third one can add is
in the triples: it meets a name after it has been shared or refused. `FONcDim` and
`FONcMap` counts therefore reach 3. Two processes are enough for `FONcTransmitter`
because interference is pairwise (a name, an inode); three names let two processes
work while a third file is left by a killed one. Two blocks tell a whole file from part
of one.

The tables of `attributes` nest containers three deep, with empty ones and
empty attributes between others, leave two levels at once, have names that meet once
they are flattened or cleaned, containers ending in `_GLOBAL` at the top, below another
and in a pair, histories in each place `updateHistoryAttribute` looks or does not look, and
numbers at and beyond each limit (`ByteMax` 1, `ShortMax` 3, `IntMax` 7: only their order matters).
`Flattened` computes the names from the containers an entry is in; where two attributes
have one name it requires only that the last is there.

`values` has the smallest widths in which each type still holds the next smaller
unsigned one (`ByteMax` 1, `ShortMax` 3, `IntMax` 7) and numbers at each of their limits; shapes
with sizes of 1 at each place and a carry over two dimensions; sizes below, at and above
`MAX_CHUNK_SIZE` 2.

Bounds: `MaxBlocks`, `MaxRequests` in `FONcTransmitter`. `Terminating` stands for
a server that waits when the bound on requests is reached.

Fairness: `WF_vars(Step)` in `FONcTransform`, `WF_vars(send_data(p))` for each process in
`FONcTransmitter`: a process with a request runs on; that requests arrive, and that
a process is killed, is not assumed.

## What is proved

For all requests, variables, attributes, names, values, numbers of processes and
kinds of failures, but for the hypotheses named below. All theorems are about `Spec`.

| Theorem | States |
| --- | --- |
| in `FONcTransform_proofs` | |
| `Invariance` | the inductive invariant `IInv` |
| `TypeCorrect` | `TypeOK`: types, and pointers that stay within the registries |
| `OneDimPerName` | `DimNamesDistinct`: one dimension per name |
| `OneMapPerValue` | `MapsDistinct`: no two equal maps |
| `FilesClosed` | `NcClosed` |
| `FlagMeansGrid` | `InGridMeansGrid`, if each request has a process of its own |
| `RegistriesLive` | `RegistryLive`: nothing in use is deleted, over all requests of a process |
| `ImplementsFile` | `FileUse`: the refinement of `FONcFile` |
| in `FONcTransform_refs_proofs` | |
| `ObjectsKnown` | `ObjInv`: finitely many objects, of what has been converted |
| `DimsCounted`, `MapsAreCounted` | `DimRefs`, `MapRefs`: every count is the number of pointers |
| `EveryObjectOwned` | `EndInv`: who deletes each array |
| `RequestsFreed` | `Freed`: what a request leaves behind |
| in `FONcTransform_arrays_proofs` | |
| `SharingKnown`, `ShapesKnown` | `ShareInv`, `ShapeInv`: what grids hold, and what dimensions arrays have |
| `MapsSharedAgree` | `SharedMapsAgree`, under `OneDimMaps` |
| `GridsKeepCoordinates` | `GridsAligned`, under `OneDimMaps` and `NamedMaps` |
| `SourcesKnown` | `SourceInv`: the objects are those of what is to be sent, or an equal map is registered; under `Standalone` and `OneDimMaps` |
| `MeasuresKnown` | `MeasureInv`: the names and sizes of all dimensions of all arrays; under `LengthsApart` besides |
| in `FONcTransform_promise_proofs` | |
| `FilesKnown` | `FilingInv`: the file holds what the loops of `define` and `write` have passed, once each; under `Standalone` and `OneDimMaps` |
| `PromiseKept` | `Promise`: the refinement of `FONcResponse`, under `Standalone` and `ProperResponses` |
| `ShapesAreKept` | `ShapesKept`, under `Standalone`, `OneDimMaps` and `LengthsApart` (without the last the run `lengths` breaks it) |
| `MembersAreNamed` | `MembersNamed`, under `Standalone`, `ProperResponses` and `MembersApart` (without the last the run `members` breaks it) |
| `StepsComeToAnEnd` | every step of a request, failures included, lowers a rank in a well-founded order; no hypotheses |
| in `FONcTransmitter_proofs` | |
| `TypeCorrect` | `TypeOK` |
| `NothingLeftOver` | `NoLeftovers`, whatever fails |
| `IdleClean` | `IdleIsClean`, without exceptions of libdap |
| `IdleHoldsNothing` | what of it holds with them: no descriptor, no name, its own umask |
| `ImplementsFile` | `FileUse`: the refinement of `FONcFile`, for each process |
| `NameOwned`, `OwnDataSent`, `PrivateFiles` | `NameIsOwn`, `OwnData`, `FilesPrivate`, if `mkstemp` does not fail |
| `WholeFileSent` | `WholeFile`, if `mkstemp`, reads and the stream do not fail |
| in `FONcValues_proofs` | |
| `StorageIsAllowed` | `StorageAllowed`, over any number of loadings, with any keys |
| `EveryValueKept` | `ValuesKept`, for any number of dimensions and any sizes |
| `ChunksAlwaysFit` | `ChunksFit` |
| `TypesAreKept` | `TypeOK`; the index carried over in `FONcArray::write` stays in the array |
| in `FONcAttributes_proofs` | |
| `TypeCorrect` | `TypeOK`: the stack of calls is a chain of containers |
| `AttributesFlattened` | `Flattened`, for any nesting of containers |
| `FillTypesMatch` | `FillMatches`, under `FillsAlone` |
| `HistoryIsKept` | `HistoryKept`, under `HistoriesAlone` |
| `EntryIsRecorded` | `HistoryRecorded` for every response with no history or with one where the code looks for it, under `HistoriesAlone` |

Assumptions, all evaluated by TLC on the instances: `TokenAssumption` (the suffixes are tokens,
identifiers are made token by token), `RequestsAssumption` (requests are sequences of
variables), `BoundsAssumption` and `SizeAssumption` (bounds are numbers, each type holds the
next smaller unsigned one), `VariablesAssumption` (a variable has a value of its type for each
index, and its length dimension holds its strings: the last is what `FONcTransform` does),
`WidthAssumption`, `DatasetsAssumption` (a table lists its entries in the order of the
recursion), `NamesAssumption`.

Hypotheses of single theorems. They are stated with the theorem, since the code can be
used where they fail; the catalogues of the runs satisfy them (`CatalogueAssumption` in
`MCFONcTransform` and `MCFONcAttributes`, which TLC evaluates).

- `OneDimMaps`: the maps of grids are vectors, as DAP's are. `FONcMap::compare` looks at the first
  dimension only (`FONcMap.cc:134-160`).
- `NamedMaps`: the dimension of a map has a name, which does not end in `_len`, and the grid's array agrees
  on its size. A dimension without a name is never shared, one that ends in `_len` may be enlarged
  (the run `lengths`), and two of different size are two dimensions.
- `Standalone`: a process for each request, as `besstandalone` has it. Otherwise `InGrid` may be left set
  by a grid that failed (the run `ingrid`), and coordinate arrays of the next request are no longer shared.
- `ProperResponses`, the responses as DAP has them and as far as they avoid a known error: simple variables have no
  dimensions and only `Str` and `Url` hold strings (`SimpleVars`); maps are vectors named like their dimension
  (`CoordinateMaps`, which implies `OneDimMaps`); equal arrays of strings have equally long strings (`EqualLengths`, which only says
  that a length is a function of the data); and no dimension is called like the one made for the strings of
  another array and shorter than they are (`LengthsApart`, the case of the run `lengths`).
- `MembersApart`: a coordinate variable that stands for a member of a structure has its name (the other case is
  the run `members`).
- `"mkstemp"` is not among the failures: `mkstemp` that fails may leave the last name it tried in the
  template, and `~wrap_temp_name` unlinks it whoever made it (`FONcTransmitter.cc:114-118` and `260-265`). Another process
  may then open a new file by the name it lost. With this failure TLC finds `NameIsOwn`, `OwnData` and
  `FilesPrivate` violated; the run `temp` has none, the run `ends` has it.
- `"libdap"` for `IdleIsClean`: `transform` does not close the file for an exception that is not a `BESError`.
- `FillsAlone`: no other attribute of an array is called `_FillValue` once flattened, a legal
  identifier, and no array is of Url (which `nc_def_var` refuses). Otherwise the last of them decides the type.
- `HistoriesAlone`: attributes called `history` have values, containers have names, and
  `history` is a legal identifier.

### The invariants

`FONcTransform`. `TypeOK` is not inductive: `ShareMap` reads the array of a registered map, `WriteData` a
varid. `IInv` adds where the loops are (`CursorOK`), that a variable is converted before
the next one starts (`EarlierOK`, `MadeOK`), which keys objects have (`KeysOK`), and who
owns a map: the grid that made it or the array that registered it, alive while anything
counts on it (`OwnersOK`). `DimNamesDistinct` and `MapsDistinct` are inductive only
together with it, because a map is compared through its array. `FilesClosed`, `FlagMeansGrid`
and `RegistriesLive` each have a smaller invariant of their own (`OpenOK`, `FlagOK`,
`Counted`) over `IInv`.

The exact counts need more: `DimRefs` is kept by `DestroyVar` only if the objects are finitely
many (`ObjInv`), because a count is a cardinality, and if a key that is converted has no object
yet. The lemmas about `Entries` say what one more or one less pointer does to a count.
For `Freed`, `EndInv` follows each array to the destructor that deletes it: those of
variables made, and those of maps in use; an array of neither kind is the one in hand
(`OrphanOK`). When all variables are destroyed, `MapRefs` leaves every map with count 0, so
only that one array can be left.

`ShareInv` says that what a grid holds equals one of the maps the client asked for, and that a
registered map is never one that `DropCoordinate` took out of the file. `ShapeInv` follows the
loop over the dimensions (`LastDims`) and keeps for each finished array that its dimensions have the
names and sizes of the response (`DimsOK`), unless a name was taken inside of a structure.
`GridsAligned` is then two facts together: equal names and sizes, and `DimNamesDistinct`.

`Promise` needs to know the file, and how it came about, while the request is worked on. Three invariants
follow the three loops of `transform`.

- `SourceInv`, for conversion: every object is of something to be sent and has its name (`NamesOK`), what
  may serve as a map is registered unless it equals one that is (`RegisteredOK`), grids hold the maps made for
  them (`HoldersOK`), and what the iterators have left behind has its object or an equal map (`ServedOK`).
- `MeasureInv`, for dimensions: each array has all of its dimensions (`LengthsOK`), each of them under a name
  `find_dim` may give it and with a size that fits (`SlotsOK`), and a dimension has the size of one of its users
  (`FromOK`). The last is what a conflict needs: a second size comes from somewhere in the response.
- `FilingInv`, for the file: a dimension with an id is in the file under its identifier and with its size
  (`FileDimsOK`), an object with a varid has the one variable of that id, with its type and its
  dimensions (`FileVarsOK`), and what `define` and `write` have passed is defined and written (`DefinedOK`, `WrittenOK`).
  Before `create` the file is `Blank`.

`Deliver` is `CloseFile`: the iterators have passed everything, so `ServedOK`, `DefinedOK` and `WrittenOK` make the file complete, and
`NamesOK` with `FileVarsOK` faithful. `Refuse` has one lemma for each place that refuses: `UnknownConflicts`,
`ClashConflicts` (`find_dim`: by `FromOK` and `SlotsOK` the two sizes are of two arrays of the response, the earlier of
which may call its dimension by the last name of the later) and `DefineConflicts` (a dimension or a variable
whose name is taken, or without a type). The hardest of these is an identifier that meets a made-up one: `DimNameNum` is
the number of unnamed dimensions defined (`FileDimsOK`), of which there are at most as many as uses of unnamed dimensions
in the response (`UnnamedSites`, by an injection), so the made-up name is one that `FONcResponse` counts with.

For `StepsComeToAnEnd` the rank is what a request has before it: the phase of `transform`, the variables, the
arrays of the variable and the dimensions of the array that are left to the loops, compared in this
order (`Lower`, a lexicographic order on numbers, with the library's `WFLexPairOrdering`).

`FONcTransmitter`. `IInv` says for each step what the process holds there (`HeldOK`): descriptor, netCDF
file, name, umask. `NoLeftovers` is inductive with it. `DataInv` adds that the names of processes are
disjoint and lead to the file behind the descriptor, that no file has two names (`NamesOwn`), which blocks
have been written (`WrittenOK`) and which sent (`SentOK`).

`FONcValues`. `ValuesInv`: what precedes the loop's index is in the file, each value in its place
(`Filled`), and `start` is the row-major index of `element`. That `Bump` takes one index to the next
is an induction over the dimensions, and that different elements have different places is one over
sizes. `StorageInv` has the choices made so far, `LoadedInv` says that the configuration is what the keys said
when the module was loaded, and that it is loaded while a request is served.

`FONcAttributes`. `CtlInv` is where the loops are and what is on the stack of calls: the containers
around the entry, innermost last, with the prefix that `Paths` gives them (`Chained`, `Nests`). `Nests` also says
that a container to which an entry is still to come has not been left. `KeptInv` says that the
file has exactly what the entries behind the loops put there (`Holds`), and the last of those that
meet. `AskedInv` says how the response differs from the one that came, `AppendedInv` that the history has the
new entry at its end, `AddedInv` that a response without
a history gets the entry as its last global attribute.

Each proof has one step per action. The library's induction theorems take an operator,
which the provers cannot instantiate; `NumberInduction` has the same as a fact about
sets of numbers: a set that is not empty has a least number. So what the recursive
functions (`Product`, `IndexOf`, `Paths`, `EmbName`) compute is proved too.

Model-checked only:

- `BaselineMatch` and `AttrBaseline`, which are about particular responses;
- liveness (`Answered`, `Served`, `Removed`), out of the prover's reach. Of `Answered`, `StepsComeToAnEnd` proves one
  half, that no request goes on for ever; the other, that a request under way always has a next step, is about
  ENABLED, and the runs show it;
- the findings, which are counterexamples.

## State of the development

All components with state are modelled. Every safety property of the passing runs, and each of the refinements, is a
theorem, but for the two baselines. The properties that the violation runs refute hold in general under a named hypothesis
that excludes what the run shows: `FlagMeansGrid` (run `ingrid`), `ShapesAreKept` (`lengths`), `MembersAreNamed`
(`members`), `WholeFileSent` (`read`), `EntryIsRecorded` (`history`). The one of `uint16` is false of every response
with a large scalar of that type.

## Not modelled

The libraries (BES, libdap, netCDF) beyond what this code sees of them: the netCDF
library refuses a second name and a variable without a type, and may fail at any call. `dump`
methods, debug output and the `main` functions' own printing change no state. Of the test programs
the responses and their baselines are modelled, not their copies of `send_data` and
of the reader of sequences. The build is not modelled. The buffers of the write methods and
the capacity of vectors are left out. `PROJECT.json` lists the hazards that no property covers,
with the reason.

Also seen in the code, and not stated as runs:

- The array of a grid's map leaks if its conversion throws (`FONcGrid.cc:172`); `Freed` allows exactly
  that one. The buffers of the write methods leak if `buf2val` throws.
- `FONc.ChunkSize` is ignored for a plain number (`FONcRequestHandler.cc:119-121`), although `fonc.conf.in:21` calls it
  the default chunk size; `0`, for contiguous storage, is ignored as well.
- An empty `FONc.Tempdir` reads before the text and may throw (`FONcRequestHandler.cc:104`).
- `terminate` leaves the two formats registered with the data service (`FONcModule.cc:89-102`), although
  its documentation says that "Any registered callbacks or objects, registered during initialization, are removed"
  (`FONcModule.cc:85-86`). No property is about what is registered.
- Members of structures and grids are not told the version (`FONcStructure.cc:130`): in a netCDF-4 file they are
  neither chunked nor compressed, whatever `FONc.UseCompression` says (`fonc.conf.in:20`: "Use compression when making
  netCDF4 files"). `StorageAllowed` asks of them only that they ask nothing of a file that is not netCDF-4.
- A map that two grids share keeps the name of the first grid's structure and only its
  attributes (`FONcGrid.cc:176-182`).
- The fill value of a scalar of UInt16 has another type in the file than the variable.
