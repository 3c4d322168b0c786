# Moshiki in TLA+

Moshiki indexes log lines. It finds templates among the lines, keeps the parts
that vary as columns of term ids, and writes a dictionary, the templates and
one compressed column file per template; a searcher finds and reconstructs the
lines that contain a term. This directory holds TLA+ models of it, TLC
configurations that check them on small instances, and theorems with proofs
for TLAPS. Everything is translated from the Rust source.

## The system

| Part | Source | State | Operations |
|---|---|---|---|
| Term map | `src/indexing/termmap.rs` | hash map and flat buffer of terms, one id counter | `mutate_or_create`, `iter`, `find_term_for_term_id` |
| Document groups | `src/indexing/preliminary_index.rs`, `doc_groups.rs`, `doc_groups_hashmap.rs`, `fingerprint.rs` | groups by token count and fingerprint: template, columns, `num_docs` | `insert` (`DocGroup::new`, `push`), `append`, `convert_to_variable`, `remove_rows`, `insert_duplicate` |
| Templates reorganised | `src/indexing/patterns.rs` | the groups, on their way | `split_templates`, `merge_templates`, `assign_template_ids` |
| Index writer | `src/indexing/index_writer.rs`, `write_dict.rs`, `src/templates.rs`, `src/columns/write.rs` | files of a folder | `index`: dictionary, templates, column files |
| Reader, searcher | `src/index.rs`, `search.rs`, `dict.rs`, `src/columns/read.rs`, `src/templates.rs` | dictionary and templates in memory, column files on disk | `Index::new`, `search_and_retrieve` |
| Arena hash map | `stacker/src/` | table, length, arena pages | `mutate_or_create`, `get`, `resize`, `iter`, `allocate_space` |
| Schema tree | `src/schema.rs` | nodes, leaves | `ingest_json`, `reconstruct_*` |
| Tokenizer | `src/tokenizer/` | the string and a position | `next` (the matchers for punctuation, addresses, numbers, UUIDs, words) |
| Folder | `src/main.rs`, `src/indexing/index_writer.rs`, `src/index.rs` | the files at the paths of an index | `index_file` (remove, create, write), `IndexWriter::index` (write), opening, searching |
| Benches, crate root | `benches/`, `src/lib.rs` | none | measure; re-export |

`index()` runs on one thread, from the iterator of lines to the last column
file. It calls the tokenizer, then `DocGroupsByLen::insert` for every line,
which calls into the term map for every token that varies; then the groups are
split (if `ST` is set in the environment) and merged; then four passes over
the groups give ids, map terms to templates, write templates and write
columns, with the dictionary in between. A reader shares only files with it,
and so does the next run: the command line empties the folder first, the
library writes into it as it is, and either may end anywhere.

What is hard here is not threads but long sequences of steps on related
pieces of state: columns that appear in the middle of a group's life and have
to be filled backwards, columns cut and appended one by one, column indexes
that shift, group ids that are remembered while groups are replaced, terms with
several ids, ids that are renumbered while terms are skipped, four passes that
have to agree on the order of a hash map, files without any structure of
their own that are cut by a number kept elsewhere, and a folder without any
mark that tells the files of one run from those of another. `PROJECT.json` lists these
under `hazards`, each at its line. The properties that make each part correct:

- term map: every id below the counter names exactly one term;
- first pass: columns stay rectangular, every finished row reads back as its
  line, every line is one row of one group;
- split and merge: no document is lost, repeated or altered; merging is
  complete; the loops end without a failed lookup;
- writer: an ascending dictionary, cells that name the right terms, entries
  that list just the templates that hold the term;
- reader: the files give back the input, hits contain the term, none is missed;
- hash map: a map, whatever the hashes; no probe runs for ever;
- tokenizer: tokens tile the string, never cut a character, and are recognised
  without what stands around them;
- folder: the files a reader puts together are of one run, where that is
  promised at all;
- schema tree: a schema id stands for one set of paths and kinds, for good.

## The modules

| Module | What it is |
|---|---|
| `TermMap` | the term map as a record and operators on it (`MutateOrCreate`, `TermIdOf`, `Stored`) |
| `DocGroups` | a document group as a record and operators on it (`NewGroup`, the branches of `push`) |
| `PreliminaryIndex` | the first pass as a state machine: one step per token of a push |
| `LogStore` | the abstract promise: a bag of documents to which each line handed over is added, and nothing else, until the input is closed |
| `Patterns` | `index()` up to and including `merge_templates`; extends `PreliminaryIndex`, implements `LogStore` |
| `IndexWriter` | the rest of `index()`; extends `Patterns` |
| `ValueBlock` | how the template ids of terms are laid out in a block of the dictionary, written and read, as operators |
| `Search` | what a reader makes of the files, as operators; extends `IndexWriter` |
| `IndexFolder` | the files of a folder over several runs, cut short anywhere, with a reader that opens some early and some late |
| `Tokenizer` | the iterator over the bytes of a string, one call of `next` per step |
| `KeyValueMap` | the abstract promise of a hash map: calls in progress and a function from keys to values |
| `FastBytes` | comparing and copying short slices in wide accesses that overlap, as operators |
| `ArenaHashMap` | the hash map of `stacker`, one probe per step, over the arena's pages; compares and copies with `FastBytes`; implements `KeyValueMap` |
| `SchemaTree` | the schema tree, one event of the JSON parser per step, and reconstruction as operators |
| `MC*` | the constants of the runs |
| `*Proofs` | theorems and proofs about the modules they are named after; `PreliminaryIndexProofs` has those about `TermMap` and `DocGroups` as well, `ArenaHashMapProofs` those about `FastBytes`, `SearchProofs` those about `ValueBlock` |

How the code is cut into steps. All of this is one thread, so that a step is
as long or as short as the properties need. `PreliminaryIndex` takes one step
per template token of a push (`PushSameConstant`, `PushNewVariable`,
`PushToColumn` are the branches of the loop in `DocGroup::push`, `pos` is its
place), because half-pushed rows are where invariants are at stake.
`Patterns` takes one step per group, token and moved term of `split_templates`,
and one per conversion, append and removal of `merge_templates`. `IndexWriter`
takes one step per pass, per term of the dictionary and per column file. The
iteration order of a hash map is any order; within `DocGroupsByLen` buckets
come by token count. A lookup that fails with a panic leaves the model without
a successor, which `IndexReturns` detects, and TLC's check for deadlock.

`ArenaHashMap` takes one step per slot looked at, in a lookup as in a resize,
because what may go wrong is a probe that meets a gap or none, in a table that
was changed in between; the steps of one call between two probes are one.
The hash map keeps addresses (page and place as one number; the greatest
address is null), and `contents` stands for the bytes at an address, which
`KeysIntact` justifies: it says that what is stored for two keys does not
overlap, so that reading an address gives what was written there. Keys are
sequences of bytes, cut, copied and compared as the code does it.
`SchemaTree` takes one step per key, leaf and brace, since a document may end
in an error at any of them.

`Tokenizer` works on real bytes. `tokens` are what was returned so far; a
matcher returns an `Option`, a set with one element or none here.

`IndexFolder` leaves out what is in a file, which `IndexWriter` and `Search`
are about. A file is the run that created it (its inode), the run that wrote it
and whether all of it is there. `File::create` truncates what is at the path in
place, so that whoever holds the file open sees it change; a removed file stays
readable for who holds it. `Stop` stands for every way to end early: an error
of the file system, a line that is not UTF-8, a panic, a kill. The reader
opens the dictionary and keeps it, then reads the templates, and opens a
column file when a search gets to it. An open that fails and a search that
fails leave the reader where it can be tried again.

How data is abstracted. A token is a model text with a type (`TypeOf`); a line
is a sequence of tokens; a document, what a reader reconstructs from it. Only
three things about a text matter: its type (by which lines are grouped), its
place in byte order (`Rank`), and what is left of it when it is cut to
`u16::MAX` bytes as a key of the hash map (`Capped`). The two fingerprint
functions are CONSTANTS; the first may collide, and does in the instances. The
second one, of which `insert_duplicate` takes fingerprint + salt, gives far
apart numbers in the instances. That 64-bit hashes plus a small salt do not
meet by chance is an assumption on a run, about the types of the groups and lines
that occur in it (`HashesApart`; see the proofs). In the instances of `patterns`
and `search` the hashes are apart for all types there can be, which TLC
evaluates; that no group is put under an id in use (`NewIdsFresh`) follows, and
the run `patterns` checks that too. Collisions of salted ids are therefore
outside the instances. Term ids count in `Nat`, not
modulo 2^32; how far they count is proved. The compression of columns and the encodings of the SSTable and of
postcard are left out: a file holds what was encoded into it. The blocks of
template ids, which the crate encodes itself, are sequences of u32 in
`ValueBlock`; the dictionary of `IndexWriter` goes through them. In the schema tree the value
of a leaf is its kind; numbering starts with 1 in place of 0.

History variables: `schemas`, `shape`, `path` and `result` of the schema tree are
what documents were and what came of them. In the folder `clean`, `quiet` and
`returned` remember who used it, when, and what was found. In the indexer `lines` is the input, `origin[g][r]` the number of the line in
row r of group g. No action of the code depends on them, except that the line
being pushed is the last one of `lines`. `LogStore` is told of `lines` as well:
its `log` is the lines that have become rows (`Logged`), its bag what can be read
back from the groups (`Readable`), its input is open in the first pass
(`InputOpen`). A push must therefore add the very line that was pushed, and no
step of the split or the merge may add, drop or change a document.

A definition marked as a mutant, just before the definition it varies, is a
plausible slip in that piece of code. `PROJECT.json` pairs each property with
one: with the mutant in place, TLC finds the property violated.

## The runs

| Run | Instance | What it shows |
|---|---|---|
| `ingest` | 5 texts, 6 lines of 0 or 2 tokens, up to 5 lines of input | `PreliminaryIndex` keeps its invariant; fingerprints collide (type order is not seen), `x` is capped to `a`, a column turns id-like at its third row and the term of a fourth has two ids |
| `patterns` | 4 texts, 5 lines of one bucket, up to 4 lines of input | each push adds its line to the bag of documents, split and merge leave the bag alone, merging is complete, no lookup of theirs fails, no group is put in under an id in use |
| `search` | 4 texts, 6 lines in two buckets, up to 4 lines of input | files and searches |
| `search_finds` | as `search` | templates without variables: their documents are never found |
| `hits_distinct` | as `search` | documents are returned once per matching column |
| `hash_map` | 5 keys of 5 and 17 to 20 bytes whose hashes collide in full or in the lower bits, cut to 18 bytes, tables asked to hold 2, 4 or 9, two pages of 27 bytes | the hash map implements a map; every call returns |
| `lookups_return` | as `hash_map`, a table asked to hold 1 | a table of one slot, taken: a lookup goes round for ever |
| `schema` | 2 keys, 2 kinds, 4 entries in all documents, 3 objects deep | leaf ids and schema ids, over documents that fail |
| `reconstruct_returns` | as `schema` | a repeated key makes a schema id that panics |
| `tokenizer` | every string of up to 3 of 15 pieces: digits, dots, an address without its last octet, halves of UUIDs, a character of two bytes, ... | tokens tile the string, are recognised without context, addresses are the dotted quads |
| `uuids_recognised` | as `tokenizer` | a UUID that starts with a digit is taken apart |
| `folder` | 3 runs of either program with up to 2 templates each, one reader | where a reader's files are of one run |

The code's thresholds are scaled down so that each is crossed: the id-like check
at 10000 rows is at 2, the split threshold 400000 is 1, the 1000 documents
below which a group gives up its constants are 2, the 10 hits are 3. Four or
five lines suffice for a group that gets a variable late (two lines), an
id-like column (three rows and a fourth that uses it), a split that leaves
rows behind or none, and a class of two or three groups with columns created
in different orders. A block of the dictionary takes two terms
(`TermsInBlock`), so that there are several. `MaxLines` is the only bound in a
guard of the indexer. The pages of the arena are scaled from 2^20 bytes to 27
and the longest key from 65535 bytes to 18 (`MaxKeyLen`): a long and a short key,
20 and 7 bytes with their lengths, fill a page to its last byte, two of each
both pages, and in another order the last one finds no room. Five keys take a
table through two resizes, and lengths on both sides of 16 bytes take the comparison through its
branches. Four entries are two documents with an object in each, or a document
that fails after it made nodes and leaves and others that use them;
`MaxEntries` and `MaxDepth` are the bounds in the guards. Three pieces
(`MaxPieces`) put anything in front of, into, and behind an address or a UUID.
Three runs (`MaxRuns`) are one to leave files, one to stop halfway and one
that a reader overlaps; two templates (`MaxTemplates`) are the least with which
a run can write fewer or more columns than the one before. Deadlock is checked
in all runs but `ingest`, whose input simply ends, and `folder`, where all runs
may be over and nothing left to open.

Fairness is weak fairness of the whole next-state relation: `index()` is one
thread that the operating system keeps running, and there is always an enabled
step until it returns (input that never ends is not modelled). For the hash map
it is weak fairness of the steps within a call (`Work`), for the same reason;
that a caller calls at all is not assumed. `SchemaTree`, `Tokenizer` and
`IndexFolder` assume none and have no liveness property: the loops of the first
are those of the parser, that of the second ends because tokens are not empty
(`TokensTileInput`), and the runs of the third may stop anywhere.

The violations are what the code does, against what a comment or a test says:

- `SearchFinds`: "Search for a term and retrieve the documents that match the
  term." (`src/search.rs:21`). Hits are rows of columns; a template without
  variables has none, so that lines that were only ever logged in one wording
  are not found although `check_match` says `Full`.
- `HitsDistinct`: "Returns an iterator over the document IDs that match a given
  predicate." (`src/columns/read.rs:66`). The matches of all columns are
  chained; a document with the term in two columns comes twice, and one whose
  template has the term as a constant comes once per column. The limit of hits
  counts the repetitions.
- `LookupsReturn`: a new table is "able to hold at least `table_size` items
  before the first resize", with a capacity of at least 1
  (`stacker/src/shared_arena_hashmap.rs:128`). A capacity of 1 is never enough: with its slot
  taken, `get` of another key finds neither the key nor an empty slot.
- `ReconstructReturns`: "Reconstruct a JSON object value for this schema"
  (`src/schema.rs:42`). `{"a": 1, "a": []}` is ingested and its schema id panics.
- `UuidsRecognised`: "Simple UUID v4-ish check (8-4-4-4-12 pattern, 36 bytes
  total)" (`src/tokenizer/mod.rs:233`). Numbers are tried before UUIDs, and what
  starts with a digit is a number: ten of the sixteen UUIDs that there are, by
  their first digit, are taken apart into numbers, punctuation and words.

Three more things a caller should know, met while modelling: a term longer than
65535 bytes comes back cut, since it is cut when it becomes a key
(`FilesHoldInput` says so much); the hash map's `mutate_or_create` cuts a key,
its `get` does not, so that a longer key is never found under the name it was
put in with; and "The JSON root is not an object" is also the error of objects
that only the first of two parses refuses, such as `{"a": 1e999}`.

`SearchComplete` and `FilesHoldInput` state what does hold: completeness in
templates with a variable and below the limit, and equality with the input up
to the cap.

What the folder promises, and where it ends. After a run that returned `Ok`
nothing older is left where a reader looks (`NothingStaleAfterOk`), with one
exception: the `BufWriter` around the dictionary is dropped without a flush, so
that its end may be missing; such a dictionary does not open. Runs of the
command line never leave files of two runs side by side (`FilesOfOneRun`) and
never touch the dictionary a reader holds (`CommandLineSparesReaders`). A reader
that no run overlaps therefore sees one run (`QuietReadersSeeOneRun`). None of
this holds without its hypotheses: a library run truncates the open dictionary
in place, a library run that stops leaves old columns next to new templates,
and a reader whose `Index::new` overlaps a re-index may hold the dictionary of
the first run and the templates and columns of the second.

## The proofs

`IngestInvariant` proves that `IngestInv` is an invariant of `IngestSpec`, for
every set of texts and types, every cap that is idempotent (`CappedAssumption`),
every assignment of types and every sampling row (`DocGroupsAssumption`), every
set of lines and every fingerprint function into `Nat`, injective or not
(`LinesAssumption`). From it follow type correctness, `ColumnsStayRectangular`,
`RowsStayRecoverable`, `LinesStayInOneRow` and `TermIdsStaySound`.

None of these is inductive alone. That finished rows read back has to be
strengthened by what holds in the middle of a push: the columns left of the
cursor have one row more than the others (`Rectangular` with a cursor), that row
already reads as the line being pushed (`RowInFlight`), and the line being
pushed is in the group the cursor is in (`PushInRange`). It also needs that a
term map only grows: what was `Stored` stays so (`StoredGrows`). That every line
is in exactly one row needs that rows point to lines pushed before
(`GroupsMatchLines`), so that the new row's number is new. The proof follows
that split:

- about `TermMap` and `DocGroups`: a call of `mutate_or_create` keeps the type and
  the soundness of ids, stores the term under the id it returns, and keeps every
  pair stored; each branch of `push` keeps a group's type, keeps it
  rectangular with the cursor one further, leaves every finished cell
  readable, and makes the new cell readable;
- about `PreliminaryIndex`: the steps of the state machine, one lemma each.

`PatternsProofs` carries this on through `split_templates` and
`merge_templates`. `GroupOK` says of a group and the origin of its rows that the
columns are full and owned and that every row reads back as its line; one lemma
for each of `remove_rows`, the move of a term to a new group,
`convert_to_variable` and `append` shows that it is kept. The invariant
`PatternsInv` adds where the groups are: the class at work has exactly the
members the cursors have not removed, each once (`MembersOK`), a class that
waits has exactly the groups with its key (`ClassOK`), the group aside has the
class's key and no constant left that the key does not name (`AsideOK`), and any
two groups with one key are in a class still to be merged (`Pending`). It gives
`HeldStayRectangular`, `HeldStayReadable` and `MergeStaysComplete`.

`insert_duplicate` cannot promise for any hash that fingerprint + salt is free;
if it is not, a group is dropped. Most proofs say what they need of it as a
hypothesis on the run, `[]NewIdsFresh`: no group, split off or merged, goes into
the map under an id in use. `[]SaltedIdsFresh`, which the three theorems above
make do with, is the part of it about merged groups, and follows from it
(`FreshWhenMerged`). Its mutant (no salt) shows that it can fail.

`NewIdsStayFresh` replaces this hypothesis, which speaks of what
`insert_duplicate` does, by one that speaks of hashes. `HashesApart` looks, once
the first pass is over, at the types of the groups there are, in the map and
aside, and of the lines of the input: two different salts added to the hashes of
two groups with equally many tokens are different ids, and a salt added to the
hash of a group is not the fingerprint of a line. Two groups may well have one
hash. Groups have to be named beside lines because a group's types are not those
of one line: lines of several types may share a group, and a token that turns
variable takes the type of the text that turned it. The salts in question are
those up to three times the number of lines, L say. A 64-bit hash, taken for
random, meets this with overwhelming odds, not for certain, and nothing in the
code checks it: each pair of different groups or lines fails with odds of about
6 L in 2^64, so that 10^4 of them over 10^7 lines come to less than two in ten
thousand. `[]HashesApart` is the hypothesis of `NewIdsStayFresh`,
`ApartIndexerIsLogStore`, `WriterIdsStayFresh` and `IndexIsFaithful`: fresh ids and
the refinement, fresh ids in the whole of `index()`, the files and both
directions of a search.

The invariant says where ids come from (`IdMade`): from a line of the input, or
from a salt already drawn and the types of the group that lies there. The second
needs that a group keeps its types once salts are drawn, though rows are removed
and constants converted (`ConvertKeepsTypes`, `MadeStays`). How many salts a bucket
comes to is counted (`SaltsInv`): the groups set aside by the split have a row
each at least, the rows are different lines (`AsideCount`, by `Once`), so there
are at most as many; merging then has at most twice as many groups, and no more
classes than groups.

`PatternsTypeCorrect` is about types under the same hypothesis. That the id
`insert_duplicate` comes to is a number needs that the group has as many tokens
as some line (`TokensOK`), since `FingerprintTypes` is assumed to map the types
of such token lists, and no more, to numbers.

`IndexerIsLogStore` is the refinement: with `[]NewIdsFresh`, the step of the first
pass that completes a row is `Add` of the line that was pushed, the end of the
input is `Close`, and every other step, each of the split and of the merge
included, is a stutter: the bag stays what it is, for any lines, any hash, any
thresholds. Its documents are counted by the rows that read as them, so that the
proof has to count. What
`PatternsInv` lacks for it is that no line has two rows and none is lost;
`StoreInv` adds it (`Once`: the origins of the rows of all groups, in the map
and aside, are disjoint, and together the numbers of all lines pushed). Since
row and line read the same, the rows and the lines are in a bijection that keeps
the text, and the bag is that of the lines: adding a line adds one to it, and
every other step leaves the lines alone. Each operation on groups has a lemma on
what it does to origins (`RetainLines` for `remove_rows`, which numbers what is
left through).

`WriterInvariant` carries the groups through the four passes and the dictionary
loop, for any iteration order. `OrderOK`: the order has each group once.
`DictionaryOK`, about a loop that is halfway: entries are ascending and below
every term that is left; an id that is dealt with and that some column holds is
mapped to an entry with its term that lists the templates of those columns
(`IdMapped`); and a template is listed only for an id that is mapped there and
that a column of the template holds (`ListedFor`). That ids no column holds are
exempt is where a skipped term hides: its ids are mapped to the place of the
next term, which is harmless for just that reason. `FilesOK`: templates and
column files are those of their groups in the order given. From it follow
`DictionaryStaysSorted`, `CellsNameTerms` and `EntriesKeepRows`.

`SearchProofs` is about the reader on what the writer left. What is written one
after the other is cut in the right places: `LoadsBack` says that the blocks of
template ids, loaded, are the ids that were serialised, for any number of terms
per block; `ColumnsAre` that the column file, cut by `num_docs`, has in its n-th
column the cells of the template's n-th variable. With the sorted dictionary and
`IdMapped`, `RetrieveIs` says that a row reconstructs to its line, which with
`StoreInv` gives `FilesKeepInput`; `HitIsRow` and `RowIsHit`, both directions of
a search, give `SearchStaysSound` and `SearchStaysComplete`. The concatenation
of columns and the loading of a block are recursive; what the proofs need of
them is an induction, which is done by hand each time: of the lengths at which
the claim fails take the least (`LeastElement`).

In `ArenaHashMapProofs`, `FastCompareIsEquality` and `FastCopyCopies` show that
the comparison by overlapping words is equality and that the copy leaves the
source in the destination, for slices of every length. `ArenaHashMap` uses both,
so that these lemmas are where its proof begins.

`HashMapInvariant` is an invariant of the hash map for every set of keys, every
hash function, every page size. From it follow `ProbesStayUnbroken`,
`KeysStayIntact` and `HashMapIsMap`: the hash map implements the map of
`KeyValueMap`, where the content of the table is the function from keys to
values and a call's steps before its last are stutters. The invariant has four
parts: the arena's pages hold what was allocated in order (`ArenaOK`); the table
has an entry for each key at most, at a place its bytes can be read from, and no
empty slot between a key's bucket and its entry (`TableOK`); what the call in
progress has looked at is not the key it looks for (`CallOK`, `Searched`); and a
resize that is halfway has moved just the entries in front of its cursor
(`ProgressOK`, `ResizeOK`). Slots in between are a matter of a circle
(`Between`) and not of remainders, which keeps the arithmetic within the
provers' reach. `EntriesStayCounted` adds that the length is the number of taken
slots and that a slot is always free; it needs tables of two slots at least, and
`LookupsReturn` shows why. `HashMapTypeCorrect` adds the size of the tables:
a power of two, which `& mask` needs, in the sense that 1 is its only odd
divisor (`IsPowerOfTwo`); a resize at least doubles a table and keeps that. The
hypotheses are `ArenaHashMapAssumption` and `FirstCapacityAssumption`: that
`with_capacity` starts with such a number is arithmetic of `2 ^ k`, which the
provers do not know, and TLC evaluates it for the sizes of the run.
`ProbesAlwaysAdvance` is the safety half of `CallsReturn`: each probe, of a
lookup or of a resize, gets nearer to every empty slot, of which
`EntriesStayCounted` leaves one. What stays with TLC is that a probe that can be
taken is taken.

`SchemaInvariant` gives `NodesStayTree`, `LeavesStayInterned`,
`SchemaIdsAlwaysIdentify` and `TreeNeverShrinks`. That a schema id identifies
what was ingested needs that two nodes with one path are one node, so the
invariant says that there is a function that gives each node its path, its
parent's with its own key behind it, and no two nodes the same.
`SchemaIdsReconstruct` is about the recursion of reconstruction, which is a
function that a CHOOSE defines by its equation. The leaves below each node, by
the keys that lead there, solve the equation (`ShapesSolve`; no node on such a
way is missing, `WayExists`), nothing else does, since children come after their
parent (`SolutionUnique`), and for the root they are the document's shape.

`TokenizerInvariant` says that each token returned is `TokenAt` of the place it
starts at and that the last ends at `pos`. That tokens are never empty needs
that the two tables, of what punctuation is and of what ends a word, leave out
no byte; that characters are never cut, that no matcher ends before a
continuation byte, which is where UTF-8 is used; that a token stands alone, that
a run found in a longer string is the same run in the token's own text.
`Ipv4sAlwaysQuads` compares `is_ipv4` with a reference definition that knows
neither runs nor values: four of the 256 texts of octets with dots in between.
The fold that computes an octet's value is unfolded for its three digits at most
(`FoldSolved`, `OctetIsNumber`).

`FolderInvariant` says for each stage of a run which files are already its own
and which are gone, and what a reader that opened in quiet holds. It gives all
five properties of the folder, for any number of runs and templates.

What can be proved of `IndexReturns`, that `index()` returns, is all but the
fairness, for any input, in three parts, each for `Patterns` and for the whole of
`IndexWriter`.

- Every step comes nearer to the end (`IndexNearsEnd`, `IndexNearsDone`): `ToGo`
  is five numbers, compared from the left, with the phase first; a step of the
  first pass leaves less of the line, one of the split fewer groups, tokens, or
  frequent terms in the column at work (moving a term makes none frequent), one
  of the merge fewer classes, tokens or members. The order is well-founded
  (`LessIsWellFounded`).
- No lookup fails (`LookupsAlwaysSucceed`, `WriterLookups`): remembered ids name
  groups that are there, cells hold ids that name a term, members to be appended
  have their variables in the same places, the tables of the writer have a place
  for every id.
- Something can be done (`IndexGoesOn`, `WriterAlwaysGoesOn`): the guards of some
  step hold wherever the run is not over. `ENABLED` is beyond the provers, so
  these state the guards, action by action. That a step is then enabled is what
  TLC's check for deadlock says of the instances of `patterns` and `search`.

`IdsStayBounded` and `WriterIdsBounded` bound `next_term_id`, which wraps in the
code: at most twice the number of tokens of the input. There is one id for every
key of the hash map, and each key is the text of some token of the input, cut to
its cap; and one for every entry of the buffer, of which a token of the input
makes one at most. The invariant (`IdsFromTokens`) adds that constants are texts of
tokens too, whichever groups they went through, so that converting one in a
merge adds no key that would not be counted.

Every invariant and every action property that a run checks has a theorem. Only
model-checked is liveness (`CallsReturn`, `IndexReturns`), since fairness is
beyond these provers.

## Not modelled

- The file that `DEBUG_TEMPLATES` adds to a folder, which nothing reads.
- `src/tokenizer/number.rs`, which the default build leaves out, and
  `is_url_chunk`, which nothing calls.
- `read`, `write_at` and `offset` of the arena, which nothing in the indexer
  calls.
- The values of leaves that the schema tree hands to a callback.
- The byte formats of the SSTable's keys, of postcard and of zstd, which are
  libraries.
- `uncompressed_columns_size`, reports, printing, `print_stats`, the parsing of
  arguments: they read state and change none.
- The overflow of fingerprint + salt, for a fingerprint within three times the
  number of lines of 2^64 (a debug build panics), and the wrap of the salt after
  2^32 groups, which three salts for a line keep away from in inputs of fewer
  than 10^9 lines.
- The side effect of an updater whose key then finds the arena full: nothing
  catches that panic, and the model ends the call as `panicked`.
- The wrap of `next_term_id` after 2^32 ids, which an input below 2^31 tokens
  does not come to (`IdsStayBounded`), and the arithmetic of the hash functions,
  which are CONSTANTS here.
- Benches and the crate root.

## What could come next

Fingerprints as operators: the block-wise and the token-wise one differ from
eight tokens on, which matters where one table is asked with the other. With
them `HashesApart` would be a statement about 64-bit arithmetic, and a run with
hashes close to each other could look at what the code does when it fails.
