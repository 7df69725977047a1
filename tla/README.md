# A model of unfydqry

unfydqry is an embedded full-text index: a Rust core over one SQLite file, used
from Swift, Kotlin and Dart through generated bindings. These modules model the
core and the Flutter plugin on top of it, model-check them on small instances
with TLC, and prove with TLAPS, for every value of the constants, the main safety
properties of the engine (among them that it implements its abstract
specification), of several engines on one file, of the migration, of the packing of
ids, of paging, of the search strategies, of the edit distances and of the Flutter
plugin.

## The system

| Component | Source | State it keeps | Operations | Modelled by |
|---|---|---|---|---|
| Engine | `core/src/engine.rs` | the file (`docs`, `entries`, `meta`), one connection behind a mutex, the normalizer and strategy chosen at open, an atomic `field_bits` | five constructors, `index`, `remove`, `reindex`, batches, `remove_all`, the record layer, `change_field_bits`, the reads | `SearchEngine` |
| Record packing | `engine.rs` 13–16, 333–397 | none | `record_of`, `slot_of`, `record_id_range`, `check_field_bits` | `Packing` |
| Schema migration | `engine.rs` 199–272 | columns and indexes of the file | `open_schema`, `backfill_norm_rev` | `SchemaMigration` |
| Paging, record search | `engine.rs` 753–1138, `search/mod.rs` 26–64 | none; pages are recomputed | `search_page`, `search_records`, `search_records_page`, `match_count_records` | `Paging` |
| Several engines | `engine.rs` 414–624, 1140–1221 | each its own connection, profile and `field_bits`, on one file | the constructors, every write | `SharedFile` |
| Strategies | `search/*.rs` | none | eight ways of matching | `Strategies`; their order in `Paging` |
| Edit distances | `search/editdist.rs` | none | `levenshtein`, `osa` | `EditDistance`; what they decide, `EditPaths` |
| Normalizer | `normalize/{mod,steps}.rs` | options | NFKC and eight optional steps | `Normalize` |
| Highlighting | `engine.rs` 796–842, 1223–1357 | none | `highlight_raw`, `highlight_occurrences` | `Highlight` |
| Configuration | `config.rs` | none | step sets, presets, fingerprints | `Configuration` |
| Flutter plugin | `flutter/` | Dart wrappers, a channel, a table of engines by handle | open, use, dispose, detach | `Plugin` |
| Bindings | `lib.rs`, generated Kotlin and Swift | object handles | marshalling | not modelled |
| Samples, benches, scripts | | | | not modelled |

How they meet. A host calls the engine from any thread. A call normalizes its
texts, then takes the connection mutex, then runs SQL; some calls read the
atomic `field_bits` before they take the mutex or after they released it. The
strategy turns a normalized query into hits; the record layer folds hits into
records by shifting ids by `field_bits`. A constructor migrates the schema,
compares the file's stamps with what the host asked for, and stamps or rebuilds.
Two engines on one file, of two processes or two handles, share nothing but
SQLite's write lock. The Flutter plugin keeps engines in a table and forwards
calls from a channel, one at a time.

What is hard to test, and so what the properties are about (`PROJECT.json` lists
every such hazard at its line):

* calls of several threads interleaved at every load of `field_bits`, every
  lock and every statement, with a re-encoding of all ids among them;
* the two tables written by separate statements, some of them in autocommit:
  a crash or a failed statement between any two;
* the stamps (profile, encoding) and the rows they describe, written at
  different moments;
* a migration made of several autocommitted statements, on a file another
  process may have open;
* two engines that check the file's stamps once and write to it ever after;
* rows read in one statement and written back in a later transaction, with
  another connection in between;
* Dart calls in flight around a `dispose()`, and opens that fail;
* text a user types, read by `LIKE` and FTS5 as a pattern or an expression;
* pages cut from a ranking that is recomputed, over-fetched, for each page;
* early exits, exclusive bounds and prefix tables whose correctness rests on an
  argument the code does not make.

What makes each component correct: the engine keeps `docs` and `entries` in
agreement, its stamps true, its calls whole and its mutex free; the packing
never lets two records share an id; a migration leaves every old row reachable;
pages partition the results; a range scan and an early exit give the answer of
the full scan; a strategy finds what its query says; an index of one
configuration never passes for one of another; a handle names one engine;
highlighting returns the host's text with markers around what
matched.

## The modules

### Packing

Ids as numbers of a word of `W + 1` bits (`W = 63` is an `i64`): shifts that
wrap as `<<` does, `|` bit by bit, arithmetic `>>`. `MaxFieldBits` is `W - 1`,
as 62 is for the code. `slot_of` keeps the eight bits of a `u8`, which are
`DefaultBits` of the small word; `change_field_bits` uses all of `slot_bits`. All
record modules extend it. `PackingProofs` shows what
they rely on, for every `W`.

### IndexFile

The file as a record: the FTS table `docs`, the table `entries` (`norm` and
`raw`; `norm_rev` is written with `norm` by every statement here), and the two
stamps. The statements are functions from one image of it to the next. `torn` is
a ghost: the ids on which an autocommitted write has begun and not completed.
`SearchEngine` and `SharedFile` both work on it.

### SearchEngine

One engine object on one file. `db` is the committed file; `tx` is the copy an
open transaction works on; `commit` installs it, an error drops it. `lock` is
the mutex, `options` and `field_bits` the engine's own state, `pc` and `call` the
place and locals of each thread. `overtaken` is a ghost: the threads in a call
during which `field_bits` has changed.

| Code | Actions |
|---|---|
| `index`, `remove` | a request, `locked_conn`, then `delete_docs`, `insert_docs`, `replace_entries` / `delete_entries`, one autocommitted statement each |
| `index_batch`, `remove_batch`, `remove_all` | a request, `locked_conn` (BEGIN), one `index_item` / `remove_item` per turn, `commit` |
| `index_record`, `index_records_batch` | a request that loads `field_bits`, `load_max` (validation), `load_lo`, `load_hi`, `locked_conn`, `record_item`, `commit` |
| `remove_record`, `contains_record` | the same loads, then the statements of `remove`, or one read |
| `search_records`, `match_count_records` | `locked_conn`, `fetch_hits` (which drops the guard), `decode_hits` with one load per hit (per call for the count), `return_hits` |
| `reindex` | `locked_conn`, `regenerate`, `commit` |
| `change_field_bits` | `locked_conn`, `repack`, `commit`, `store_field_bits` |
| the constructors | `open`, `open_stamp_bits`, then `open_stamp_profile`, or `regenerate` and `commit` |
| `?` on an SQLite error | `statement_fails` |
| the process dies; the last reference goes | `crash`; `close` |

Abstractions: the inner statements of a transaction are one step, since nothing
outside the connection's holder can see between them; a search finds the
documents whose normal form is the query's, which is enough to have hits of
several records; document-level reads are one statement under the mutex and
change nothing, so they have no action; arguments that are refused before any
state is read are not passed.

`RecordIndex` is what the engine promises: a set of record, slot and text, at most
one text for each field, and each operation one step on it; a batch adds the last
item of each id. `EngineRefinement` reads the file as such a set through the stored
encoding and states `ImplementsRecordIndex`, and for several threads
`CallsTakeEffectAtOnce`: every step that changes the set is one of the abstract
index's, unless its call was overtaken by a re-encoding (which is what
`SafeToShare` and its counterexample are about). `EngineInvariant` and
`EngineRefinement` hold the inductive invariants, `EngineProofs` the proofs.

### Configuration

The eight steps, the two presets and the fingerprint, as the set of parts the
code joins with `+`. `SharedFileProofs` shows that it identifies the set.

### SharedFile

Several engines on one file, with real option sets (`Configuration`), real
normal forms (`Normalize`) and packed ids. What can come between the steps of
two engines is modelled: the five constructors read row count and stamp twice
over in separate statements, then write two stamps, then return or rebuild;
`index`, `remove` and `remove_record` are a statement a step; a method that opens
a transaction is one step, because its first statement writes and takes SQLite's
write lock; `reindex` and `change_field_bits` read every row in a step before
theirs. A later `INSERT` on an id another engine put back fails, as the row id is
unique. Two ghosts say where no promise is made: `contested` holds the ids an
engine wrote while another engine's call was between two steps on them, `mixed`
tells that two engines with different settings were past their checks at once.
Each engine makes one call at a time; its threads are `SearchEngine`'s subject.
`SharedInvariant` holds the inductive invariant, `SharedFileProofs` the proofs.

| Code | Actions |
|---|---|
| `new`, `with_config`, `with_options` and the rebuilding forms | one action each, all `open` |
| `stored_field_bits`, `check_field_bits` | `count_for_bits`, `read_bits` |
| `stored_profile` and the mismatch test | `count_for_profile`, `read_profile` |
| the two stamps | `write_bits`, `write_profile` |
| `index`, `remove`, `remove_record` | a request, then `delete_docs`, `insert_docs`, `replace_entries` / `delete_entries` |
| `index_batch`, `remove_batch`, `remove_all` | one step each |
| `index_record`, `index_records_batch` | one step each, both `WriteRecords` |
| `reindex`, a rebuilding open, `change_field_bits` | a request, `select_rows`, then `regenerate` or `repack` |
| an SQLite error; a process dies; the last reference goes | `call_fails`; `dies`; `close` |

### SchemaMigration

`open_schema()` statement by statement, by several processes on one file:
`CREATE TABLE`, the two column tests, the two `ALTER TABLE`s, the backfill's
`SELECT` and `UPDATE`s, `CREATE INDEX`. SQLite's rule that a transaction may not
write from a snapshot older than the last commit is `fresh`: a process leaves
that set when another commits. `undone` is a ghost: a process gave up between its
`ALTER TABLE` and the end of its backfill. A row keeps the norm its `norm_rev`
mirrors. `MigrationInv` is its inductive invariant, `MigrationProofs` the proofs.

### Paging

One query's results as a sequence of hits. A ranked strategy orders them by
score and id; an unranked one gives them the score 0 in an order of SQLite's
choosing. `search_paged` is either the SQL one (`LIMIT`/`OFFSET`) or the default
one; `search_records` takes the over-fetched prefix, folds it by record, ranks
and truncates. `u32` checks and saturation are there with a small `MaxU32`. The
index does not change while the host scrolls; the API promises nothing if it
does. A sort is defined by what it returns (`InOrder`: the k-th element is the one
with k - 1 others before it), so that it can be reasoned about as well as run.
`PagingProofs` holds the proofs.

### Strategies

An index is a set of texts, a text a sequence of code points with the gap of the
surrogates; one action per strategy answers one query. `escape_like`,
`fts5_phrase`, `range_upper_bound`, `trigrams` and `max_distance` are the code's;
`Like`, `Fts5String` and `Fts5Match` say how SQLite reads a pattern and a match
expression, one character at a time (`LikeNext`, `Fts5Next`): `LIKE` folds ASCII letters, the trigram tokenizer Unicode's (one
pair of letters stands for those). The edit strategies ask `within`, of `EditPaths`,
whether a word is near enough. `search_paged` and `match_count` use the same
conditions; the limit and the order of hits are `Paging`'s.

### EditDistance and EditPaths

`fill_row` is one turn of the outer loop of `levenshtein()` or `osa()`. The
reference is a definition without a table: the least cost of an alignment, which
pairs some characters of one word with as many of the other, in order (an increasing
function), together with a set of swaps, which are two neighbouring pairs that match
when exchanged. `EditDistanceProofs` holds the proofs.

`EditPaths` is the same table read the other way, and small enough to search whole
indexes with: not what a cell costs, but which cells (places in the two words) at
most n edits lead to. `within` asks whether the last one is among them, and `Exact`
says that this is when the two functions answer a number.

### Normalize and Highlight

`Normalize` defines the steps on one representative of each class of characters
the code tells apart. NFKC, NFD and NFC are a library's, and are given by what they do
to these representatives: decomposition, the ordering of marks by class (the voiced
mark is of a lower class than the accent), and composition with the last starter
where no mark of the same class or a higher one is left between. `Highlight` builds `highlight_raw()`'s table one prefix at a
time (with its early stop) and then marks one match at a time; a row without raw
text has its norm marked by `highlight_occurrences()`, and a missing document or
an empty query gives none. Offsets in the normalized text are bytes, because the
code compares byte lengths.

### Plugin

The Dart wrappers, the method channel as two queues, and the platform's table
of engines, for Kotlin and for Swift. A handler runs to its end, the engine's call
included, on one thread, so it is one action. Dart never waits: a wrapper may be
used or disposed of with calls in flight, and the next one opened. `use`
stands for every call made through a handle, and fails in each way the handlers
answer: `BAD_ARGS` before the engine is looked up, `NO_ENGINE`, the engine's
`SEARCH_ERROR`, and `PLUGIN_ERROR` for anything else that is thrown. The ghosts are the calls that found no
engine (`missed`), that reached another wrapper's (`strays`), and the wrappers
opened when every earlier one had been disposed of (`alone`). Detaching takes the
Dart side with it; `onDetachedFromEngine` is Kotlin's, which closes the engines of the
table. Swift's plugin has no such handler: its object is released, and reference
counting closes them, which comes to the same step here. `HandlesInv` is its inductive invariant, `PluginProofs` the
proofs.

## The runs

| Run | Question | Bounds, and why they suffice |
|---|---|---|
| `engine_faults` | Does any call, failure, crash or reopening separate the tables, falsify a stamp, lose a record, or show half a call? | One thread, four calls (opening included), one fault, words of 4 bits with 1 to 3 slot bits: a re-encoding each way, ids on both sides of every limit, a reopening under another profile after a fault |
| `engine_threads` | Does any interleaving let a thread see the tables apart, or a call take effect in part? Does every call return? | Two threads, three calls (one opens), one fault, one profile, one record, one document id, a re-encoding: a call of each kind inside every gap of every other |
| `shared_file` | What do the constructors' checks, made once, still guarantee while another engine writes, re-encodes, rebuilds or dies? | Two engines, four calls (openings included), one failure, two option sets of which one contains the other, requests for 2 bits or none, an old file of one row or an empty one: two openings and two writes in any interleaving |
| `migration_shared` | Can a backfill overwrite a newer row, and which interleavings leave rows unfilled? | Two processes, two rows, three writes, two deaths, old files of both kinds: two migrations in step, one refused, one dying, and any number of reopenings |
| `edit_distance` | Are both functions exact up to the bound? | Words of up to 4 letters over 3, bounds 0 to 2: swaps after the second row, edits on either side of one, words past the bound |
| `pages_ranked` | Do pages partition the results, and do they show the best records? | Three records of two fields, three scores, pages of 0 to 3, hints of 1 to 3, `MaxU32` 6 so that the products overflow |
| `strategies` | Does a query find what it says, whatever characters it holds? | Eight indexes: texts of up to 3 to 6 characters over the wildcards, the quote, letters of both cases, spaces, both sides of the surrogates and `char::MAX`; typing errors of an eight-letter word. Every text is a query for every strategy |
| `highlight` | Is the text kept, and are the matches marked? | Texts of up to 3 over ten kinds of characters, three option sets, with and without raw, every query that occurs, one that does not, the empty one |
| `plugin` | Does a handle mean one engine, does every call get its one answer, and does the table leak? | Three wrappers, one call besides opening and disposing, both platforms: an open and a failed open on either side of a disposal |

The engine runs share `MCSearchEngine`: two profiles that agree on blank texts
only, a text and a blank, a document id that is also a field of a record, records
0 and 1, a legacy row, a batch that writes one id twice, a record with a blank
field, one with a duplicate slot, and one whose slot does not fit. Bounds in the
guards are `MaxCalls`, `MaxFaults`, `MaxWrites`, `MaxCrashes`; bounds on data are
the sets of inputs and `MaxLen`. Deadlock is checked for the engine (`Done` is
the only way to stop) and for the migration; it is not for the algorithms, which
end, nor for `shared_file` and `plugin`, where the hosts may have nothing more to
do.

Three runs end in a violation. Each checks one sentence of the code's own
documentation or tests against what the code does:

| Run | What the code does |
|---|---|
| `engine_shared` | `field_bits` is loaded outside the mutex: a record search decodes its hits after it released it, a record call computes its id range before it took it. After a `change_field_bits` in between either works on other records' ids. The shortest counterexample is a search (`HitsNameTheirRecords`); `RangeIsActive`, the other half of `SafeToShare`, fails as well |
| `migration_crash` | A crash between `ALTER TABLE` and the backfill leaves `norm_rev` empty for good |
| `pages_unranked` | Under Prefix and Suffix a record can be on two pages and another on none |

More disagreements follow from the models, which state the properties so as
to leave them out and have no run for them:

* A rebuild skips rows without raw text and stamps the index all the same;
  `reindexStatus` then says `UpToDate` (`NormalizedAsStamped` is about rows with
  raw text).
* `matched_slots` lacks the fields that rank below the over-fetch
  (`RecordsRanked` looks at the first slot only).
* A query with U+D7FF, the last character before the surrogates, finds texts that
  do not start with it (`ScanIsTight` leaves such queries out).
* With digit grouping removed, a marker can be one character off: `00` in `0,0`
  is marked `[0,]0`. A combining voiced mark after its kana does the same under
  every profile (`MarksWhatMatched` is about texts normalized character by
  character).
* Two matches inside one expanded character give an empty pair of markers
  (`PiecesInOrder` allows it).
* Two engines opened on an empty index under different profiles both pass the
  check (`engine.rs` 279–281) and mix their normal forms; `withConfig`'s comment
  (493–494) says that profiles are not mixed. `RowsAsOpened` is about states that
  are not `mixed`.
* Two connections that index or remove one id at the same time can leave `docs`
  and `entries` with different texts, or one without the other, with no failure
  at all. A `reindex` that another connection's write comes into writes the norm
  of the old text next to the new one, or a row of `docs` without its entry
  (`TablesAgree` is about ids that are not `contested`).
* A `change_field_bits` loses what another connection indexed between its
  `SELECT` and its transaction (`EncodingKeepsRecords`, likewise).
* A query of blanks is searched under a profile that keeps them, while the
  comments on `search`, `match_count` and `search_records` (741, 785, 1001) say
  that it finds nothing.
* Under a profile without `lowercase`, Substring and TrigramBm25 tell é from É
  in queries of one or two characters and not in longer ones
  (`MatchesLiterally` allows hits that differ in case).
* A query of several words seldom finds the text made of them under an edit
  strategy, which compares the whole query with one word at a time (`FindsTypos`
  says what it does find).
* Both plugins wrap a slot of 256 to 0 (`toUByte()`, `uint8Value`), so that the
  engine's check of slots never sees it; a negative limit is wrapped to a huge one
  by Kotlin and traps in Swift.

### Fairness

`engine_threads` assumes `WF(Step(t))` for every thread, that is,
a thread inside a call keeps running when it can. Nothing obliges a host to call
again, an SQLite error to happen, or a process to die. The standard library's mutex
is not fair, but weak fairness of a thread that waits for it is enough here: the
number of calls is bounded, so the mutex is eventually free for good, and a
thread that keeps arriving can not starve another forever. What the run shows is
therefore that no path keeps the mutex or waits for itself, not freedom from
starvation among unboundedly many calls. (The action under `WF` carries the
ghost's update, `Overtaking`, so that it is a step of `Next`; it is enabled when
`Step(t)` is.) `plugin` assumes `WF` of the platform's handler and of Dart's
completions: both event loops keep running, and an engine's call inside a handler
returns, which is what `CallsReturn` shows. A poisoned mutex is not modelled: no
locked section panics on the inputs modelled.

## What is proved

Every theorem below holds for any number of actors (threads, engines, processes,
wrappers), any bounds on calls and faults and any width of a word. A proof's
assumptions are those named on the constants, which TLC evaluates in each run:
`WordAssumption`; `PowerAssumption`, two facts about powers of two that the SMT
solver does not have; and each module's own typing of its constants
(`ConstantAssumption`, `SharedAssumption`, `MigrationAssumption`, `TextAssumption`,
`PagingAssumption`, `DistanceAssumption`). Where a module
uses `NULL` for a missing row, profile or number, its assumption says that `NULL`
is none of these.

| Theorem | What it states | Property of the run |
|---|---|---|
| `EngineProofs!TypeCorrect`, `TablesTogether`, `SearchSeesBoth` | types; the tables differ only on ids whose last autocommitted write was cut short; without faults, whoever finds the mutex free finds them in agreement | `TypeOK`, `TablesAgree`, `InSync` |
| `EngineProofs!UpToDateMeansNormalized`, `StampsAreTheEngines` | rows that kept their raw text are normalized as the file is stamped; an open engine's configuration is the file's | `NormalizedAsStamped`, `StampsMatch` |
| `EngineProofs!RepackingKeepsRecords` | a step that changes the stamped encoding keeps every document under its record and slot | `RepackKeepsRecords` |
| `EngineProofs!CallsTakeEffect` | any step of any thread that changes what the file holds is the whole effect of one call, unless that call was overtaken | `CallsTakeEffectAtOnce` |
| `EngineProofs!EngineImplementsRecordIndex` | used by one thread (the theorem's assumption, which no engine may do without: see `engine_shared`), the engine implements `RecordIndex`, faults and crashes included | `ImplementsRecordIndex` |
| `SharedFileProofs!TypeCorrect`, `TablesTogether` | types; with several engines, the tables differ only on torn and contested ids | `TypeOK`, `TablesAgree` |
| `SharedFileProofs!RowsFoundAsOpened`, `StampsFoundAsOpened`, `EncodingChangesKeepRecords` | what the constructors check once stays true while other engines write, re-encode, rebuild and die; no step relabels an id without moving it | `RowsAsOpened`, `StampsMatch`, `EncodingKeepsRecords` |
| `MigrationProofs!BackfillMirrors`, `OnlyUndoneBackfillsAreLost` | a backfill never mirrors another text; only one given up leaves rows unfilled | `RevMirrorsNorm`, `MigratedUnlessUndone` |
| `PluginProofs!HandlesAreForGood`, `CallsFindTheirEngine`, `NoEngineLeaks`, `OneEngineAtOnce` | a handle names one engine for good, which is there when a call arrives and is not kept when Dart has lost it | `ReachesItsEngine`, `NoneMissed`, `NoneLeaks`, `OneEngineUnlessAsked` |
| `PackingProofs!PackedComesBack`, `UnpackedGoesBack`, `RangeIsTheRecord`, `RepackedKeeps` | shifts, masks and `\|` on a wrapping word are an exact code of pairs; a record's range is its ids; a re-encoded id keeps its pair and meets no other | |
| `SharedFileProofs!FingerprintIdentifies` | option sets with the same fingerprint are the same | |
| `PagingProofs!PagesFollowOneAnother` | however a strategy orders its hits, the pages of documents are consecutive pieces of its result, and all of it when scrolling ends | `DocumentPages` |
| `PagingProofs!PagesShowTheBestRecords`, `PagesShowEachRecordOnce` | under a strategy that ranks and a hint that is not too small, the pages of records show the best records of the whole index, in order, each once and in the end all of them. The theorems assume that every strategy ranks (for the others `pages_unranked` refutes it) and that no more documents match than a `u32` counts (the over-fetch saturates there) | `RecordsRanked`, `RecordPages` |
| `StrategiesProofs!QueriesAreLiteral` | whatever the query and the texts, a text in one run and a list of terms find every text that contains them, and none that does not but for case | `MatchesLiterally` |
| `StrategiesProofs!CandidatesAreEnough` | asking FTS5 for candidates costs `FuzzyTrigram` no document | `PreFilterLosesNothing` |
| `StrategiesProofs!TyposAreFound` | the edit strategies find every text with a word that the allowed number of typing errors makes of the query, and no other; for `damerau_levenshtein` and two errors or more, every word made without a swap | `FindsTypos` |
| `EditDistanceProofs!CellsHoldDistances`, `DistancesAreExact` | for words of any length, the rows `levenshtein()` and `osa()` keep hold distances between prefixes; the call answers the distance if it is at most `max`, and gives up only if it is more, which is when `within` does not hold | `CellsAreDistances`, `Exact` |
| `StrategiesProofs!NothingMissed`, `NothingElseFound` | the range scans find the texts that start (end) with the query; nothing else, unless the query has U+D7FF | `ScanMissesNothing`, `ScanIsTight` |

Each invariant's theorem about a protocol follows from an inductive one, which a run checks as well
(`TablesInv`, `EffectsInv`, `SharedInv`, `MigrationInv`, `HandlesInv`; `EncodingInv`
is a conjunct of `EffectsInv`) and a theorem of its own states (`TablesInvariant`,
`EncodingInvariance`, `EffectsInvariant`, `SharedInvariance`, `MigrationInvariant`,
`HandlesInvariant`). Why none of the properties is inductive
by itself:

* **`SearchEngine`, tables.** After `delete_docs` the next statement repairs the
  tables only if it is the same call's, on the same ids, with the row the call
  began with. `LockOK`: the holder of the mutex is the one thread inside a locked
  section, and a transaction is open exactly in the sections that have one.
  `CallOK`: the locals a section uses are those its operation needs. `WriteOK`: in
  the middle of an autocommitted write its ids are all `torn`, and `docs` already
  holds what `entries` will. `AgreeOutsideTorn`: of the file and of the
  transaction's copy. `TornOK`: without faults an id is torn only while its writer
  holds the mutex.
* **`SearchEngine`, stamps.** `open` stamps the encoding, then the profile, and
  perhaps rebuilds in between; `reindex` and `change_field_bits` stamp an image and
  commit it later, and the atomic follows the commit. `FileStamps` is what holds of
  the file between calls, `ImageStamps` of a transaction from its `BEGIN`, and
  `CallStamps` says for each place how far the call has come: which stamp is
  written, whether the rows are known to be normalized or about to be. A crash
  anywhere leaves a file of which `FileStamps` still says what the next `open`
  will find.
* **`SearchEngine`, encoding.** `change_field_bits` checks the rows in one step and
  commits what it made of them in a later one. `EncodingOK` says that the image is
  still the file's rows repacked and that all of them fitted, because whoever could
  change them would need the mutex; and that `open` stamps the encoding of the rows
  it found. `EncodingInv` is this with `StampsInv`.
* **`SearchEngine`, refinement.** A call reads its arguments and `field_bits` at its
  beginning and changes the file at its end, so a thread's locals must still mean
  then what the host asked for. `EffectsInv` says this of every call that was not
  overtaken. `AsAsked`: what is left in its locals is what it was given, by operation
  and place. `AsEncoded`: the ids it has computed are those of its record under one
  value of `field_bits`, which is the file's encoding. `AsPromised`: for a batch, the
  transaction's image with the items still to come applied to it is the file with
  all of them applied, so that `commit` installs the whole of the batch although
  every step before it changed an image only. A step then maps as follows: the
  statement that writes `entries`, and `commit`, to the call's action of
  `RecordIndex` (`StepTakesEffect`, `CommitTakesEffect`); `change_field_bits` to a
  stutter, because what each id means under the new encoding is what the one it came
  from meant under the old (`RepackingKeepsRecords` again); everything else to a
  stutter, because it leaves `entries` and the encoding alone. An overtaken call is left
  out. One thread is overtaken by nobody: the only call of its own that changes
  `field_bits` and goes on is `open` (`OnlyOpens`), which has no such locals. That is
  how the second theorem comes from the first.
* **`SharedFile`, tables.** No mutex orders the engines, so `WriteOK` speaks of a
  call's ids outside `contested`: between two of its steps, an id is what the last
  step left, or another engine wrote it. The heart is that every write of an id in
  another call's `InFlight` set makes it contested, and that `repack` carries
  contested ids to where it moves them.
* **`SharedFile`, stamps.** `StampsOK` follows a constructor through its checks:
  past `read_bits` the rows are of the engine's encoding, past `read_profile` they
  are of its normalization or it will rebuild them, and before it returns both are
  stamped. For the step of another engine the proof splits into what a step can do
  to a file's encoding, its profile and its rows; a step that changes one of them to
  something else than what an engine past its check relies on makes the two differ,
  so that the state is `mixed`. The last conjunct (rows are as stamped, whoever is
  open) is what an engine that opens later starts from; that `read_profile` may
  conclude from equal stamps to equal option sets is `FingerprintIdentifies`.
* **`SchemaMigration`.** An opener's `SELECT` holds a list of rows while others
  write; `SeenOK` says that it holds every row that is still unfilled, and that what
  it holds is the file's unless the opener is no longer `fresh`, whose transaction
  SQLite refuses. `PlaceOK` is what each place in `open_schema()` knows of the
  columns.
* **`Plugin`.** The property is about the engine a call finds on arrival, the
  invariant about the queue it is in: what every message and every answer on its
  way may say (`OpenOK`, `AnswerOK`), that a call carries a handle of its own
  wrapper and has no `dispose` of it ahead (`CallOK`), and, for wrappers opened one
  after another, that the earlier one's `dispose` is ahead of the later one's open
  (`DisposedAhead`).

The range scans need no induction over texts. Of `Before` only two things
matter: the first position where a text and the key differ, and the last position of
the key whose character has a successor, which is where the bound ends
(`UpperBound`). A text that starts with the key is smaller than the bound there
(`RangeHoldsPrefixed`). A text of the range that does not is larger than the key where
it first differs, so the key's character there has a successor, or is the one before
the surrogates; then the bound ends there or later, and the text is not below it
(`RangeHoldsNothingElse`). `Suffix` is the same of the
reversed texts. The inductive invariant, `AnswersInv`, is of the proof alone: it says
what each strategy answers, once it has answered.

Quoting is proved by reading back what was written. The functions that write and
those that read take one character at a time, and `ReachedByChar` turns such a
definition into its two equations, for any step; an induction over the length of the
query (`TextInduction`) then follows both along. For FTS5 (`PhraseReadBack`): after
the doubled form of a prefix of the query, the reader has that prefix, and no quote
open. For `LIKE` (`EscapedReadBack`): after the escaped form of a prefix, no escape is
open, and the pattern may end exactly where an occurrence of the prefix ends; the two
`%` let it begin and end anywhere (`InfixOccurs`). The step from one to the other at
three characters changes case only: equal under ASCII's folding is equal under
Unicode's (`FoldsAgree`). For the candidates: two sets that `Similar` accepts share an
element (`SimilarShare`), each trigram is a phrase of three characters that FTS5 reads
back as it is, and a text with that trigram is matched by it (`CandidatesSuffice`).

Typing errors are two different inductions. That a word near enough is made of the
query by so many errors (`WithinEdited`) follows the places: wherever n edits lead,
n errors make of the query what the word has been read of followed by what the
query has not (`HalfEdited`); reading one more equal character changes nothing, and
each edit of the path is one error there. That a word made by n errors is near
enough (`EditedWithin`) goes error by error: when n edits lead through the query and
a word u, and one error makes w of u, then n + 1 lead through the query and w,
because every place of u has a place of w it was carried to, the same before the
error and shifted after it (`Carried`, `EditStaysWithin`). A swap as the last of several
errors breaks this (osa() edits nothing twice), which is why `FindsTypos` promises
swaps only where one error is allowed (`ExchangeWithin`).

Paging has inductive invariants of the proof alone: what has been shown is the first
`page * per_page` of the hits (`DocumentsInv`), or of the records of all hits in
order of rank (`RecordsInv`). The first is arithmetic on `SubSeq`. The second rests on one fact
about records of the first n hits, for any n (`FirstRecords`): a record with a hit
among them has its best hit among them, because no hit before is worse
(`BestAmongFirst`), and a record without one ranks after all that have one
(`OthersRankAfter`); so the records of the first n hits, ranked by themselves, are a
prefix of the ranking of all, and the pages, each cut from its own over-fetch, agree on
it. That the over-fetch is deep enough is a pigeonhole (`HintBounds`): as
each record has at most `fields` hits, a fetch of `limit * fields` hits that folds
into fewer than `limit` records has fetched every hit. `InOrderFacts`, that a strict
total order gives every element of a finite set one place, is by counting: the ranks
are different numbers below the set's cardinality (`RanksFill`).

The edit distances have one of their own too, `TableInv`: the kept rows are those of
the table of `Cell(m, n)`, the least price of an alignment of two prefixes, and an
answer is read off its last cell. A row is right because every alignment of two
prefixes ends in one of four ways: the last character of either is left out, the two
are paired, or the last two pairs are a swap. Taking that end away is an alignment of
shorter prefixes, cheaper by the end's price (`SomeSource`); putting it back is an
alignment again (`LeaveOut`, `PairUp`, `Swap`). Prices are counts of finite sets, and
they are numbers because an increasing function is an injection and disjoint swaps take
two mismatches each (`PairsFit`, `SwapsFit`). Within a row, a cell also reads the cell
before it: the code's row is a recursive function, shown to be the table's row by
induction over its columns (`NextRowIsNext`). Giving up early is the delicate part,
because a swap reads the row before the one that is tested: a row all of whose cells
are too far must not be followed by a nearer one. It is not: what a swap makes of a
cell two rows up, a pair and a left-out character make of the row between at no greater
price (`NextRowFar`). For `within`, the cells that hold at most t are the places t
edits lead to: the step that made a cell what it is (`SomeSource`) is the way to its
place (`NearCameFrom`), and no step costs more than one (`CostsOneMore`); so they solve
the equation that defines `PlacesAfter`, which has one solution (`PlacesAreNear`).

The packing lemmas need sums of bits, which the code's `|` is by definition, so
`PackingProofs` begins with a set form of induction (`SetInduction`, from the
least element of a set of naturals) that needs no operator parameter; the bits of
`r * 2^b` and of a slot below `2^b` are then shown not to overlap. The lemmas about
`IndexFile`'s statements (what `DeleteDocs`, `InsertDocs`, `WriteRows`, `Repacked`
do to each table and to agreement) carry most of the steps of both file modules.

### What rests on TLC alone

* `CallsReturn` and `EveryCallAnswered`: liveness under fairness, and `ENABLED`,
  are beyond the prover.
* `BoundsSorted`, `PiecesInOrder` and `MarksWhatMatched`: what they say depends on
  what the normalizer does to a prefix of a text, which `Normalize` gives for one
  representative of each class of characters, and on `match_indices`, recursive
  over the text. They are facts about these data, not about any text.

## What is not modelled

* BM25 and SQLite's own recovery: a committed statement stays, an interrupted one
  never was. FTS5 and `LIKE` are modelled by what they match.
* The order in which a strategy returns its hits, beyond what `Paging` says of it.
* Threads within one engine and several engines at the same time: `SearchEngine`
  and `SharedFile` take one each.
* `SQLITE_BUSY`: a statement that waits for another connection's lock is a later
  step here, one that gives up is `call_fails`. `SchemaMigration` models the
  refusal of a transaction whose snapshot is old, which needs a transaction that
  reads first; only the backfill's does.
* What the plugin's conversions make of an argument (that one fails is modelled), and
  its two calls without an engine.
* Texts with U+0000, at which SQLite's `LIKE` and FTS5 stop reading
  (`TextAssumption`).
* The bindings (generated), samples, benches.

## Plan

Done, in this order: `Packing`, `SearchEngine` with `RecordIndex` and its
refinement, the inductive invariant and its proofs, `SchemaMigration`,
`EditDistance`, `Paging`, `Normalize` and `Highlight`; then `IndexFile`,
`Configuration` and its theorem, `SharedFile`, `Strategies` and `Plugin`; then the
stamps of `SearchEngine`, and the proofs about `Plugin`, `SchemaMigration`,
`Packing`, `SharedFile` and the range scans of `Strategies`; then the proof of the
refinement, and the proofs about `Paging`, about quoting, candidates and typing
errors in `Strategies`, and about `EditDistance`.

What is left to model is small: what the plugin's conversions make of arguments, and several threads in several
engines at once, which multiplies two state spaces that share no mechanism but
SQLite's lock.
