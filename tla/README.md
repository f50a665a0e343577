# A verification project for CaraStudio

CaraStudio is a RAW photo editor in C (GTK 3): a library `librawstudio`, some
thirty plugins (filters, loaders, metadata readers, output formats) and the
application in `src/src`. This directory holds TLA+ models of the parts of it
whose correctness depends on order (threads, callbacks, notifications, caches),
TLC configurations that check them on small instances, and proofs that hold for
every instance.

Paths below are relative to the repository; line numbers are those of the
commit modelled.

## 1. The system

### Threads

| Thread | What it does |
| --- | --- |
| main | the GTK main loop; runs under the gdk lock, a *recursive* lock installed in `application.c:473-487, 660` |
| io worker | one thread (`rs-io.c:98-105`) that executes background jobs and their callbacks |
| tethering | one thread while a camera is connected; adds rows to the store, photos and tags to the library |
| job pool | threads of `rs-job-queue.c`, for exports; at its end an export writes a flag into the sidecar |
| batch | one thread from `ProcessBatch` (`rs-actions.c:2158-2182`) until its list is empty; holds the gdk lock but while it renders |
| filter helpers | forked and joined inside one `get_image()`; never seen from outside |

### Components

| Component | State | Operations | Interacts with | Hard behaviour | What makes it correct |
| --- | --- | --- | --- | --- | --- |
| Background jobs, `rs-io.c` | queue, active count, pause flag | add, cancel (one, a class), pause, count, worker loop | everyone that reads files | a worker between its checks; a cancellation that rotates the queue; a count in two parts | order, exact counts, no job lost or run twice |
| IO lock, `rs-io.c:312-356` | recursive mutex | lock (polls, gives up), unlock | worker, loaders, output, store | giving up; unlocking without owning; early returns | the owner keeps it until its unlock; requests return |
| Thumbnail store, `rs-store.c` | rows, tab counts, `jobs_to_do`, blocked handler | load, remove, search, flags, callback of metadata jobs | job queue, sidecars, library | callbacks of jobs of an earlier load; stale iters; reads outside the gdk lock | tabs show what is in the store, a load ends, rows show what is saved |
| Thumbnail regeneration, `rs-store.c:2982-3195` | queue, idle source | enqueue, idle step | store, photo, filters | a wake-up lost between two threads | every queued thumbnail is rendered |
| Filter chain, `rs-filter.c` and the filter plugins | a tree of filters, their settings, cached images | set a property, enable, request an image, notify | widgets, settings | rendering inside a notification; partial and quick images in caches | nobody is given a stale, partial or coarse image |
| Settings and photo, `rs-settings.c`, `rs-photo.c` | ~60 properties, three snapshots, crop | set, copy with mask, commit, signals | filters, sidecars, toolbox | signals held back and merged | no change lost, no echo loop |
| Metadata and its cache, `rs-metadata.c` | XML and JPEG next to the photo | load, save, delete | worker, store | a save in two files; old versions | what is loaded is what the photo says |
| Sidecars, `rs-cache.c` | XML next to the photo | save, load, flags | photo, store, worker | read while rewritten | flags survive saves of settings and the reverse |
| Library, `rs-library.c` | SQLite tables | add, tag, search, backup | worker, tag GUI | two locks, three threads | a tag is not lost |
| Slot job queue, `rs-job-queue.c` | thread pool, slots | add, slot, wait | export dialog | two locks in two orders | an export ends |
| Batch, `rs-batch.c` | list in XML | add, remove, process | store, photo, output | cancel while running | each entry exported once |
| Tethering, `rs-tethered-shooting.c` | camera, directory | capture, download | store, gdk lock | events while downloading | each capture is added once |
| Preview, navigator, loupe | requests, zoom, tools | render | filter chain | re-entrant rendering | shows the current photo |
| Loaders, metadata and output plugins; curves, lens and profile databases; utilities | none, or read-only tables | pure functions | | | arithmetic and formats |

`PROJECT.json` lists the same parts with their status, and under `hazards` what
is hard to test in each, at its line.

## 2. The modules

| Module | Models | Role |
| --- | --- | --- |
| `JobBoard` | what `rs-io.c` promises | abstract: a job is new, pending, running, done or dropped; the most urgent pending job starts next |
| `IoQueue` | `rs-io.c` without the lock | detailed; implements `JobBoard` |
| `IoQueueProofs` | | theorems about `IoQueue` |
| `IoLock` | `rs_io_lock()`, `rs_io_unlock()` | detailed |
| `IoLockProofs` | | theorems about `IoLock` |
| `StoreLoad` | loading into the store | `rs-store.c` together with the worker and its callers |
| `StoreLoadProofs` | | theorems about `StoreLoad` |
| `FilterChain` | filters, caches, requests | a tree of filters walked by one thread |
| `FilterChainProofs` | | theorems about `FilterChain` |
| `Library` | `rs-library.c` and its callers | one SQLite connection under three threads, and `tags.xml`, with crashes |
| `LibraryProofs` | | theorems about `Library` |
| `PhotoFiles` | `rs-cache.c`, `rs-metadata.c`, opening and closing photos, regeneration of thumbnails | the three files beside a photo under three threads, with crashes and a clock |
| `PhotoFilesProofs` | | theorems about `PhotoFiles` |
| `Settings` | `rs-settings.c`, `rs-photo.c`, the signal paths through toolbox and dcp | one thread, re-entrant signals |
| `SettingsProofs` | | theorems about `Settings` |
| `Export` | `rs-batch.c`, `rs-job-queue.c`, `rs-save-dialog.c` | the batch thread, the pool and the user at the gdk lock and the list of exports, with failures and ends of the program |
| `ExportProofs` | | theorems about `Export` |
| `MC*` | | instances for TLC |

A definition `X_Y` is `X` with a mistake `Y`. No specification uses it. It is
there to be put in place of `X`: the property it belongs to (see `mutants` in
`PROJECT.json`) then fails, which shows that the property depends on the code.

### IoQueue

`queue` is the GAsyncQueue, next job first. `wpc` is the place of a worker in
`queue_worker()`: `check` (the pause flag), `poll` (about to take
`count_lock`), `pop`, `execute`, `callback`, `return` (the callback has added a
job), `retire`. `cpc` is the place of another thread in a call that takes
several steps: `rotate` in a cancellation, `length` and `sum` in
`rs_io_get_jobs_left()`. A call that locks, does one access and unlocks is one
step; where a lock is held over several accesses, each access is a step. This
is why the pause flag (read without a lock, acted upon later) and the two
halves of the count can be caught in every intermediate state.

The order of the queue is that of `g_async_queue_push_sorted()` and
`_sort_unlocked()` (GLib, stable) with `queue_sort()`: `InsertionPoint` and
`StableSort` say what they do. A cancellation appends a marker, then pops and
pushes back until it meets the marker. The two cancellations differ only in
which jobs they leave out and share their actions.

The callback of a metadata job may add a checksum job
(`rs-store.c:3281`, `rs-library.c:478-499`); this is `CallbackAddsJob`.
`ticket`, `clock`, `fresh` and `sincePause` are history variables.

### IoLock

`owner` and `depth` are the recursive mutex, `waiting` and `triesLeft` the
polling loop, `nest` the sections a thread is in. `Retry` gives up at the last
try; `Unlock` by a thread that does not own the mutex has no effect, as with a
recursive pthread mutex. `ReturnEarly` is the return of
`ciff_load_meta()` between lock and unlock (`ciff-meta.c:228`).

### StoreLoad

`op` is what the thread that holds the gdk lock is doing: `begin` and `add`
are `rs_store_load_directory()` and `rs_store_load_file()`, `count` is between
pushing the job and `g_atomic_int_inc()`. `opening` is a load that
`directory_activated()` has put off until the main loop has caught up
(`gtk-interface.c:1487`), during which other operations may start. The worker
goes through `take`, `read` (sidecar, outside the gdk lock), `update` (row,
inside), `count` (`jobs_to_do`, outside), `finish` (inside). `blocks` is GLib's
count of blocks of the handler of "row-changed"; `counterBlocked` is the
program's flag. `labels` is what the tabs show, `None` for "(-)".

The job queue is here the sequence of pending metadata jobs. Pausing is left
out (it only delays the worker) and so is the io lock around the worker's
`execute` (it gives up): the model has all the behaviours of the code and some
that these would delay. A row carries its priority; the other flags travel
the same way. A second load inside a load (`rs-store.c:1564`) cannot happen on
one thread and is not modelled.

### FilterChain

`Previous`, `NextFilters` and `Above` are the tree; five kinds of filter
(`Sources`, `Shapes`, `Pixels`, `Resamples`, `Caches`) stand for the plugins.
An image is the function from the filters it went through to what each
contributed, together with the region it is valid in and whether it is quick.
So "the right image" is an equation, `image.of = Now(f)`, and "covers" is
inclusion of sets of tiles.

`walk` is the rest of the recursion of `rs_filter_changed()`: first each next
filter's `previous_changed()`, depth first, then the emission of "changed".
`call` is the recursion of `rs_filter_get_image()`, one frame per filter.
`EmitChanged` at a renderer starts a request in the middle of a walk, as
`rs-navigator.c:342-349` does. Other handlers only queue a redraw.

`dims` of a resample filter is the *snapshot* its size was computed from. The
code notifies only if the size came out different; here every recalculation
notifies, which only adds notifications of pixels that were sent anyway. How
crop and rotate map a region is any choice. `get_image()` and `get_image8()`
of the cache are merged: `Miss` allows the flush that only `get_image8()`
makes when it is asked for no region. A colourspace is not part of a request.

The tree is constant: `rs_filter_set_previous()` is not modelled. Setters that
change an image without a notification are not modelled either; they are
listed as hazards. `Assign` is the setters that notify after they have assigned;
those of `x1` to `y2` of the crop filter (`crop.c:224-254`), which notify before,
are not modelled, and nothing calls them. `SwitchAssumption` is what makes
`rs_filter_set_enabled()` right although it announces a change of pixels and
not of dimensions: nothing behind a switched filter depends on its size.

### Library

`db` holds the four tables (`photos` with their checksums, `tags`,
`phototags`), `committed` what they were when the open transaction began.
Each SQL statement is a step of the thread whose `frame` it is in, because the
three threads that call the library share one connection: `rowid` is
`sqlite3_last_insert_rowid()` *of that connection*, so a thread that inserts a
photo and asks for its id depends on `idLock`. A `BEGIN` inside of another
thread's transaction fails and its `COMMIT` ends that of the other
(`library_photo_default_tags()`, `rs-library.c:950-969`); `Begin` and `Commit` do
just that. `xml` is `tags.xml` of the one directory: `Torn` between the
creation of the file and its end. `jobs` is the io queue by priority, since the
order of metadata, checksum and tagging jobs decides what a backup sees.
`Crash` rolls an open transaction back and keeps the files as they are. That is
the clean half of what may happen: the journal is kept in memory
(`rs-library.c:283`), so that an end of the program in the middle of the writes of
a `COMMIT` leaves a database that is corrupt, of which nothing is said here. `Init`
has what an earlier session may have left, a database with or without it.

Left out: `rs_library_delete_photo()` and `rs_library_delete_tag()`, which
nothing calls (the latter's helper deletes from the wrong table); the upgrades
in `library_check_version()`; more than one directory; a tagging with several
tags at once. `marks` is a set, where `phototags` may hold a pair twice; the row
ids of `phototags` are the number of its rows, which is enough, as nothing asks
for them. What matters is that they change `rowid`.

### PhotoFiles

`sidecar`, `meta` and `thumb` are the files. None is written to a temporary
name: each is `Torn` from `Begin*` (the open, which truncates) to `End*` (the
close); if two threads have it open, what remains may be torn for good
(`mixed`). A read is one step, so a reader meets every state of a file.
`frame` is the call each thread is in: `Main` (open, close, paste, flags, the
thumbnail timer, clearing the cache, regenerating), `Io` (a metadata job under
the io lock, then the decision whether the thumbnail is stale), `Exporter` (the
export flag). Times are seconds of `now`, since the program compares `st_mtime`.

What the user does to a photo is a `Look`: settings, turn (orientation and angle)
and crop, each numbered by the operation that set it. A thumbnail is the look it
was rendered with, or `Camera`. The three parts are apart because pasting treats
them differently: `paste_settings` puts a transformation into a photo that is not
open *before* `rs_cache_load()` overlays it with what the sidecar says
(`PastedLook`, `Overlaid`), and the settings after it.

A photo in `bare` has no thumbnail in its own file, as the loaders of PNG, of
images read by gdk-pixbuf and of some X3F files leave it: `rs_metadata_cache_save()`
then writes none (`SkipThumb`; `rs-metadata.c:247`). Each save may fail at its start,
with the file as it was (`SideFails`, `MetaFails`, `SkipThumb`), or at its end, with
the file torn (`Outcome`). A photo that no loader knows is not saved at all by
`rs_metadata_load()` (`ReadPhoto`; `rs-metadata.c:594-602`). `mishaps` is the
history of these, by photo, and of transformations that a photo did not get.

`regen`, `idleId` and `sources` are the queue of stale thumbnails, the id the
program keeps of the idle source, and the sources GLib has. The handler forgets
its id under the lock and returns FALSE later (`TakeRegen`, `RemoveSource`); in
between the worker may add a photo and a new source, and there are two for a
moment.

Left out: the thumbnail of the row when a directory is reloaded while
regenerations are pending; the export flag of the *open* photo, which closing
that photo overwrites (a hazard at `rs-save-dialog.c:407`); files changed by
other programs; `rs-actions.c:804`, which dereferences `rs->photo` when a white
balance is pasted and nothing is open (it ends the program, as `Crash` may at any
moment); the orientation a camera notes in its files: a sidecar with nothing but a
flag, once it is saved whole (`rs-cache.c:892-904`), has that of a photo that was
never read, and `turn` does not tell it from the camera's; a crop the
image proposes (`gtk-interface.c:252`); the other callers of `rs_cache_save()`:
styles and white balances for a selection (`rs-actions.c:1008-1031, 1463-1489`),
which load a sidecar, change its settings and save it as `Paste` does, new photos
of a camera, and exports and the batch queue, which save the open photo as closing
it does.

### Settings

Everything here runs on one thread. What is hard is that setting a property
emits a signal whose handlers set properties of the same object. `agenda` is
the call stack, flattened: the calls that remain to be made, the innermost
first. `Run` takes its head and puts in front the calls which that one makes.
`settings` is one snapshot; `chain` what each of the three `RSDcp` filters
(loupe, navigator, view) has read and the profile it was given; `tool` what the
toolbox shows; `linked` the order in which handlers were connected, which GLib
calls them in.

A white balance is a `warmth` (for warmth and tint) and a `temp` (for dcp-temp
and dcp-tint, which follow it). `recalc` asks the first `RSDcp` that is told to
convert the one into the other (`dcp.c:247-251`); `ReadSettings` does that, and
`AfterRecalc` sends the result back into the settings, from inside of the signal
that brought it. `switch` stands for the enabling switches of black and white,
tone equalizer, colour wheels and so on, which `rs_settings_copy()` copies
without a bit in the mask.

What is pasted is an exposure, a white balance, or all that the copy dialog offers
(`Ticked`), which has no box for the switches (`rs-actions.c:550-552, 642-675`).

Left out: an image of eight bits that has multipliers of a camera, which
`rs_photo_set_wb_from_camera()` treats like a raw one (`rs-photo.c:958-966`;
`FromCamera` knows no multipliers in an image with an embedded profile); ICC
profiles and the fallback to a camera matrix; defaults saved per camera; sidecars
of version 4 and before; the sliders of the other tabs; the contents of curves;
the filters for effects, denoising and lens correction (which observe the settings
in the same way but do not write to them); the style copy.

### Export

`list` and `file` are the batch queue and `batch-queue.xml`; a row has an
identity (`row`) besides its `entry`, since `rs_batch_process()` holds an iter of
the row while the user may remove, drag or add rows. `batch` is where each
batch thread is in `rs_batch_process()`: from `top` (the loop's condition and
the first row) through `pending`, `load`, `preview`, `saving`, `output` to
`exported`, `remove` and `save`, or to `failed`. Where the code takes the gdk
lock, does something on the screen and lets go of it, the model has one step
that waits for the lock (`Pass`).

Three things about that lock decide what the model looks like. It is recursive
(`application.c:475-487`), so that an unlock by another thread does nothing.
`gtk_events_pending()`, called from a thread that does not own the main context,
finds no events of its own: all the batch thread does there is to let go of the
lock and take it again, which is where the user gets in. And the path of a photo
that cannot be loaded has a `gdk_threads_leave()` (line 485) without the
`gdk_threads_enter()` of line 536: `BatchLoad` goes to `remove` without the lock,
and the thread stays without it until it renders the next photo.

Removing a row that is gone is undefined in GTK; `BatchRemove` then removes
nothing or any row, and `stale` says that it happened. `file` is `Torn` between
the opening of the file and the freeing of its writer, and stays so if what was
written did not reach its end. `batch_queue_save()` returns without a word when it
gets no writer (`rs-batch.c:61-62`): `NoWriter` leaves the file as it was and
`unsaved` says so until a later save succeeds. `dropped` has the entries whose
photo could not be loaded: the program removes their rows, and saves the list,
with nothing exported (`rs-batch.c:487, 613-615`). `Restart` ends the program
anywhere, which covers quitting too: `quit` (`rs-actions.c:434-459`) waits for
neither queue.

`pool`, `work` and `slots` are `rs-job-queue.c`. `AddSlot` and `RemoveSlot`
need the gdk lock with the lock of the queue held, `AddJob` the reverse.

Left out: sizes, directories and names of the output; `rs_job_queue_wait()`,
which nothing calls; the flags that exports set in store and sidecar (the sidecar's
half is in `PhotoFiles`); the save of the open photo by `ProcessBatch` (likewise).
A drag is one step, although GTK inserts and removes.

## 3. The runs

| Run | Instance | What it shows |
| --- | --- | --- |
| `ioqueue` | 1 worker, 1 client, 3 jobs (two of one priority and one class, one of another) | all properties of `IoQueue` |
| `iolock` | 3 threads, 2 tries, nesting 2, 1 leak per thread | all properties of `IoLock` |
| `iolock_leak` | 1 leak | owned by a thread outside: **violated** |
| `storeload` | 2 files, 2 names for rows each, 2 priorities, 2 operations | all properties of `StoreLoad` |
| `storeload_flags` | 1 operation | a priority is overwritten: **violated** |
| `storeload_labels` | 2 operations | wrong counts for good: **violated** |
| `filterchain` | 8 filters, 3 caches, 2 tiles | all properties of `FilterChain` |
| `library` | 2 photos (one of them still to be captured), 2 tags, 2 operations, 1 crash, 1 failure | all properties of `Library` but the next |
| `library_recreate` | 2 photos, 2 tags, 2 operations, no crash | a tag in `tags.xml` is not restored: **violated** |
| `photofiles` | 1 photo and "another", 3 events (operations, saves that fail, crashes), 2 seconds | all properties of `PhotoFiles` |
| `settings` | 2 profiles, 3 temperatures, 4 operations, three kinds of file | all properties of `Settings` |
| `export` | 2 entries, 2 dialogs, 2 batch threads, 2 threads of the pool, 5 events (operations, failed writes, at most 1 end of the program) | all properties of `Export` |

### Properties

`IoQueue`

- `QueueOrdered`: sorted by priority and age in every state, also while a
  cancellation rotates the queue (elements behind the marker come first).
- `ActiveExact`: `queue_active_count` is the number of workers with a job.
- `PauseBound`: after a pause each worker takes at most one more job.
- `JobsLeftSound`: when `rs_io_get_jobs_left()` answers 0, nothing is queued
  or running but what others added during the call. The program waits for that
  before it exits (`rs-actions.c:444-456`).
- `CancelExact`: a cancellation drops all the jobs it matches and no other.
- `JobBoardSpec`: refinement of `JobBoard`; each job runs at most once, never
  after it was dropped, always the most urgent first.
- `EveryJobResolved`: unless the queue stays paused, an added job is executed
  or dropped.

`IoLock`

- `Balanced`: the mutex is owned at most as often as its owner will unlock it
  or has failed to.
- `OwnedThroughout`: a thread whose outermost request got the mutex owns it
  until the matching unlock, whatever threads that gave up do.
- `RequestReturns`: no request waits for ever.

`StoreLoad`

- `LabelsFollow`: while the handler is not blocked, the tabs count the rows, and
  the flag never claims a block that is not there.
- `JobsToDoExact`: what `jobs_to_do` stands for, stray count-downs included; no
  job is counted down before it is counted up, although it is queued first,
  which the gdk lock of the main thread sees to.
- `RemovedStaysRemoved`: the callback never writes to a row that is gone.
- `LoadCompletes`: a load that has the worker to itself, and is not followed
  by another operation that empties the store, lifts the block.

`FilterChain`

- `CachesCoherent`: an image in a cache is the current one, or a walk is under
  way that will reach that cache.
- `SizesAgree`: the same of the size of a resample filter, enabled or not.
- `DeliveredCurrent`, `DeliveredFits`: an image that is delivered is computed
  from the current settings, valid in the region asked for, and full unless a
  quick one will do. Requests inside a walk included.

`Library`

- `Attribution`: a photo carries a tag only if its metadata or a user gave it
  that tag, and a checksum only of its own file, although three threads insert
  into four tables and ask one connection for the last id.
- `BackupCurrent`: when all is done, the last backup of a session has the tags
  users gave as the database has them: it was not overtaken by a change, nor
  by an older backup. It excepts a backup made while tags are restored
  (`Restoring`): `rs_library_restore_tags()` takes no `backup_lock`
  (`rs-library.c:1156`), so what it has read from the file and not yet added to the
  database is missing from the file that the backup writes. A search that cancels
  the metadata jobs of a load, followed by the removal of a tag, is enough.
- `WorkEnds`: all calls and jobs end, unless a backup returned with
  `backup_lock` (`rs-library.c:1084`).

`PhotoFiles`

- `WorkKept`: the settings, the turn, the crop and the priority the user chose last
  are in memory or in the sidecar, whatever was opened, closed, pasted and flagged
  in between. It excepts
  - runs in which two threads were at one sidecar at once (`raced`: the export job
    saves its flag without a lock), and runs with crashes;
  - a photo whose sidecar could not be saved (`unsaved`): the user is warned
    (`rs-cache.c:66-69`), the program goes on, and what was done is lost with the
    photo's closing;
  - the turn and crop, but not the settings, of a photo onto which a transformation
    was pasted that it did not get (`undone`). "Apply to all selected photos"
    (`rs-actions.c:735`) sets them before `rs_cache_load()`, which puts those of the
    sidecar back, and these are saved (`:744-777`): a photo that has a sidecar and
    is not open keeps its old turn, and its old crop if it had one. And pasting *no*
    crop onto the open photo gives it what is left of a crop copied before
    (`:796`), since no crop is noted in the buffer as a left edge of -1.
- `ThumbCurrent`: a thumbnail that does not show what the sidecar says is found to be
  stale by the next load. It excepts changes within the second of the thumbnail, the
  camera's own thumbnail, a sidecar that could not be saved, races at one file, and
  crashes (a timer may have rendered edits that were never saved). A metacache or a
  thumbnail that could not be saved is no exception.
- `Mended`: after a load each photo has readable metadata, and a readable thumbnail if
  its own file has one, whatever crashes left. It excepts photos of which the
  metacache or the thumbnail could not be saved, and races at one file. For a photo in
  `bare` nothing can be said of the thumbnail: it has none until one was rendered, and
  if that one was torn by a crash it stays torn, since `got_metadata()` looks at its
  date alone (`rs-store.c:3263-3273`) and nothing else is saved over it.
- `Regenerated`: no photo stays in the queue of stale thumbnails.

`Settings`

- `Coherent`: between operations the toolbox and every filter hold what
  the settings hold. A switch copied without a bit is excepted (`unseen`).
- `AskedFor`: exposure and temperature are those the last operations asked
  for; no nested emission replaces a later value, and a warmth is converted with
  the photo's profile although the loupe may hold another.
- `Reopened`: a raw photo that is closed and opened has the settings it had. A
  preset is converted anew on opening and may differ if the profile was
  changed since; files with an embedded profile lose their balance
  (`rs-photo.c:1071-1086`) and are excepted.
- `NothingHeld`: each commit was closed and no recalculation waits, except
  after Revert on a file with an embedded profile that was given a DCP profile.

`Export`

- `EntriesKept`: what the user puts into the batch queue and does not take out again
  stays in it, and in its file, until it was exported, whatever the thread, the user,
  a failure, a cancellation or the end of the program do in between. It excepts
  - a photo that cannot be loaded (`dropped`): the program takes it out of the list
    and out of the file with nothing exported (`rs-batch.c:487, 613-615`);
  - runs in which a row was used that is gone, or the list was used without the
    lock (`stale`);
  - an end of the program while the file is written or read back (`batch_queue_load()`
    saves the file after each entry it adds), or after the last save got no writer
    (`cut`);
  - the file alone, while the last save got no writer (`unsaved`;
    `batch_queue_save()` returns without a word, `rs-batch.c:61-62`), or while what
    it wrote is torn.
- `ExportedOnce`: each entry is exported at most once and its row goes with it; two
  clicks on "Start" do not start two threads at one list. Runs that are `stale` or
  in which the program ended are excepted.
- `ExportsEnd`: no thread waits for a lock for ever, whatever failed, unless the
  two locks are taken crosswise (`Crossed`).

### Bounds

- `ioqueue`: a job object is added once in the program, so `Jobs` bounds the
  jobs ever created. Three give an order among equals, an order across
  priorities, a cancellation that keeps something on both sides, and a job
  added by a callback. The proofs need no bound.
- `iolock`: `MaxTries = 2` has a retry that does not give up and one that
  does; `MaxNest = 2` has an inner and an outer section. The proofs need
  no bound on either.
- `storeload`: `MaxOps = 2` is a load and something that disturbs it, which is
  the shape of every hazard listed. Two rows per file give a reloaded file a
  new row while the job of its old one is still under way.
- `filterchain`: no bound on behaviour; two settings, two tiles. The tree has
  a cache before and behind each kind of filter, a branch, and a cache
  with `ignore-roi` that renders on notification.
- `library`: two photos and two tags are the least that can be mixed up; the
  second photo is one the camera takes, so that all three threads insert. Two
  operations give a tagging and whatever disturbs it. One crash and one failure,
  as each is a single event in the hazards. The invariants also hold with three
  operations without crash and failure (6.2 million states). The proofs need no
  bound.
- `photofiles`: the files of different photos meet only in the open photo and in
  the queue of regenerations; "another photo" (`OpenOther`) opens and closes the
  first. Three events are, for example, an edit, a close and a reload; two
  operations and a save between them that fails; or two crashes and a load.
  `MaxTime = 1` has two seconds, that is before, same and after (640 thousand states).
- `settings`: two profiles that disagree on every warmth, yet give values the other
  gives to another warmth, so that a wrong conversion is seen and one that
  changes nothing also happens. Four operations: every sequence of four of the
  thirteen kinds, after the photo was opened for the first time with any preset in the copy
  buffer.
- `export`: two entries make an order, a next row to prefetch and one that stays
  when the other goes; two batch threads are what the code means to exclude; two
  dialogs and two threads of the pool make one wait for the other. Five events
  allow adding twice, starting, and two disturbances, of which a failed write or
  the end of the program may be one (one million states).

`storeload*`, `library*`, `photofiles`, `settings` and `export` do not check deadlock:
with its operations used up the user may stop. All other runs do.

### Fairness

- `IoQueue`: weak fairness of the worker's unconditional steps, strong
  fairness of those that wait for a mutex others keep taking (a GMutex is held
  briefly and its waiters are woken), and weak fairness of a client *inside* a
  call. No client is forced to make a call.
- `IoLock`: weak fairness of the polling loop only; the owner may keep the lock
  for ever.
- `StoreLoad`: a begun operation goes on (weak); the worker gets the gdk lock
  in the end (strong), since the main loop releases it between events.
- `FilterChain`, `Settings`: no liveness is claimed.
- `Library`: weak fairness of each of the threads in what it has begun, as the
  kernel schedules threads; a crash, a capture or an operation is never forced.
- `PhotoFiles`: weak fairness of the steps of each thread; for the main thread
  these include idle sources, which a main loop that is not flooded reaches.
- `Export`: weak fairness of the main thread inside a handler, of each batch
  thread and of each thread of the pool. Rendering and saving come to an end, and
  the user closes a message about a failure (`show_save_error()` runs a dialog).
  That a waiting thread gets the gdk lock in the end needs no strong fairness
  here, as the operations of the user are bounded.

### Findings

1. `iolock_leak`: `ciff-meta.c:228` returns without unlocking. From then on
   every request of the other threads waits its full time-out.
2. `storeload_flags`: `got_metadata()` reads the flags (`rs-store.c:3225`)
   before it takes the gdk lock (`:3240`); a priority set in between is lost in
   the row, not in the sidecar.
3. `storeload_labels`: the counting handler is blocked once per load
   (`rs-store.c:1602`) and unblocked once (`:3291`), when `jobs_to_do` is
   exactly 0. A search or a second load during a load cancels jobs that are
   never counted down, or blocks twice; the tabs then keep the wrong counts.
4. `library_recreate`: `rs_library_init()` turns synchronous writes off "since
   all data is re-creatable by local xml files" (`rs-library.c:273`). But
   `rs_library_restore_tags()` skips photos the library has a row of
   (`:1226`), and the metadata jobs of the same load, which are more urgent, give
   each photo its row first (`rs-store.c:1378, 3281`). With a new database no
   tag of a user is restored, and the next backup removes them from the file.

Flaws met on the way that no run is about are in `hazards` and show here as the
exceptions the properties name: `rs_io_lock()` giving up after about ten seconds
without telling (`rs-io.c:322-335`), so that two threads can be in sections it
guards (`OwnedThroughout` speaks of threads that got the mutex), `backup_lock`
kept (`WorkEnds`), the backup in the middle of a restoration (`BackupCurrent`),
the unlocked save of the export flag (`raced`), a transformation that a photo does
not get when it is pasted (`undone`), a torn thumbnail of a photo that has none of
its own (`Mended`), the second of `st_mtime` (`ThumbCurrent`), the switches
without a bit (`unseen`), the pending recalculation (`NothingHeld`), the balance
of embedded profiles (`Reopened`), the loupe that keeps the old profile until it
is shown (`Coherent`), the row that is removed while it is exported and the
removal without the gdk lock (`stale`), the batch queue saved piece by piece as it
is read (`cut`) or not at all without a word (`unsaved`), the photo the batch
gives up because it cannot be loaded (`dropped`), and the two locks of the slot
job queue, which stop the program when a dialog is confirmed at the moment another
export starts or ends (`Crossed`).

## 4. The proofs

Eight modules of theorems are checked by TLAPS for every value of the constants.
They take from the constants what these assumptions say, which TLC evaluates on
each run:

| Assumption | What it says | Why |
| --- | --- | --- |
| `IoQueueAssumption` | finitely many workers, distinct from the clients; the marker and `None` are nothing else; every job has a kind | counted in `queue_active_count` |
| `IoLockAssumption` | `None` is no thread; the bounds are numbers | |
| `StoreLoadAssumption` | finitely many rows, each of one file; `PRIO_U` is a priority; marks are no values | the tabs count rows |
| `KindsAssumption`, `TreeAssumption` | a filter is of one kind; the filters are a finite tree, `NextFilters` the reverse of `Previous`, and `Above` what is before a filter | `rs_filter_set_previous()` builds a tree |
| `SwitchAssumption` | no resample filter behind a filter that is switched on and off | section *FilterChain* |
| `LibraryAssumption` | finitely many files and names; three threads; marks are no values | a directory, a list of tags |
| `PhotoFilesAssumption` | three threads; marks are no values | |
| `TempAssumption` | each profile gives each warmth a temperature | any table: profiles may agree or not |
| `NoneAssumption`, `BoundAssumption` | `None` is no profile, warmth or sidecar; the bound is a number | NULL |
| `ExportAssumption` | finitely many threads; `None` and `Torn` are no values | counted in `n_slots` |

None of them bounds operations, crashes or photos. Every module has one inductive
invariant `IInv`, one lemma per action (in the larger ones one per action and
part), and short theorems that read the checked properties off `IInv`. Each `IInv`
was run as an invariant by TLC before it was proved (of that of `Settings`, which
quantifies over what is known of a state, the part about states between operations).

**Job queue.** None of the properties is inductive alone. `IInv` is

- `TypeOK`;
- `LocksHeld`: each lock is held by the thread that is where it holds it;
- `HandsFull`: a worker has a job between taking and retiring it;
- `MarkerPlaced`: the marker is in the queue exactly while the mutex is held,
  once, and what lies behind it was kept;
- `QueueOrdered`, stated with `Precedes` so that it survives the rotation;
- `JobsApart`: a job is in one place only, and its ticket is older than the
  clock;
- `ActiveExact`;
- `PauseSeen`: a worker that has taken its one job since the pause is not on
  its way to another;
- `LengthStands`: once the length was read as 0 under `count_lock` and nobody
  is active, only others' new jobs can be queued.

`Invariance` proves `Spec => []IInv`, one step per action. The rotation is the
hard part: moving the head behind the marker keeps `Precedes`, and at the end
the queue without its head is already sorted, so that `StableSort` is the
identity on it (lemmas on `InsertSorted`, `StableSort` and `Precedes` come
first). `TypeCorrect`, `OrderCorrect`, `ActiveCorrect` and `PauseCorrect` follow from
it; `JobsLeftCorrect` and `CancelCorrect` are action properties proved
from `IInv` and one step; `Refinement` maps every step to `Submit`, `Start`,
`Finish`, `Drop` or a stutter of `JobBoard`, with `status` read off the queue,
the workers' hands and `finished`.

**IO lock.** `IInv` adds to the two safety properties
`NestedRequestsLocked` (the owner never has to poll, so each request it nests
deepens the lock, and no unlock of it can release too early) and
`TriesRemain`.

**Thumbnail store.** `LabelsFollow`, `JobsToDoExact` and `RemovedStaysRemoved` are
inductive together with the types and `HalfLoaded`: between the two halves of
`rs_store_load_file()` the job is queued, or already taken, but not counted up.
Without it the step that counts up could be counting a job that was counted down
before. The lemmas are about `CountPriorities` when a row comes, goes or changes
its priority (`LoadLabels`, `LoadCounter`, `LoadRemoved`).

**Filter chain.** A walk is a flattened recursion, so `IInv` says what a recursion
leaves: `Ordered(walk)`, no filter is visited after one behind it was. Then a visit
that has a notification to bring reaches whatever is stale (`CachesCoherent`). Sizes
are the subtle part: `SizesAgree` is not inductive, since a walk that announces
pixels makes nobody work out a size again; `SizesFollow` asks for a visit that
announces *dimensions*, and `SwitchAssumption` is used exactly here.
`CallInv` links the frames of a request: each asks the one before for what it needs,
no filter it depends on is still to be visited (a renderer that answers a
notification comes after all that is before it), and the image on its way back is
the current one (`ChainCurrent`, `ChainFits`). The induction along the chain of
filters, which the prover cannot do with an operator, is done with a least
counterexample: a set of filters that is closed is compared with `Above`, whose
cardinality is a natural number (`LeastNat`).

**Library.** `IInv` has six parts. `Placed`: which steps belong to which call, and
only the io worker restores. `Locked`: `idLock` is held exactly by a thread between
its insertion and its question for the id, `backupLock` by one that writes, and the
file is torn meanwhile. `Rows`: every row is by right (`Truthful`: an automatic mark
from the metadata, another from a user), and so are the tables a rollback would
restore, the marks in the file, the checksum jobs and the tagging jobs. `InHand`:
what each thread has in its locals names the row it means; at the question for the
id `rowid` is its own row, since whoever inserts needs `idLock`. From these
`LibraryAttribution`. `Settled` is for the backups: behind every job that gives a tag
there is one that makes a backup (`Followed`); once a backup was written, another is
to come, or one at work has asked for just what the tables hold (`Writing`), or the
file is right (`Synced`); and what the users gave and is still in the file, or read
from it, belongs to photos the library knows, so that restoring adds no such tag.
The last is what `BackupCurrent` needed and did not have: it fails for a backup made
while tags are restored, which the proof found and a run with three operations
confirmed. `Retained` (the marks of users do not change) separates the steps that
owe a backup from the others, which all follow from one lemma (`Calm`).

**Sidecars, metadata and thumbnails.** `IInv` of `PhotoFiles` places the threads
(`Placed`), counts idle sources (`Sourced`), says who has which file open
(`MetaFiles`, `ThumbFiles`, `SideFiles`), and, as long as no two threads were at one
sidecar (`Apart`): what the sidecar *will* hold once its saver is done (`Coming`) is
what the user wants, with what a paste under way will make of it (`Pasting`), but for a
transformation the photo did not get (`Agree`) and a sidecar that could not be saved
(`Kept`, without crashes); a thumbnail shows that or is older than the sidecar
(`Shown`); each photo that was loaded has readable files, or a save of one of them
failed, or somebody is writing them, or its job will come again (`Mending`, with
crashes). That every save may fail makes no part of it weaker than its property:
`Shown` holds with failed saves of metacache and thumbnail, whose torn or old files
the next load finds. `PhotoServed` is the safety half of
`Regenerated`: while the queue is not empty there is an idle source that is not on
its way out; `PhotoSources` says there are at most two.

**Export.** `IInv` says who holds the gdk lock where (`GdkHeld`), that
`process_thread` admits one thread (`OneThread`), that `n_slots` counts the jobs
between two places (`SlotsHeld`), that rows and entries are one to one
(`RowsApart`), that a batch thread has the entry of its row in hand (`RowTaken`), and,
while nothing `stale` or `cut` happened, that what is `Due` (added, neither taken out
nor exported, nor given up as it cannot be loaded) is in the list or still to be read
back, and in the file unless that is torn or had no writer the last time (`AllKept`).
`AllKept` is stronger than `EntriesKept`, which says nothing of the file while a
handler is at work.

**Settings.** The state is a call stack, and the properties hold when it is empty; an
invariant has to say what the calls on it will do in turn. `SettingsProofs` gives
each kind of call a contract. A *world* is what is known of a state: the settings,
the commit, the listeners, the profiles of the filters, and two sets, of those known
to hold the present exposure and the present balance (`Holds` compares it with the
state). `AbleX(w)` says when a call may be made in a world, `AfterX(w)` what it
leaves when it and all it called have returned: `AfterRead` contains the conversion
of the balance and the signals this sends, `AfterEmit` all handlers, `AfterStop` the
merged signal of a commit. `Leads(calls, w, e)` chains contracts along a stack, and
`IInv` says: there are worlds `w` and `e` such that `w` holds now, the calls pending
lead from `w` to `e`, and an operation may end in `e` (`Settled`).

The proof has two halves. *Steps keep the contracts* (`RunKeeps`): whatever the
handler on top does and calls, the contract of the call equals those of its calls
in turn. This is where nesting is dealt with, once for each kind of call instead
of once for each sequence. *Operations honour them* (`...Ends`, `UserKeeps`): from
a world in which an operation may end, the calls of each of the thirteen lead to
another. Here the subjects are those of the properties: a conversion that finds
another temperature is not undone by the signals it sends, since the filter that
hears of it first has the same profile (`AbleRead`); a recalculation that was left
waiting, or comes twice, finds the temperature there is (`Matched`, `Waiting`); a
preset that is kept is worth what the profile of the last conversion makes of it
(`PresetKept`), so that a photo closed and opened has its settings again
(`KeptAsClosed`, `ReopenEnds`). `Settled` says more than the checked properties:
for files with an embedded profile a recalculation that waits is always that of a
neutral balance and would find the temperature there is; that is the exception of
`NothingHeld`, and the reason why it harms nothing. Opening has contracts of its
own, as nobody follows the settings at first (`Deaf`) and the filters are
connected one after the other (`JoinNext`).

**Only model-checked:** the liveness properties (`EveryJobResolved`,
`RequestReturns`, `LoadCompletes`, `WorkEnds`, `Regenerated`, `ExportsEnd`), since
fairness and ENABLED are beyond the prover; and the four violations, which are
counterexamples. Every invariant and every safety action property that a passing
run checks is proved.

To check a module: `tlapm IoQueueProofs.tla`, and likewise for the others. On four
cores `IoLockProofs` takes seconds, `StoreLoadProofs` less than a minute,
`IoQueueProofs`, `FilterChainProofs` and `ExportProofs` one to three minutes,
`LibraryProofs` about five, `PhotoFilesProofs` about ten and `SettingsProofs` about
thirteen. To run TLC:
`tlc -config MCIoQueue.cfg MCIoQueue.tla`, and likewise for the others.

## 5. What is not modelled

- Floating-point arithmetic on pixels, curves and colours, and file formats.
- Widgets, menus, drawing.
- Memory: in particular that GTK may reuse the memory of a removed iter
  (`rs-store.c:3241` asks whether the iter is valid by walking the list).
- The startup path that restores a tag search before the main loop runs.
- What each module leaves out, said in its section above.
- Everything in the list of components with status `not_modelled`.

## 6. Plan

In order; each module with its run, then its proofs.

1. *done*: `JobBoard`, `IoQueue`, `IoLock` with proofs; `StoreLoad`,
   `FilterChain` checked.
2. *done*: `Library`; `PhotoFiles` (sidecar, metacache, thumbnails and their
   regeneration); `Settings` (settings, photo, their signals); `Export` (batch
   queue, slot job queue, export dialog). Checked.
3. *done*: proofs about `StoreLoad`, `FilterChain`, `Library`, `PhotoFiles`,
   `Export` and `Settings`: their types and every safety property of their runs.
4. The camera's side of tethering; `rs_filter_set_previous()`.
5. Pure functions: `clamp_roi()`, the regions of crop and rotate, file name
   templates.

Items 4 and 5 would take the place of the shallower of the present properties
rather than add to them.
