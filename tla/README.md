# A TLA+ development of dropletfs-fuse

dropletfs-fuse (`dplfs`) mounts a bucket of an object store as a file system.
It is a FUSE daemon: every request of the kernel is a call of one of the
`dfs_*` functions in a thread of its own, the store is reached through
libdroplet, and what the daemon knows of the bucket sits in one global hash
table from paths to *path entries*.  Files are worked on as whole local copies
in a cache directory and are sent back when they are closed.

This directory holds TLA+ modules that model that program, the TLC
configurations that check them, and proofs for TLAPS.  Paths below are relative
to the repository; `src/src/gc.c` is the file `gc.c` of the program.

## 1. Inventory

| Component | Source (`src/src/`) | State | Operations | Hard behaviour |
|---|---|---|---|---|
| Path entries | `hash.c`, `hash.h` | the table `hash`; per entry `fd`, `ondisk`, `refcount` (a semaphore), `mutex`, `md_mutex`, `usermd`, `exclude`, `digest`, `dirent` | `pentry_new`, `pentry_free`, `populate_hash`, refcount, locks, `pentry_set_usermd` | the table has no lock and frees the entry it removes or replaces; entries are used through raw pointers |
| Attributes | `getattr.c` | `ondisk`, `usermd`, `filetype`, `dirent` | `dfs_getattr` in three variants | remote calls between the lookup and the assignment |
| Open files | `open.c`, `create.c`, `read.c`, `write.c`, `release.c` | `info->fh` (a pointer to the entry), `fd`, `refcount`, `flag` | open, create, read, write, release with upload | handles outlive entries; failed opens; one `fd` and one offset for all handles |
| Local copies | `file.c`, `zip.c` | cache files, `digest` | `dfs_get_local_copy`, compression | two downloads of one file; partial failures |
| Collector | `gc.c` | the thread | `thread_gc`, `gc_callback` | checks a count, then locks, then frees |
| Remote calls | `timeout.c` | `tries`, `delay` | one retrying wrapper for each libdroplet request | lost requests, lost replies, retries |
| Name space | `unlink.c`, `rename.c`, `mkdir.c`, `rmdir.c`, `mknod.c`, `symlink.c`, `readlink.c`, `opendir.c`, `readdir.c` | bucket and table | the directory operations | table and bucket change in separate steps; a directory is renamed entry by entry |
| Metadata | `chmod.c`, `chown.c`, `metadata.c`, `setxattr.c`, `fsync.c` | `usermd`, attributes of the cache file | three copies of the attributes | asserts on `usermd`; the order of the updates |
| Smart cache | `cachedir.c` | a thread pool | preloads and refreshes metadata | names in shared buffers; pointers handed over without a count |
| Lists, temporary strings | `list.c`, `tmpstr.c` | linked lists; per-thread ring of 32 buffers | list functions | removal while walking; wrap-around |
| Configuration | `conf.c`, `env.c`, `regex.c` | `conf` | defaults, file, environment | precedence, what the README promises |
| Mount | `dropletfs.c` | `ctx`, `conf`, `hash`, `ctx_freed`, two threads | `main`, `dfs_init`, `dfs_destroy` | unmount while threads run; what is freed where |

**Interaction.** The kernel calls a `dfs_*` function; it looks its path up in
the table, may insert an entry, calls a wrapper of `timeout.c`, and puts the
answer in the entry.  `dfs_open` stores the address of the entry in
`fuse_file_info.fh`, where read, write and release find it.  The collector and
the smart cache walk the same table from their own threads.

**What makes each correct.**  An entry is freed only when nothing uses it; the
table and the entries agree; the count covers the open files; a file that is
open stays usable; an idle cache file goes away in the end; a remote call
returns, is repeated only when it was lost and does not give up early; an excluded
file stays local; the copies of a file are one file, which is saved when its last
writer has closed; size and attributes are told right; options have the value
that the settings say; a mount gives back what it took, and uses nothing after that; a cell holds the
metadata of its own path; the table tells the truth about the bucket; a rename moves everything or
says that it did not, and loses nothing.  The hazards of
`PROJECT.json` list where each of these could go wrong, by line.

## 2. Modules

| Module | Models |
|---|---|
| `CloudStore` | the bucket behind libdroplet: which objects exist, the ways a request can end |
| `RemoteCall` | the abstract remote call: served zero, one or more times, status of the last attempt |
| `Timeout` | the wrappers of `timeout.c`; implements `RemoteCall` |
| `PathEntry` | path entries, handles and collector: `hash.c`, `getattr.c`, `open.c`, `create.c`, `read.c`, `write.c`, `release.c`, `unlink.c`, `gc.c`, and `file.c` by its effect on the entry |
| `Namespace` | the directory tree: `mkdir.c`, `mknod.c`, `symlink.c`, `unlink.c`, `rmdir.c`, `rename.c`, `readdir.c`, the answers of `getattr.c`, the ring of `tmpstr.c` |
| `SharedFile` | the abstract file: one content that writers change, saved when it is closed |
| `FileData` | the copies of a file: `file.c`, `release.c`, `open.c`, `create.c`, `chmod.c`, `chown.c`, `getattr.c`, and what drops copies; implements `SharedFile` |
| `Conf` | `conf.c`, `env.c`, `regex.c` |
| `SmartCache` | `cachedir.c` with its thread pool; extends `Conf` |
| `Mount` | `dropletfs.c`: composes `Conf`, `SmartCache`, the collector and requests from `main` to its end |
| `MCTimeout`, `MCPathEntry`, `MCNamespace`, `MCFileData`, `MCMount` | instances for TLC |
| `TimeoutProofs`, `PathEntryProofs`, `HandleProofs`, `SharedFileProofs`, `FileDataProofs`, `FileStatProofs`, `MountProofs`, `NamespaceProofs` | theorems |

### Timeout

`request` is the argument of the wrapper, `rc`, `tries`, `delay` are its
locals, `store` the bucket.  `Attempt` is one call of libdroplet with the test
that follows it, `Backoff` is `ERR_TIMEOUT` with the `goto retry`.  The eleven
wrappers have one shape and differ in the statuses they take for an answer
(`Final`).  A request or its reply may be lost: both are `"failure"`, with or
without the effect.  `Elsewhere` is everybody else, so one call is enough.

### PathEntry

| Variable | Code |
|---|---|
| `table` | the hash table, path to cell |
| `pe` | the cells: `fd` (`"none"` is -1; `"r"`, `"rw"` is how the cache file is open), `ondisk`, `refcount`, `locked` (`mutex`), `usermd` (not NULL), `exclude`, `age` of the cache file, and `mem`, whether the memory is allocated |
| `remote` | objects in the bucket |
| `known`, `dir` | what the kernel knows: valid dentries, and who holds the directory's `i_mutex` |
| `th` | the request of each client: where the thread is, `path`, and its `pe` or `info->fh` |
| `gc` | the collector: what `g_hash_table_foreach` still has to visit, and the `key` and `value` of `gc_callback` |
| `ub` | a freed cell was used |

A request is cut at every access to the table, every remote call and every use
of the cell, so any other thread may run between two of them:

* `dfs_getattr`: `GetattrLookup`, `GetattrNew`, `GetattrDispatch`, the remote calls
  `GetattrAsk`, then `GetattrFill` or `GetattrAbsent`;
* `dfs_create`: `Create`, then `dfs_open`, then `CreateMd`, `CreateMknod`;
* `dfs_open`: `OpenLookup`, `OpenNew`, `OpenInc`, then `OpenCreat` or `OpenExisting`, `OpenGet` (`dfs_get_local_copy`);
* `dfs_read`, `dfs_write`: `ReadWrite`; `dfs_release`: `Release`, `Upload`, `ReleaseEnd`;
* `dfs_unlink`: `UnlinkRemote`, `UnlinkTable`;
* `thread_gc`: `GcStart`, `GcCheck`, `GcLock`, `GcRemove`, `GcDone`.

A use of a freed cell by a thread or by the collector is an action of its own
(`UseAfterFree`, `GcUseAfterFree`) that sets `ub` and ends the behaviour, since
C promises nothing after it.  Addresses are not reused, so none goes unseen.
`ub` is also the double free of `dfs_create` on an entry that has metadata and
the read of a freed entry in `dfs_unlink`, which may or may not do harm.

From the kernel and libfuse, modelled from how the program is called: LOOKUP,
CREATE and UNLINK hold the directory's mutex, OPEN, GETATTR and RELEASE do not;
`O_CREAT` and `O_TRUNC` are not passed on to OPEN; RELEASE comes only after an
open that succeeded; an open file is renamed by libfuse, not unlinked; a dentry
is valid for a while.

The smart cache is off here (`sc_loop_delay` is 0 unless it is set): the threads of its
pool insert and fill cells as well, and what this module shows is shown without
them; `SmartCache` has them.

Simplifications: the accesses to the table are atomic (GLib does not promise it
without a lock; the interleavings of whole accesses are what is checked); the
files are in one directory, so the `dirent` lists do not appear; local file
operations and allocations succeed, except where the code reaches -1 from a remote
failure; so a cell marked `FILE_REMOTE` always has metadata, and the branch of
`getattr_remote` that keeps `md_mutex` (`getattr.c:110`) is never taken: only a failing
`dpl_dict_new` in `pentry_set_usermd` leads there; contents are left out.

From the kernel and libfuse again: libfuse also keeps an unlink apart from
other requests on the same path.  Leaving that out only adds behaviours to the
runs with unlink.

### Namespace

| Variable | Code |
|---|---|
| `bucket` | what each path is: nothing, a directory, a link, an empty file, or a content |
| `table` | the cell of each path: absent, `FILE_UNSET`, or `FILE_REMOTE` with what its metadata describes |
| `cwd` | the current directory of `ctx`, which all threads share |
| `th` | the request of each client: `stack` holds a frame for each call of `rename_directory` (its names, the entries to read, `type`, `ret`), `file` the names of `rename_file`, `tmp` the temporary strings printed so far; `displaces` is history: a directory is renamed onto anything but an empty directory |
| `faults` | calls that were not answered |

A path is a sequence of names.  libfuse never runs two requests at once when one
changes a path that is the other's or leads to it (`Conflict`), so a handler of
one path is one action (`Mkdir`, `Unlink`, `Rmdir`; `Mknod` and `Setattr` for a
symlink).  What is left to interfere is the current directory, so `Readdir` and
`List`, and `Chdir` and `Opendir` of a rename, are separate; every other remote
call of a rename is a step of its own because it can fail there: `Rename`,
`Enter`, `NextEntry`, `Copy`, `Forget`, `LeaveDir`.  A call that fails may have
had its effect.  `Resolve` is the LOOKUP before each request, that is
`dfs_getattr` on its path and target; what the kernel then does is `Admits`.

A name that `rename_directory` hands to its recursive calls is a position in
`tmp`, and `Slot` reads what was printed last in its buffer of the ring.  An
uninitialised `type` is either value that a caller goes on with, or any other.
The entries come in any order, as a bucket may list them: `todo` of a frame is
a set, and `NextEntry` takes any of it.

The module assumes of its instance that `Paths` is prefix closed, that the bucket
is a tree at mount time, that the kernel renames nothing into itself nor onto a
directory it is in (`rename(2)` gives EINVAL or ENOTEMPTY), and that what is
renamed can exist below its target, which bounds the instance and not the code.

Simplifications: no file is open or has a cache file; the special target `"."`
of `dfs_rename` is left out since libfuse only passes absolute paths; `dirent`
lists do not appear; `readdir` keeps no result; cells are never collected (the
collector skips cells without a file descriptor).

### FileData and SharedFile

| Variable | Code |
|---|---|
| `obj` | the object: data, whether they are compressed, metadata (mode or owner, size, the mark `compression`) |
| `cell` | the `tpath_entry`: whether the table has it, `fd`, `ondisk`, `usermd`; `pinned` says that a failed open has left its count |
| `file`, `inode`, `name` | the cache directory: open file descriptions with their offset, inodes, and the inode that the cache path names |
| `th` | the request of each client, with the source and position of its download or upload |
| `known` | the kernel has a dentry |
| `job` | fixed in a behaviour: options, what clients ask, what can fail |
| `unsaved`, `wanted` | history: the last upload failed; the attribute last set |

A download reads the headers, unlinks and makes the cache file (`GetStart`),
writes block by block (`GetBlock`), decompresses what the cache path then names
(`GetUnzips`) and opens the cache path once more.  A close looks at the file and
chooses what is sent (`CloseWriter`), reads it through the descriptor of the
cell and its one offset (`PutBlock`), and `dpl_close` replaces the object
(`PutEnd`).  A request that is reported as failed may have been done: `PutFails` may
store the object (`dpl_close` is called after the last block whatever happened), and so
may `SetAttr` and `Create` have their effect.  `Collect`, `Remount` and `Crash` drop the copies; the cache file
survives a crash, and a cell that is not local survives an unmount on disk.

`SharedFile` knows one `content`, the `stored` one, the `writers` and whether the
last save failed.  The mapping: `content` is the cache file while there is a
descriptor and no download, else the decoded object.  A download, a collection,
a compression or an unmount is then a stutter: that is what the refinement says.

Simplifications: one file, since requests on two files share nothing here; cells
are not freed under a request (the subject of PathEntry); the digest never
matches, because a cell that has no descriptor is not `FILE_LOCAL` except after
a failed download; local I/O succeeds; descriptors never run out: one that is lost
without a `close` (`open.c:103`, `file.c:480`) is taken again, so that behaviours are
finite, and nothing here says that none leaks; zlib is lossless; an upload shorter than
announced fails, a longer one is cut; modes and owners are "that of a new file"
or another; times are left out.

### Conf, SmartCache and Mount

| Variable | Code |
|---|---|
| `input` | what a mount is started with: `HOME`, the lines of `.dplfsrc`, whether it ends in a newline, directories that exist, the environment, the names in the root directory and in another one, whether clients list, whether calls can fail |
| `conf` | the global `conf`: the pointer, numbers, methods, `cache_dir`, `log_level`, `regex` |
| `main`, `line` | where `main` is, and the next line of the file |
| `ctx`, `lib`, `ctx_freed` | the context, the library between `dpl_init` and `dpl_free`, the flag |
| `gc`, `sc` | the two threads of `dfs_init` |
| `table`, `cached` | cells with `ondisk`, the path their `usermd` is of, and their age; cache files |
| `cwd` | the current directory of the context, as far as `root_dir_preload` reads it |
| `astray` | history: cache files whose cell did not become local, or no more is |
| `slot`, `next` | the temporary strings of the smart cache's thread |
| `pool`, `work` | pointers pushed and not taken; the threads of the pool |
| `ub` | freed or NULL memory was used; the behaviour ends |

`Daemon` is `main` with `dfs_destroy`, cut at each thing it frees.  The last of
`dfs_destroy` is a `LOG`, and `LOG` reads `conf->log_level`: `conf` is NULL by then
(`dropletfs.c:196` and `:203`), so `DestroyLib` sets `ub` at every unmount; only a main
that could not mount goes on to `After` and the end.  `ConfLog` prints the pattern,
which `env.c` may have freed.  A pointer in
the pool is a temporary string, read as it is when it is read, or a path entry,
whose bytes read as a name: `pe->fd` comes first, so the name is those of `fd`,
or a longer one.  `Attr` reads the string again, after `TakeJob` has looked it up:
that is what makes a cell hold the metadata of another path.  Requests of
clients are one step each (`Lookup`, `Readdir`, `Open`): PathEntry, Namespace and
FileData have them; an `Open` may fail after it has made the cache file, and leave
the cell as it was.  `ScPreload` and `ScOpendir` are the chdir and the opendir of
`root_dir_preload`, with whoever lists in between.

Simplifications: allocations succeed; the size of the table and `cache_max_size`
count entries; the path an entry is read as is never one of the bucket; a thread of the
pool looks a path up and inserts its cell in one step (PathEntry has the two apart);
values are small numbers and strings (`Cut` takes a digit off).

## 3. Runs

| Run | Checks | Instance |
|---|---|---|
| `timeout` | `TypeOK`, `BackoffSchedule`, `OnlyLostRepeated`, `GivesUpLate`, `ImplementsRemoteCall`, `CallReturns` | 2 objects, `MaxRetry` 2 |
| `shared` | `HandleUsable`, `NoUseAfterFree`, `ExcludedStayLocal`, `RequestsReturn` | 2 paths, one excluded, 2 clients, 2 cells, everything but unlink; no fault, no collection |
| `all` | `TypeOK`, `TableOwnsCells`, `HandleOnItsPath`, `RefcountCoversHandles` | 1 path, 2 clients, 3 cells, everything but append, faults and collection |
| `collect` | `IdleFileCollected` | 1 path, 2 clients that read and write, collection |
| `gc_open` | `GcSparesOpenCells` is violated | 1 client |
| `tree` | `TypeOK`, `NothingLost`, `RenameStaysInside` | a tree of depth 3 renamed there and back, also over a file of the same name at the target; another client lists; 1 fault |
| `alone` | `RenameMoves`, `NoGhostFiles`, `RequestsReturn` | 1 client, 8 paths, every kind of request, with and without something in the way of the rename; 1 fault |
| `cwd` | `RenameMoves` is violated | 2 clients, one of them lists |
| `data` | `TypeOK`, `LastCloseSaves`, `SizeTold`, `AttrTold`, `ImplementsSharedFile` | 2 clients, files of up to 2 blocks, 3 descriptors, 3 inodes; twelve jobs: contents with and without compression and faults (writing, reading and telling the size together under failing calls; writing with appending under a failing upload; appending with telling the size), an object of another program, chmod of it, chmod, chown, overlapping opens |
| `closes` | `LastCloseSaves` is violated | 2 writers whose requests overlap |
| `mount` | `TypeOK`, `OptionsAsWritten`, `OnlyKnownCrashes`, `NothingLeft`, `CellsHoldTheirOwn`, `RootPreloaded` | 663 inputs; a ring of 2, 2 threads in the pool, up to 2 entries, one pass over the table |
| `preload` | `CellsHoldTheirOwn` is violated | 3 entries, a ring of 2 |

The passing runs have 1,552 (`timeout`), 581,640 (`shared`), 2,217,864 (`all`), 270,038
(`collect`), 1,297,457 (`data`) and 599,676 (`mount`) distinct states; `tree` and `alone`
lie between.

Deadlock checking is off in the PathEntry and FileData runs: their bounds, and
`ub`, end behaviours on purpose; and in those of Mount, where the program ends.
`RequestsReturn` says what matters of it.

**Bounds.** `Cells` bounds how often an entry can be allocated; two are enough
for a cell and one that takes its place under the same path; `all` has a third,
because two requests miss the table together only after a first cell is gone,
and then each inserts its own.  `all` leaves out append, which is opened
like a read and closed like a write; `shared` has it.  `MaxCounted` stops new requests while a refcount is
above it, because failed opens count up without end; the requests already under
way may still count, so both clients can hold the cell when it is 1.  One path
is enough for what interferes on an entry: requests on different paths share
only the directory's mutex and the collector; `shared` has a second one because
`ExcludedStayLocal` tells two paths apart.  Clients and cells are
interchangeable (symmetry) in the runs without liveness.

In Namespace, one fault reaches every error path, each of which ends the call it
is in; a tree of depth 3 has a call of `rename_directory` inside another; the
ring has its 32 buffers in every run.  Two clients are
enough for the current directory, which one request changes between two steps
of another.

In FileData, two blocks are enough for an upload that begins at a wrong offset
or sends a part, and for a file to shrink; three descriptors and three inodes are enough for
what the cell, its name and two requests refer to at a time.  A job restricts what one behaviour mixes, not
the code: contents, modes and owners do not influence each other.  With
`overlap = FALSE` only one client at a time is inside a request of several
steps, while handles, reads and writes of others go on; the overlapping opens
are in `data`, the overlapping closes in `closes`.

In Mount, the ring is 2 instead of 32 so that it wraps with 3 entries (`preload`)
and does not with 2; lines of the file are two, since a line acts on the one
before it; `MaxPasses` 1 lets the thread look at the table once, since each pass may push
its cells again and nothing in the code bounds the queue or the table; two threads in the pool are enough for two uses of
one string.  An `Ages` step needs the thread to sleep.

**Fairness.** Each request runs in a thread of its own and every remote call
returns, since the wrappers give up (`CallReturns`): weak fairness of `Serve(c)`
for each client, in PathEntry and in Namespace.  The collector loops for ever: weak fairness of `Collect`.
Time passes: weak fairness of `Age(k)`.  The thread of the smart cache and those
of its pool are scheduled, and GLib starts a thread for a job that was pushed:
weak fairness of `ScThread` and of `Work(w)` in Mount.  No fairness makes a client close a file.

**What the violations show.**

* `gc_open`: `gc_callback` reads the refcount, then locks; `dfs_open` counts
  without the lock.  The cell of a file opened between the two is freed.
* `cwd`: another thread changes the current directory between `dpl_chdir` and
  `dpl_opendir`; the wrong, empty directory is listed, and the rename ends well.
* `closes`: nothing orders two uploads of a path.  A client writes and closes;
  before its upload ends another opens, truncating, and closes; if the second
  object is stored first, the bucket keeps the old contents, and so does the
  file after the next collection.
* `preload`: `root_dir_preload` pushes temporary strings and goes on printing; with
  more entries than buffers, a thread of the pool looks one name up and asks
  for the metadata of another.

`RenameMoves` speaks of renames while no call has failed, whose names fit in the
ring, and that had nothing in the way (`displaces`); it holds as long as no other
request uses the current directory (`alone`).  It looks at the bucket alone: the cells
of the directories that were renamed stay, and `lstat` of the old name, for which
`tests/rename/00.t:40` expects ENOENT, is answered from them.  `NothingLost` and
`RenameStaysInside` hold when calls fail and others list (`tree`); the second also
when the ring wraps (this is proved; the ring of 32 never wraps in a run), while the
first excuses a rename that printed more names than there are buffers.

More things the modules reproduce and no run repeats:

* A failed `dfs_open` keeps its count, so the cell is not collected any more
  (`IdleFileCollected` is checked without failing calls; `pinned` in FileData).
* The descriptor of the first open is the one of all later opens: an append
  after a read writes to a read-only descriptor, although
  `tests/regression.sh:130` tests to "append data to the file".
* `exclude` lives in the cell and only `dfs_create` sets it: a cell made after a
  collection has lost it, and its file is uploaded (with collection on,
  `ExcludedStayLocal` is violated by one client that writes twice).
* `dfs_rmdir` leaves the cell of the directory, and getattr finds it again,
  although `tests/rmdir/00.t:18` expects ENOENT.
* The names of a directory being renamed are overwritten in the ring of 32 when
  a subdirectory has 13 files; what fails after that is hidden by the next
  entry that succeeds.
* `dfs_rename` compares the status of `dpl_namei` with `!DPL_SUCCESS` and takes
  every result but -1 for success, so after a failed call it may return 0 with
  the file at its old name (`RenameMoves` speaks of renames while no call has
  failed).
* `rename_directory` asks for the type of its target, and makes it if there is none;
  if there is a directory it goes on, whatever is in it (`src/src/rename.c:76`).  A
  directory renamed onto one that has entries is merged into it, over the files of the
  same names, and `dfs_rename` returns 0, although `tests/rename/20.t:19` expects
  `EEXIST|ENOTEMPTY` (`RenameMoves` leaves these renames out by `displaces`;
  `NothingLost` counts each file written over as one that a file is renamed onto).
* A file renamed over another leaves the old metadata in the cell of the target
  (`NoGhostFiles` only says that what the table takes for a file is a file).
* chmod and chown write `usermd` back whole: after an upload the size and the
  compression mark in it may be those of an older version (`SizeTold` leaves
  such jobs out).
* Two opens that miss the cache file together both download to the same path.
  If one of them fails after it has unlinked and made the file, the other
  goes on with what the path then names, which may be a short file
  (`src/src/file.c:492`; `Sound` in FileDataProofs leaves failing downloads out
  of overlapping opens, and says why).
* chmod of an object that another program has stored writes metadata without a
  size; after the next open and release `getattr_unset` takes them for no
  metadata of dplfs and makes its own, so the mode is lost
  (`AttrTold` speaks of such objects only while nobody opens them).
* chmod of a path whose cell has no metadata aborts the daemon (`ChattrAborts`).
* The smart cache asks for the metadata of the entries it finds old under a name
  made of their bytes: they are not refreshed, whatever the README says.  If
  the root directory is empty, or cannot be listed, it waits for ever for a
  thread of the pool (`ScWait`).
* The pattern of `DROPLETFS_EXCLUSION_PATTERN` is freed twice at the end, and that of
  the file is printed after it was freed if the one of the environment is bad.
* A bad line ends the file.  The last character of a line is taken for the newline, so
  a number that ends the file loses a digit (`conf.c:453`).  `OptionsAsWritten` says
  what the file and the environment have to give, as they are written, and leaves out
  only an option of a last line without a newline.
* Some of what the repository's README says of options is outside of `OptionsAsWritten`, which
  is about the names that the code reads: `DROPLETFS_CACHE_DIR` (README:57) is not
  read; `compression_level` (README:48) is `zlib_level` in the code; the
  `exclusion_pattern` of the file (README:128) is stored and never compiled.
* A download that fails, or a `getattr_unset` that ends after `dfs_open`, leaves a cache
  file whose cell is not local; `dfs_destroy` does not remove it (`NothingLeft` names
  these files, `astray`).
* With the smart cache on, the directory that `root_dir_preload` lists is the one some
  client's readdir went to last: its names are then asked for in the root
  (`RootPreloaded` leaves clients that list out).
* Every unmount reads `conf` through NULL at `dropletfs.c:203`, and neither thread is
  stopped before it: each may read `conf` after it was freed.  `OnlyKnownCrashes` lists
  these and the other places where freed or NULL memory is used: beside them, and with
  the smart cache off, none is reached in the model, in which allocations succeed
  and what the requests do with cells is left to PathEntry.

## 4. Proofs

Everything is proved for all values of the constants that satisfy the named
assumptions: `MaxRetry` and `TmpstrNb` natural numbers, the latter not 0; finitely many clients; `NoCell`,
`NoPath`, `NoClient`, `NoFile`, `NoMd`, `None` outside the sets they are added to;
intents, excluded paths and first contents within their sets; at least one block
to a file; the texts that the program adds to its input, such as the default cache
directory, are strings (`TextsAssumption`); and what the modules of section 2 say of
their instance (for Namespace: `PathsAssumption` to `NumbersAssumption`).  A hypothesis that is not about the
instance but about what happens in it (`NothingRemoved`, `SoundJobs`, `FewEntries`,
`CacheApart`, `ListsAlone`) is in the statement of its theorem.

*TimeoutProofs.* `TypeCorrect`, `BackoffIsBounded`, `LostOnly` and
`ReturnsLate` follow from one inductive invariant: the types, the relation
`waited = delay - 1`, the bound on `tries`, and that a thread that sleeps was not
answered.  The last is not the guard of the wrappers said again: it compares the list of each
with what the storage can answer to its request, and `dfs_setattr_timeout` is the one
that it does not hold for (ENOENT is retried, `timeout.c:66`).  `Refinement` shows that `Init` maps to the initial
states of `RemoteCall` and each step to a step or a stutter: `Begin` is `Call`,
`Attempt` is `Serve`, `Backoff` changes nothing there.  That the delay is a
power of two is left to TLC: it needs an induction over data.

*PathEntryProofs.*  `TypeCorrect` is inductive by itself.  `Ownership`,
`HandlesOnPath` and `Counting` come from

    Inv == TypeOK /\ HeldWereAllocated /\ TableOwnsCells
                  /\ HandleOnItsPath /\ RefcountCoversHandles

`HeldWereAllocated` (no request holds a cell that was never allocated) is the
strengthening: without it an insert could make live a cell some request already
points at.  The proof does not go through the conjuncts action by action.  It
first shows that all actions but two are *quiet*: they keep the table and the
life of cells, or insert, or remove; they do not lower a count; a request keeps
its cell, drops it, or takes the one its path has in the table; nobody becomes
a holder.  Three lemmas (`OwnsStep`, `HandlesStep`, `CountsStep`) show that quiet steps
keep the invariant.  The two others, `OpenInc` and `Release`, change the count
and the set of holders together, by one (`OpenIncCounts`, `ReleaseCounts`).

*HandleProofs.*  The three theorems are about mounts on which nothing is removed,

    NothingRemoved == ~Collects /\ "unlink" \notin Intents

a `gc_loop_delay` longer than the mount and no `unlink`.  Without it they are
false: the run `gc_open` shows the collector freeing the cell of an open file, and an
unlink frees the cell under every handle.  `NothingFreedIsUsed` and `ExcludedLocal` hold with failing
calls too; `OpenFilesUsable` also assumes `~Faults`, since a download that failed leaves an
open without descriptor.  `ExcludedLocal` assumes that the bucket held nothing excluded
at mount time, which its property says too.  The inductive invariant is

    HInv == Inv /\ Calm /\ CellOK(p) for every path /\ Settled(p) for every known path
                /\ RequestOK(c) for every request

None of the properties is inductive, because what a request finds in its cell
was written by others.  `Calm` says that nothing was freed or used after it, `CellOK`
what fields a cell may combine, `Settled` what a path has for good once the
kernel knows it: a cell in the table that is marked.  `RequestOK` says where in its call a
request can count on it: a request that does not hold the directory is on a
settled path, and a `dfs_create` holds the directory and is alone on a path whose cell is still unset, which is why no
overlapping request sees its half made entry.  Each action is shown to write
only in the cell of its request (`TouchesOnly`) and there to only add
(`Grows`), so that `RequestOK` of all other requests stays (`RequestKeeps`).  TLC checked the
invariant on the instance of `shared` before it was proved.

*SharedFileProofs.*  `SavedWhenClosed`, from the invariant `Saved` itself, and
`ContentIsStable`, from a case for each action.  With `ImplementsSharedFile` they
say what a client may rely on: what the last close has saved is what is read.

*FileDataProofs.*  `Refinement`: `Spec => ImplementsSharedFile`, for any clients,
values and number of blocks, with failing requests, crashes, collections and
unmounts.  `SavedOnClose` and `TypeCorrect` come from the same invariant.  That
a failed request was done all the same is part of it: the object may be a new one after
a save that failed, which `SharedFile`
has as a `Close` that stores the content and sets `unsaved`.  Two
hypotheses.  `Room`: there are more inodes than clients and two descriptors, for
the constants stand for what the kernel has, which does not run out.
`SoundJobs`: of the behaviours, those where

* requests that take several steps do not overlap, or all files are only read and
  no download fails: else two uploads may end in either order (the run `closes`),
  and of two downloads the one that fails leaves the other a short file;
* chmod and chown are not mixed with compression: they write back a `compression`
  mark that may be an old one, and the object is then decoded wrongly.

Both are needed: TLC finds a counterexample without each.  The invariant is

    DInv == Types /\ Sound(job) /\ MarksOK /\ CellOK /\ InTurn /\ Together /\ SavedOK
                  /\ RequestOK(c) /\ FillOK(c) /\ PutOK(c) for every request

The refinement maps `content` to the cache file or to the decoded object,
whichever a client would get; `Seen` is the same, written without the steps of
the requests, and `ContentIs` says that they agree.  `InTurn` is what makes it
work for one request at a time: the descriptor of the cell is on the file that
the cache path names, plain, at its beginning.  `Together` is its counterpart for
readers that overlap, where the path may have been unlinked and made again
under a descriptor: each inode that can be reached holds the object, or will when
its download ends.  `FillOK` and `PutOK` say how far a download and an upload are.  For
each action one lemma (`...Keeps`) shows `DInv'` and the step of `SharedFile`, so
`Write` is a write there, `PutEnd` a save, `PutFails` a failed one, and
`GetUnzips`, `Collect`, `Remount` and `Crash` keep the content.  `LightStep`
carries the actions that touch neither contents nor the object.

*FileStatProofs.*  `SizesAreTold` and `AttrsAreTold` under the same hypotheses: what
`dfs_getattr` answers, from the cache file, the metadata of the cell or the
headers, is the length of what a reader gets, and the attribute set last.  The
invariant `TInv` relates the three: the object's metadata have the length of its
data, those of a remote cell are as good as the object's (`SizesOK`); the attribute is
that of the object, of the remote cell, of the cache file and of what is on its
way up or down, but for the two places that a chmod between its two remote calls
has changed already (`WantedOK`, `ChangingOK`).  `Stays`, `Forgotten` and
`NowLocal` carry the steps that change none of it, drop the copies, or make one.

*MountProofs, the smart cache.*  `OwnMetadata`: `CellsHoldTheirOwn` holds for any input, any
number of threads in the pool and any schedule, under the hypothesis
`FewEntries`: the root directory, and any other that may be listed in its place, has at
most `TmpstrNb` entries (32 in `tmpstr.h`), none of which is named like the bytes of a path entry read as a
string.  The inductive invariant is

    IInv == Shapes /\ ListsOnce /\ RoomForNames /\ PoolTaken
                   /\ WorkSteady /\ CellsHoldTheirOwn

The thread lists the root once (`ListsOnce`), so what it has pushed and what it
has still to push fit in the ring (`RoomForNames`, where the cardinality of
`sc.todo` pays for `next`); `next % TmpstrNb` is then `next`, and no string that a
pointer is to is written again.  `PoolTaken` and `WorkSteady` say so of the
pointers that wait and of those a thread of the pool has: what it reads for the
headers is what it read for the table.  The run `preload` drops the hypothesis
and violates the property: 32 is exact.  `TableStep`, `ScMoves` and `WorkStep` carry
the actions that leave most of this alone.

*MountProofs, the life of a mount.*  `EndsCleanly`, `EverythingGivenBack` and
`OptionsAreRight` need no hypothesis on the instance beside the assumptions: they hold for a file of any length, any
environment and directory, every `goto` of `main` and any schedule of the threads.
They come from one inductive invariant,

    LInv == MainTypes /\ Settings /\ MainHolds /\ Threads /\ Files /\ OnlyKnownCrashes

`Settings` says how far the configuration has been read: after line `n` each option is
what the last line up to `n` that gives it a value says, or the default
(`ReadUpTo(n)`), so that at the end of the file it is what `OptionsAsWritten`
wants, which is said of the lines as written and not as they are read: the two differ
in the last line only, and there an option is not `Whole`; `ParseLine` is the step from `n` to `n + 1`, and a bad line stops it for
good.  `MainHolds` says where `main` holds `conf`, the context and the library,
which is what makes every label free each once; `Threads` that nobody runs before the
mount and the pool only for the smart cache; `Files` that a cache file has a local
cell, which is what `dfs_destroy` goes through to unlink them, or is one of `astray`.  Each
case that `OnlyKnownCrashes` leaves beside the smart cache is one that the
code reaches.

`TypesAreRight` adds what the thread and its pool share, `SInv == LInv /\ TInv`: a string
of the ring holds a name of one of the two directories or none (`RingIs`,
`ListIs`), what waits in the pool is a pointer to a string or a cell (`QueueIs`), and
each thread of it is at one of four places (`WorkIs`).

*NamespaceProofs.*  For any number of clients, trees of any shape and depth, and any
ring: five theorems from four invariants, each with what it is made of below.
Two hypotheses appear.  `CacheApart` (`StaysInside`, `NothingIsLost`, `RenameHasMoved`): no
path of the bucket begins with the cache directory, since `rename_file` prints names of cache
files into the ring that the names of the bucket are in, and once it has wrapped one is
read as the other; a bucket that holds a tree named like the cache is outside of the theorems.  `ListsAlone`
(`RenameHasMoved`): no two requests that use the current directory run at a time; the
run `cwd` shows that `RenameMoves` is false without it.

* `TypesAreRight` and `StaysInside` (`RenameStaysInside`), from

      SInv == TypeOK /\ RequestOK(c) for every request

  A step of a rename writes where a pointer of its frame says, so one has to know what
  any pointer can read, also when its buffer was printed again: the string is a
  name below the request's path or target, or that of a cache file (`PrintedOK`,
  `PointersOK`).  `StepOK` says what a request has at each place of its handler.
* `GhostsAreGone` (`NoGhostFiles`), from `GInv`: nobody else touches what a request
  changes (`Apart`, the locks of libfuse), and a `dfs_mkdir` has found no cell that
  tells of a file (`UnknownOK`).
* `NothingIsLost` (`NothingLost`), from

      LInv == SInv /\ Apart /\ TableKnows
              /\ FreshOK(c) /\ NamesOK(c) /\ CopiedOK(c) for every request

  What a rename unlinks must be what it has copied (`CopiedOK`).  That holds because the two
  names of every frame, while the names fit in the ring, are one name
  below the path and the same below the target (`NamesOK`): a copy never lands on
  what another frame has still to move.  `FreshOK` is about the requests that make something: there
  was nothing, so nothing is written over.  It follows from what the kernel was told at
  LOOKUP: a cell never says that there is nothing (`TableKnows`), the bucket does,
  and nobody else makes anything there (`Apart`).  Calls
  may fail at any point and other requests list, so that a rename may work on the
  listing of another directory; the proof covers both.
* `RenameHasMoved` (`RenameMoves`), from

      MInv == LInv /\ (faults = 0 => TreeIn(bucket) /\ MoveOK(c) for every rename with
                                     nothing in the way whose names fit)

  `MoveOK` is a statement for the whole stack of `rename_directory`: of each
  directory that is open, what was read and is done is gone, what is still to do is
  there and not yet in the target (`OpenOK`), the one exception being the entry that
  the frame above is at (`ChainOK`, `Current`).  When the last entry is done the
  directory is empty, so the `dfs_rmdir` whose status nobody looks at succeeds; that
  carries over from a frame to the one below it, and from the first to `EndOK`.  `StartOK`
  is what a frame has before it reads its directory: this is where `ListsAlone` is used, for `cwd` to be
  its own.  `TreeIn`, that the bucket stays a tree, is needed
  for a whole subtree to be gone when its root is.

Each step of a rename has a lemma of its own (`Move...`) for the request that takes it, and
`OthersThing` and `OthersMove` carry what a step of anybody else leaves alone: by
`Apart` it changes nothing that is below one's path or target.

Only model-checked: liveness (`CallReturns`, `RequestsReturn`,
`IdleFileCollected`, `RootPreloaded`), which the provers here cannot reach;
`BackoffSchedule` as far as the power of two goes, an induction over data.

## 5. Plan

In this order:

1. `Rename` of open files: the handles of `PathEntry` under the renames of
   `Namespace`, since libfuse hides an open file that is unlinked by renaming it.
2. Overlapping requests in `FileData` with writers: what survives of
   `LastCloseSaves` (a mixture, never something nobody wrote).

## 6. Not modelled

* The lists of directory entries (`list.c`, `pe->dirent`): written and freed, but
  `update_md`, which reads them, is never called; no answer depends on them.
* Encryption: the cipher is the library's; `check_encryption_flag` always
  returns 0, so encrypted files are read as they are stored.
* Parsing of the arguments, logging, formatting (`log.h`, `misc.c`, `utils.c`), the
  handlers that do nothing (flush, access, xattr, utime, truncate) or only ask
  (statfs, fsync), the insides of zlib and libdroplet, failing allocations.
