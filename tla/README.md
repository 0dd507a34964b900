# A verification project for libtorrent-go

libtorrent-go is a SWIG wrapper that makes libtorrent usable from Go. Much of it
is declarations for the wrapper generator. The part with an algorithm of its own
is `memory_storage` (`src/memory_storage.hpp`), a storage for libtorrent that
keeps the pieces of a torrent in a fixed number of memory buffers and throws the
least recently used pieces out; it lets a player stream a torrent that is larger
than the memory of the device. Around it are wrappers that pass objects between
Go, the engine and its network thread, and a peer plugin. This project models
both parts, checks the models with TLC and proves what matters most with TLAPS.

## The system

| Component | State | Operations | What is hard about it | What makes it correct |
|---|---|---|---|---|
| **memory_storage, the pool** (`memory_storage.hpp`) | `capacity`, `buffer_size`, `buffer_limit`, `buffer_used`; the vectors `buffers` and `pieces` with their indexes into each other; `accessed`; `reserved_pieces` | constructor, the assignment in `get_buffer`, `remove_piece`, `find_last_buffer`, `set_memory_size`, `update_reserved_pieces` | two counters that stand for a third quantity; pieces reserved or released while they have a buffer; overlapping resizes; a clock that may stand still or be set back | the two index arrays are inverse; nothing is evicted while a buffer is free; the oldest buffer goes first; no index leaves the vector |
| **memory_storage, the threads** (same file) | two mutexes, `size`, buffer contents, `is_reading`, `m_handle`, and where each thread is | `read`, `readv`, `writev`, `trim`, `restore_piece`, `set_torrent_handle`, `update_reader_pieces` | most state is read and written with no lock; a buffer may be freed between the test for it and its use; `trim` loops with a lock held | a call copies from and to its own piece; every write finds room; a complete piece can be read; every call returns |
| **memory_storage, the bytes of a piece** (same file) | one buffer, `size`, a call's iovecs and offset | the loops of `readv` and `writev`, the window of `read`, the resets | unsigned subtraction; several iovecs; a last piece shorter than its buffer; `size` counts, it does not know which bytes | copies stay in the buffer; only written bytes are served |
| **memory_storage, what the engine sees** (same file) | pieces held here; announcements, hash results and resume data there | `restore_piece` from three callers, `verify_resume_data`, `has_any_file`, the operations that only return | the storage forgets pieces that the engine believes it has; results of hash jobs arrive late; a restart keeps the resume data and loses the memory | the engine announces what is there, and finds out what is not |
| `add_torrent_params` bindings | the global `memory_size`, `ti` | `set_memory_storage`, `set_torrent_info` | the global is read later, by a constructor in another thread, and nothing orders the two | the torrent info lives long enough |
| `torrent_handle` bindings | none; hands out raw pointers | `torrent_file`, `get_memory_storage` | lifetime of what they point to: the comment promises a reference, the code keeps none | the torrent's info outlives the torrent |
| dht bindings | operation objects owned by Go | `dht_put_mutable_item`, `dht_put_item_cb`, gets | the callback that signs an item runs later, on the network thread | a put stores the data it was called with |
| `upload_plugin` | none of its own | registration, `create_upload_plugin`, `new_connection` | registered at any time, asked for each torrent and each connection | nothing: its callbacks are comments |
| session bindings and Go wrappers | alerts owned by libtorrent | `pop_alerts`, pass-through calls, `catch` | alerts are valid until the next `pop_alerts` | an error is returned, never a panic |
| `session_handle.hpp` | none | a copy of libtorrent's class declaration, without bodies | nothing | |
| value bindings (`bitfield.i`, `entry.i`, `std_map.i`, ...) | none | accessors and renamings | nothing | |
| build files, `test/test.go` | none | | | |

How they interact. The client sets up an `add_torrent_params` (`set_torrent_info`,
`set_memory_storage`) and adds it; libtorrent's network thread then creates the
storage through `memory_storage_constructor`, which reads the global
`memory_size`, and asks the registered plugins for the torrent. From then on
libtorrent's disk threads call `writev` (a block arrived) and `readv` (hash
check, upload). The Go program gets the storage from
`torrent_handle::get_memory_storage` and calls `read` for its player,
`set_torrent_handle`, `set_memory_size`, `update_reader_pieces` and
`update_reserved_pieces` from its own threads. The storage calls back into the
torrent: `restore_piece` tells the piece picker that a piece is no longer there
and sets its priority to 0, and `is_readered` asks the handle for a priority.

The hazards of this code, with the line where each of them bites and the
properties that cover it, are listed in `PROJECT.json` under `hazards`.

## The modules

| Module | What it is | Relation to the others |
|---|---|---|
| `PieceStore` | the pieces that have room and what is stored of them, with no buffers, threads or locks; `StoreSpec` is the promise of the storage as a store | the abstract specification of `MemoryStorage` and `PieceBytes` |
| `BufferPool` | the state that `m_mutex` protects, one action per critical section; `PoolSpec` is the promise of the pool | the abstract specification of `MemoryStorage` and `BufferVector` |
| `MemoryStorage` | the threads, one action per unlocked access or critical section | extends `BufferPool`, implements `PoolSpec`, and `StoreSpec` when no disk thread is disturbed by another's trim |
| `BufferVector` | the vector behind the pool, one loop iteration at a time; overlapping resizes, the LRU scan, the clock | implements the pool under a refinement mapping (`Pool == INSTANCE BufferPool WITH ...`) |
| `PieceBytes` | one buffer, byte by byte | what `MemoryStorage` takes for one step, `CopyIn` and `CopyOut`; one piece of a `PieceStore` |
| `EngineView` | the storage and libtorrent's idea of what it holds | eviction and `restore_piece` of `MemoryStorage`, seen from the engine |
| `Session` | parameters, torrents, plugins and puts, and who owns what | around the storage: the torrent it belongs to |
| `Division` | lemmas on the quotient by which a capacity is turned into a number of buffers | |
| `..._proofs` | the theorems; `SingleWriter_proofs` has those of `MemoryStorage` that need a single disk thread or a pool that is never trimmed | |
| `MC...` | small instances for TLC | |

### PieceStore

The same memory appears twice below: block by block with threads and
buffers, and byte by byte in one buffer. `StoreSpec` is
what the two agree on: a piece gets room with at most its first block in it (`Bind`), a
write adds to its own piece and takes from none (`Write`), what is lost is lost
with the whole piece (`Drop`), and room only grows (`Enlarge`). Each of the two modules
has the property `IsStore`, which is `StoreSpec` under its own refinement mapping:

| | `bound` | `stored[p]` |
|---|---|---|
| `MemoryStorage` | pieces with a `bi` whose buffer `remove_piece` has not emptied yet | the blocks of the buffer whose bytes are the piece's |
| `PieceBytes` | the piece, while it has its buffer | the bytes written |

### BufferPool

`capacity`, `buffer_size`, `buffer_limit`, `buffer_used`, `pi` (that is
`buffers[b].pi`), `bi` (`pieces[p].bi`) and `reserved_pieces` have the names of
the code. `is_used` and `pi` are always written together and are one variable;
`NoPiece` and `NoBuffer` are the two -1. `buffer_reserved` is only ever logged
and left out, and so is `is_initialized`, which is true once the constructor
has returned.

| Action | Code |
|---|---|
| `Allocate(p)` | `get_buffer` after its second `is_buffered`: the first free buffer, then `buffer_limit--` or `buffer_used++` |
| `Evict(b)` | one round of the loop of `trim`: `remove_piece` |
| `Grow(s)` | `set_memory_size`, including `buffer_limit = buffer_size` |
| `SetReserved(S)` | `update_reserved_pieces` |

`SizeFor` has the division and the cap of the code. The code converts the
quotient to an `int` on the way; `IsSize` are the capacities for which that is exact and
`buffer_size` is a natural number, so from just above minus three pieces (a negative capacity gives two buffers at most, and no
trimming) to just below 2^31 pieces.

`PoolSpec` deliberately leaves open which buffer is evicted: that is a matter of
`MemoryStorage` and `BufferVector`. What it does promise is that a piece never gets a second
buffer, that only bound buffers are evicted and only when the counters call for
it and trimming is on, and that the capacity only grows.

### MemoryStorage

Every thread has a program counter. A step is one critical section, or one access to
shared data with no lock held:

| Labels and actions | Code |
|---|---|
| `get` `Get` | the unlocked `is_buffered` at the start of `get_buffer` |
| `lock` `Recheck`, `ReadMiss`, `WriteFault`, `WriteUnwanted`, `WriteAssign`, `WriteNoBuffer` | the rest of `get_buffer` under `m_mutex`, one action per outcome |
| `gate` `Gate`, `restore` `Restore` | `read`: the test for a complete piece, and `restore_piece` when it fails |
| `addr` `Addr`, `OutOfBounds` | `buffers[pieces[piece].bi].buffer[...]`, the address of the bytes; -1 is out of bounds |
| `copy` `CopyOut`, `CopyIn` | `memcpy` |
| `load` `LoadSize`, `store` `StoreSize` | `pieces[piece].size += n` |
| `stamp` `Stamp`, `OutOfBounds` | `accessed = now()` |
| `check` `Check` | `writev` and `trim` test the counters with no lock |
| `trim` `TrimLock`, `loop` `Loop` | `trim` takes `m_mutex`; the test of the while |
| `scan` `Scan`, `scanall` `ScanAll` | the two calls of `find_last_buffer`: each reads the clock |
| `find` `Find`, `FindFault`; `findall` `FindAll` | its loop, a critical section of `r_mutex` |
| `remove` `ResetBuffer`, `reset` `ResetPiece` | `remove_piece`, with `m_mutex` held and `r_mutex` released: the buffer is emptied, then the indexes, the size and the engine follow |
| `SetTorrentHandle`, `SetPiecePriority`, `UpdateReaderPieces`, `ReserveBegin`, `ReserveEnd`, `SetMemorySize` | the client |

`update_reserved_pieces` empties the set before it fills it, and `get_buffer`
tests the set without `r_mutex`, so it takes two steps. The second unlocked test
of the counters (in `trim`, after the one in `writev`) is merged with the
first: nothing happens between the two, and trim tests them again under the lock.

Data. A call reads or writes one block of a piece, and `size` counts blocks.
`data[b][k]` is the piece whose bytes block `k` of buffer `b` holds. Of the time stamps
only this matters here: `find_last_buffer` takes a buffer only if its stamp is before the start of
the scan. `recent` are the buffers of which that is not so, because they were stamped in the
same tick, or behind the scan's back, or the clock was set back; any choice is possible when a scan
begins, and a stamp during it may fall on either side, since the thread may have read the
clock long before. A scan may therefore find nothing although there is a candidate, and `trim` goes round.
Which of the others is the oldest, and the clock itself, are in `BufferVector`. The priorities the engine keeps for the pieces are `wanted`; only zero or not
matters. Undefined behaviour is the variable `fault`: a use of `buffers[-1]` or
of a stray handle ends the behaviour, with no assumption on what follows. The
constructor does not initialise `m_handle` and `t`: `HandleInit` has both a null
and a stray value. The two pointers are set together and modelled as one.

### BufferVector

`BufferPool` takes three things for granted that this module has in detail.

- `set_memory_size` compares with `capacity` before it locks (`TestSize`), so two
  calls may both pass and the smaller come last (`SetMemorySize`). `buffer_size`
  then falls below `count`, the length of the vector, and the next growth appends
  from `buffer_size` again: `NewIndex` is `buffers[i].index`, which is no longer
  the position. `get_buffer` finds a free entry by position and binds the piece
  to its index. The history variable `stale` says that such a growth happened.
- `find_last_buffer` is a loop, with `minTime` and the victim found so far as its
  state. An iteration reads `accessed` twice: `Compare` tests it, `Take` copies it.
- Readers and writers stamp entries meanwhile, with no lock. `BeginStamp` evaluates
  `now()` (and perhaps the index), `EndStamp` stores the time, much later if it likes and
  perhaps in an entry that has gone to another piece: `late` is the stamp in between. The history
  variable `restamped` has the entries stored to since the scan compared them.
- `now()` is the local time: it may stand still between two stamps or be set to
  any value (`Tick`). An entry stamped in the tick in which
  the scan starts, or later, is never taken, and the loop of `trim` goes round
  until the clock moves (`NothingFound`).

No piece is reserved here, so that `buffer_limit` is `buffer_size`; the pieces
somebody wants are a constant set.

### PieceBytes

One thread and one piece of `length` bytes in a buffer of `piece_length`. A call
has an offset and a sequence of iovecs; `CopyBuffer` is one round of the loop,
with the unsigned `Minus` at the width `Modulus`; `writev` measures what is left
from the piece's length and `readv` from the buffer's. `Read` tests `size`, cuts its
window to what is available and returns what it was asked for. `RemovePiece` is
the `reset` of the buffer and of the piece. `irregular` records that a byte was
written twice, or that a write started past the end, since the piece got its buffer.

### EngineView

libtorrent is external: it counts blocks as written when `writev` returned,
with no error, hashes a piece when all its blocks are counted, takes the result
in its network thread and announces the piece; on a restart it offers its resume
data to the storage. The storage's side is `writev` with and without room
(`WritevRefused` is the return of 0 that the engine takes for success), the two halves
of `remove_piece` around the reset and `restore_piece`, the player's `read`, which compares the
count `size` with the piece's length, and
the constants that `verify_resume_data` and `has_any_file` return. Until `SetTorrentHandle`
`restore_piece` returns at once and `is_readered` is true of every piece. `late` records the pieces that were
evicted while a good result of theirs was on its way, `untold` those that went while there was no
handle to tell the engine with.

### Session

| Actions | Code |
|---|---|
| `SetTorrentInfo`, `DeleteTorrentInfo`, `DeleteAddTorrentParams` | `set_torrent_info` copies; what the client owns it may delete |
| `TorrentFile`, `DeleteTorrentFile` | `torrent_file`: the pointer without a reference, and a client that deletes what it points to |
| `AddTorrent`, `Start`, `StartJob`, `EndJob`, `RemoveTorrent` | external: the engine; `Start` has `create_upload_plugin` (`CreateUploadPlugin`) |
| `AddUploadExtension`, `NewConnection` | `upload_plugin.cxx` |
| `SetData`, `DhtPutMutableItem`, `LookedUp`, `DhtPutItemCb`, `Send`, `OtherPut` | `dht.i`: the call with its `boost::bind`, the engine's lookup, the callback that signs, the store; and other clients' puts. An operation whose `data` was never set has an uninitialised pointer, which may yield anything |

## What TLC checks

| Run | Instance | Shows | States |
|---|---|---|---|
| `pool_grow` | `BufferPool`: 4 pieces; capacities for 2, 3 and 4 buffers, with trimming off and on | `PoolTypeOK`, `Mapping` (the index arrays are inverse), `NoEarlyEviction` (the counters never call for an eviction while a buffer is free), `OneEvictionSuffices` (a trim evicts one piece), `OnlyResizingMiscounts` (`buffer_limit - buffer_used` is the number of free buffers, also when pieces are reserved or released while they are in memory, unless the pool is resized) | 3 thousand |
| `single` | `MemoryStorage`: 1 disk thread, 1 player, 3 pieces of 2 blocks, 2 buffers; one piece or two reserved and released | `CompleteIsReadable` (a piece with all its blocks is never refused by `read`), `RoomForWrite` (no write is refused for want of a buffer), `IsStore` (the threads implement `PieceStore`) | 134 thousand |
| `client` | 1 disk thread, 1 player, 3 pieces of 1 block, every client call but reservations; capacities for 2 and 3 buffers, trimming off and on; `m_handle` null, stray and set | `StorageTypeOK`, with who holds `m_mutex`; `OnlyTrimTakes` (a call keeps the buffer of its piece until a trim takes it), `PoolSpec`, `IsStore` | 195 thousand |
| `live` | 2 disk threads, 2 pieces, 2 buffers, reservations; fairness | `VictimStaysBound` (a victim is still bound when it is removed), `OnlyTrimTakes` (with another disk thread that may trim), `WedgedIfReserved` (a trim with nothing to evict takes reservations of every other buffer), `StaysWedged` (and it lasts until one is dropped), `ReservedStays` (a reserved piece keeps its buffer), `DeadlockFree` (somebody in a call can always run), `PoolSpec`, `TrimEnds`, `CallsReturn` | 67 thousand |
| `vector` | `BufferVector`: 2 threads that resize, 1 that stamps, 3 pieces, capacities for 1, 2 and 3 buffers, a clock of two values that goes as it likes | `WithinVector` (no index leaves the vector), `ChosenIsOldest`, `VictimIsCandidate`, `KeepsPromises` (the promises of the pool, of the vector), `OneVictimPerTrim` (the loop of `trim` ends with its first eviction), `AsPool` (the refinement) | 1.9 million |
| `bytes` | `PieceBytes`: 3 bytes in a buffer of 5; offsets at and past both ends, up to two iovecs, one of which may be empty or too long; 4-bit arithmetic | `CopyInBounds`, `CountsCopied`, `ServesWritten`, `ClaimsWhatItCopied`, `IsStore` | 167 thousand |
| `engine` | `EngineView`: 2 pieces of 2 blocks, 2 buffers, before and after the handle is set; fairness | `StaleOnlyIfLate` (what the engine announces is there, but for late results and what nobody could tell it), `StaleHeals` (a wrong announcement does not outlive a read of the piece) | 184 thousand |
| `session` | `Session`: 2 torrents, 2 puts to one key with 2 values against another client's | `InfoOutlivesTorrent`, `PutIsStored` | 68 thousand |
| `pool_resized` (violation) | as `pool_grow` | `FullPoolTrims` | |
| `reader` (violation) | 1 disk thread, 1 player | `CopySafe` | |
| `lost` (violation) | 2 disk threads | `CompleteIsReadable` | |
| `handle` (violation) | stray `m_handle` | `HandleTested` | |

Every property of a passing run has a mutant (`PROJECT.json`, `mutants`): a
definition of the model changed as a bug would change the code, with which
the property fails in the same run. The definitions that begin with "A fault" are these.

**Bounds.**
- `MemoryStorage`: two buffers for three pieces is the smallest pool where a write
  finds the pool full and a buffer passes from one piece to another; with
  three (`client`) trim chooses between two victims. Two threads are enough for every race listed: each is between
  a call that uses a buffer and a trim that frees it or a stamp that holds it up, or two writers. `live` has
  two pieces: with a disk thread on each the pool is full and either trim may
  find nothing to evict. `MaxSize`
  stops writes to a piece that has that size already (`size` would grow for ever),
  counting the writes under way, so it is exact: nothing is cut off but
  writes that could only overshoot. `Handles`, `ReserveSets`, `ReaderSets` and `HandleInit` say
  which client calls an instance has; each run leaves out those that its
  properties do not depend on.
- `MinLimit` stops reservations (in
  `MCBufferPool`, allocations) once `buffer_limit` is that low: reserving a piece,
  allocating it, releasing it and evicting it takes both counters down by one each time, and only
  their difference matters. The passing runs of `MemoryStorage` have a view that
  keeps the difference alone, with which the bound is never reached. Where the
  pool is resized, which does set one of the two, nothing is reserved and
  `buffer_limit` is `buffer_size`. The view also leaves out what is written again before it is read: the
  local buffer of a thread that is not about to use it;
  and `reader_pieces`, which nothing reads.
  States with the same view have the same successors up to the view and the same properties, and in `live`
  every step changes something that is in it, so that fairness means the same with and without it.
- `BufferVector`: two overlapping resizes and a third growth are needed for two
  entries with the same index, and three sizes are enough for that. A clock
  of two values (`MaxTime` = 1) has stamps that are equal, older and, once it is
  set back, later than now. One late stamp is enough for an entry to change behind a scan, ahead
  of it, and between its two reads of the entry. The theorems hold for any clock and any number
  of stamps under way.
  The view of the run leaves out the stamp of a free entry: it is never compared
  (a candidate is bound) and renewed when the entry is bound.
- `PieceBytes`: 3 in 5 has offsets on both sides of, and at, both ends. No write
  starts once `size` is 6 (`MaxSize`), twice the piece, so that a piece may be
  written over completely. `Modulus` is 16, above all sums of the instance but
  for those that wrap around below 0.
- `EngineView`: two buffers for two pieces are already full when both pieces are
  there, and each write to one evicts the other.
- `Session`: each of two torrents is added once; no property relates them. Two puts to one key,
  against any number of other puts up to sequence number `MaxSeq` (2): a lookup
  finds nothing or an item, a store is accepted or refused, and a put may be overtaken by the
  client's own. The torrents and the puts share no variable and no guard, and
  no property is about both; the constraint `Apart` explores each half while the other is as it
  was at the start. The theorem on puts holds for any numbers and without it.

Symmetry is used over pieces that the instance does not tell apart, over disk
threads, over the blocks of a piece, over the threads that resize, and over torrents, puts and items; never in a run with liveness.

**Coverage.** With `-coverage 1` every action of every module, and every
alternative of each, is taken by a passing run, except
those that no state allows: a write is not refused, and a buffer not evicted, with
a stray handle, since the question for the priority has already ended the process; nor is a
write refused without a handle, when every piece counts as wanted.

**Deadlock** checking is off where the system may stop: when a fault has ended
the process, when every write has reached its bound, when all torrents of the
instance are gone, or when a pool that
cannot be trimmed has every thread waiting. What may stop is
stated by `CallsReturn` instead.

**Fairness.** *MemoryStorage.* A thread inside a call keeps running (it is a thread of the
operating system, and no step blocks but on the two mutexes). A step that takes
a mutex is given strong fairness: a mutex that is free again and again is got by
the thread that waits for it. boost::mutex promises no queue, so this is an
assumption on the mutexes of the supported platforms; without it no call could be
said to return, since the other threads may come back for the lock for ever. All
other steps of a thread stay enabled once they are, so that strong fairness asks
no more of them than weak. The second half of
`update_reserved_pieces` has weak fairness. `ClockGoesOn` says that time goes on: of
the scans that a `trim` makes some begin later than every stamp so far (a clock that stands still, or
was set back for good, would keep `trim` going round). It says nothing of stamps made
during the scan: those are an exception of `TrimEnds`, below. Nothing obliges a client or
libtorrent to make any call.

*EngineView.* The steps of the disk thread and the player's `restore_piece` have weak
fairness. `Look`, which may need `m_mutex`, has strong fairness, for the reason
above. Nothing is assumed of the engine, nor of what the player reads.

## What disagrees with the code's own words

Each of these is a run that TLC refutes, listed under `findings` with the line.

1. `pool_resized`: `set_memory_size` sets `buffer_limit = buffer_size` and so takes back the
   reductions made for reserved pieces that still have buffers. The pool fills,
   the counters never meet, `trim` is never entered, and every piece that has no
   buffer yet is refused.
2. `reader`: `read` copies after `get_buffer` released the lock; the buffer may be
   another piece's by then.
3. `lost`: two parallel `size += n` on a piece lose one; the piece is complete
   and `read` refuses it, until it is evicted or downloaded once more.
4. `handle`: the tests for a missing handle read an uninitialised pointer.

How far the first three reach is proved. The first takes both a reservation and a
resize: a pool that is never resized (`FixedPoolTrims`), or in which nothing is ever
reserved (`UnreservedPoolTrims`), is trimmed when it is full. The second takes a
trim: with a negative memory size every copy is in the call's own piece
(`UntrimmedCopiesAreSafe`). The third takes a second disk thread
(`SingleWriterCompletes`).

A fifth has no run of its own. The comment at `torrent_handle.i:26-28` says of
`torrent_file` that the reference count is increased for the pointer it returns, and that deleting
the object frees it; the code keeps no reference, so that a client that follows the comment frees the
torrent's own copy. `InfoOutlivesTorrent` has that as its exception (`freed`): every other order of
additions, removals, jobs and deletions is safe.

In `single` and `client` there is one disk thread: it keeps its buffer and finds room, and sizes add up.
With several (`live`) the pool itself stays consistent, but a writer may index `buffers[-1]`, which ends that
behaviour with a fault. `OnlyTrimTakes` says how that comes about, for any number of
disk threads: a call loses its buffer only to the trim of a write to another piece. Two writes in parallel to
one piece, which the comment in `get_buffer` has in mind, never take its buffer from each
other.

Other behaviour that the models show and no text of the repository denies is built
into the properties as their exception:

- `CallsReturn` and `TrimEnds` except `Wedged`: if all other
  buffers belong to reserved pieces, or there is no other, the loop of `trim` has
  nothing to evict and no exit, and it holds `m_mutex`. In the `live` run this
  state is reached. `WedgedIfReserved` says that it is the client's doing: with the piece being
  written, as many pieces are reserved as there are buffers; and `StaysWedged` that only the
  client ends it: no step of any thread does while those pieces stay reserved.
  Where the pool has a single buffer the piece being written is enough, with no reservation.
- `TrimEnds` also excepts a `trim` whose candidates other threads stamp again and again while it
  scans, and `CallsReturn` every trim that does not end.
- `ReservedStays` except for a piece that `trim` has chosen when it is reserved: `find_last_buffer`
  has released `r_mutex` by then, and `remove_piece` does not look at `reserved_pieces`.
- `VictimIsCandidate`, `KeepsPromises`, `OneVictimPerTrim` and `AsPool` except after a `stale` growth: then two entries of
  the vector have the same index, two pieces can be bound to the same buffer,
  and a trim may remove a piece that it did not choose.
- `ChosenIsOldest` except for entries that were stamped since they were compared. A stamp may be as old as
  it likes, since it was read from the clock some time before.
- `StaleOnlyIfLate` except for `late` pieces: the good result of a hash
  that arrives after the piece's eviction announces a piece that is gone; and for `untold` ones:
  before `set_torrent_handle` the engine is not told of an eviction. `StaleHeals`
  says what becomes of both once there is a handle: a player's read of the piece makes the engine forget it. If nobody
  reads the piece it stays announced.
- `ServesWritten` except for an `irregular` piece: `size` counts bytes that were written
  twice (after a failed hash) as two, so that a piece with a hole may pass for complete.
- `CopyInBounds` except for a call that starts past the end: the unsigned subtraction wraps around.
- `ClaimsWhatItCopied` except at the end of the buffer: `read` returns the size asked for.
- `PutIsStored` except for a put that was `overtaken`.

## What is proved

The proofs use the named assumptions of the modules: `PoolAssumption` (finitely many pieces, a positive
piece length, capacities for which `buffer_size` is a natural number that fits an `int`), `ThreadAssumption`
(disk threads and readers are different threads; the client reserves pieces of
the torrent), `VectorAssumption`, `BytesAssumption` (a piece fits its buffer, and the buffer's
length and all offsets fit the unsigned type), `EngineAssumption` and `SessionAssumption`. They hold for every number of
pieces, buffers, threads, blocks, torrents and puts, for every length and for any clock.

`BufferPool_proofs`. The safety of the pool rests on counting. None of
`Mapping` and `NoEarlyEviction` is inductive; `PoolInv` adds that
`buffer_size` is what the capacity makes it (`Sizing`) and that
`buffer_limit - buffer_used` is at least the number of free buffers, while
`buffer_used` is at most the number of used ones (`Charged`). It survives any
change of the reserved set because the set is not in it: whichever counter pays,
the distance of the two goes down by one with each allocation. `Grow` keeps the
inequality and loses the equality (`Exact`), which is the first disagreement
above; `ResizingMiscounts` and `FixedPoolTrims` show that this is the only way
to lose it. `Unreserved` is the inequality that survives a resize when nothing is
reserved: `buffer_limit` is `buffer_size` then, and `UnreservedPoolTrims` follows. Theorems: `PoolInvariance`, `PoolTypeCorrect`,
`MappingCorrect`, `NeverEvictsEarly`, `TrimsOnce`, `ResizingMiscounts`,
`FixedPoolTrims`, `UnreservedPoolTrims`.

`MemoryStorage_proofs`. A thread in `trim` tests the counters, chooses a buffer
and removes it in different steps, and each step depends on what it saw before.
`LockInv` says what it still knows: it holds `m_mutex` (`Holder`), the capacity is
not negative and the counters still call for an eviction (`Cause`), and its
victim is bound to another piece (`VictimStaysBound`). All steps
of other threads that could disturb this need `m_mutex`; what is left
is a step that touches none of it (`LocalStep`). From it follow
`VictimSafe`, the refinement `ImplementsPool` (`Spec => PoolSpec`), and with it
`StorageKeepsPromises`: all that is proved of the pool holds of the threads. `TInv` adds
the rest of the state: `m_mutex` is held by a thread in trim and by no other (`Owned`); `StorageTypes` is `StorageTypeOK` for any number of threads.
`WedgedByClient` counts: when the counters call for an eviction no buffer is free (`FullPoolHolds`), so the
buffers hold as many pieces as there are buffers, and all of them are reserved or the one being
written.
Three theorems are about what the two mutexes do together. `NoDeadlock`: the thread that has
`m_mutex` is in `trim` (`Owned`), where only `r_mutex` can stop it, and who has `r_mutex` waits for nothing.
`WedgeLasts`: a `trim` with nothing to evict keeps the others behind `m_mutex` (`OthersWait`), and its own steps lead
round the loop (`StuckSteps`). `ReservedKept` needs one fact more, `PendingGuarded`: what
`update_reserved_pieces` has still to put back is there only while it holds `r_mutex`, so that
`find_last_buffer` always sees the whole set.
`BuffersAreTrimmed` is about the time after `get_buffer`, when a call holds no lock. A call enters
it only with a buffer of its piece. None of its own steps takes the buffer away (`OwnStepKeeps`), and of the
others' only the second half of `remove_piece` unbinds one (`OtherStepKeeps`), which is in a trim whose victim
is never the piece of its own write (`VictimStaysBound`).

`SingleWriter_proofs`. `IsPieceStore` needs that no trim disturbs a call of a disk thread
(`Undisturbed`): there is one disk thread (`SingleWriter`), or every memory size is negative and nothing is trimmed
(`NeverTrims`); and any number of players. Without it they are false: with two disk
threads and a trim a writer indexes `buffers[-1]`. `Roles` says who does what: only a disk thread writes and
trims. `Steady` threads are those no trim takes a buffer from, and `Held` says what one of them
knows of its buffer (lemma `DiskThreadKeepsBuffer`); under
`NeverTrims` the same holds of the players (`UntrimmedCopiesAreSafe`).
`IsPieceStore` is the refinement of `PieceStore`. `Allocate` maps to `Bind`,
because a free buffer is empty (`Cleared`, kept by `Emptied`); `CopyIn` to `Write`, because
its buffer is still its piece's; `ResetBuffer` to `Drop`, since from then on the piece counts as gone; the client's `SetMemorySize` to `Enlarge`; and
every other step to a stutter.
Two theorems need `SingleWriter` itself. For
`SingleWriterCompletes` the account is `Sized`: each block that is in the buffer of a piece was
counted in its size or is about to be, no count is lost between the load and the store,
and free buffers are empty. For `SingleWriterHasRoom`, with the further hypothesis that
the pool is trimmed and not resized, `Relief`: a full pool has a write under way that will trim it.

`BufferVector_proofs`. `VInv` has five parts besides `VictimIsCandidate`. `Shape` is what holds
whatever the order of resizes: `buffer_size` is the pool's size for the current
capacity, it is at most `count`, and every index and every binding is below `count`. `Scan`
gives the range of the scan's locals, `Stamps` that of the stamps under way, `Oldest` is `ChosenIsOldest` with, between the two reads of an
entry, what is known of it from the first, and `Straight` holds
until a stale growth: `count` equals `buffer_size` and every entry's index is its
position. `Straight` is what the
refinement needs: `VectorIsPool` maps `GetBuffer` to `Allocate`, `RemovePiece` to
`Evict`, `SetMemorySize` to `Grow`, and everything else to a stutter. The other
theorems are `VectorHolds`, `OldestChosen` and `VictimChosen`. `VectorKeepsPromises` and `VectorTrimsOnce` carry
the pool over to its vector: `Proved == INSTANCE BufferPool_proofs WITH ...` has
the lemmas of the pool with the mapping put in, and since `AsPool` holds only until a stale
growth they are used step by step (`SameInit`, `SameStep`) and not through `PoolSpec`.

`PieceBytes_proofs`. `BInv`: the `file_offset` of a call that started before the limit
has not passed it (`Bounded`), and as long as nothing irregular happened
`size`, with the `n` of a write under way, is the number of bytes written (`Counted`), all of them in
the piece; so a piece of full size has all its bytes (`Served`). `CountIsExact`
is about a sum over the iovecs, which the model defines by a recursive function. That such a
function exists (`SumExists`) and that it adds up (`TotalAdds`) are inductions, and the library's induction
theorem takes an operator as its parameter; `AllNumbers` says the same of a set,
whose complement, if not empty, would have a least element. `PieceOfStore` maps `CopyBuffer` to `Write` and the resets to `Drop`. Theorems:
`CopiesInBounds`, `CountIsExact`, `ServedWasWritten`, `ClaimsAreCopied`, `PieceOfStore`.

`EngineView_proofs`. `EInv` adds to `StaleOnlyIfLate` that a good result on its way belongs to a
piece that is complete or late (`GoodIsComplete`). Theorem: `StaleIsLate`.

`Session_proofs`. `PutInv`: as long as a put is
not overtaken, the item in the DHT has the number that its lookup found. Theorem: `PutsAreStored`.

Only model-checked are the liveness properties `TrimEnds`, `CallsReturn` and `StaleHeals`: the
prover does not handle fairness, which is defined by ENABLED; `NoDeadlock` is the part of `CallsReturn` that needs none. So is
`InfoOutlivesTorrent`: it rests on what the engine holds on to, which is external. Every other invariant, action property or
refinement of a passing run is stated by a theorem.

## What is not modelled

- The inside of libtorrent. `EngineView` and `Session` have external actions for
  what the engine does with the storage's functions, no more; that
  `restore_piece` enters the piece picker from a disk thread or the player's while the network
  thread works on it is one atomic step.
- Where the vector of buffers lies in memory: `push_back` may move it under the feet of a
  thread without a lock, and every such access would be undefined.
- `set_memory_storage` and the global `memory_size`: the constructor reads what the last call wrote, for
  whatever torrent that was, and nothing orders the two, so there is no promise to check.
- Memory sizes for which `buffer_size` is negative (minus three pieces and below) or beyond an `int`, where
  the conversion of the quotient is undefined.
- A client that uses the pointer of a storage, of metadata or of a key after the
  torrent or the operation is gone: no text says that it may.
- `is_completed` and `is_read`: the first is never set to true, so neither
  has any effect. Allocation failures and logging.
- The immutable put and the gets of `dht.i`, the session's pass-through calls and their `catch`: one
  call into libtorrent each, and the result is an alert.
- How long popped alerts live: libtorrent alone decides that.
- `session_handle.hpp`: declarations with no bodies, three fifths of all the lines of the
  implementation; the value bindings; the build.

## The plan

Done, in this order: `BufferPool`, `MemoryStorage`, `BufferVector` (which took in the planned
growth of the pool and LRU scan), `PieceBytes`, `EngineView`, `Session` (the planned
handle lifetime and DHT put in one module), with their runs and theorems; then `PieceStore`, which
links `PieceBytes` and `MemoryStorage`. What is left, in order of importance:

1. The counters: that `size` of `MemoryStorage` and of `PieceBytes` agree, as their contents do by
   `PieceStore`.
2. `EngineView` with two disk threads, one hashing while the other writes.
