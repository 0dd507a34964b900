----------------------------- MODULE MemoryStorage -----------------------------
(***************************************************************************)
(* The threads inside memory_storage (src/memory_storage.hpp).             *)
(*                                                                         *)
(* libtorrent's disk threads call writev and readv, the player calls read  *)
(* and the client sets the handle, the priorities, the reserved pieces and *)
(* the memory size.  Buffers are allocated and freed under m_mutex, and    *)
(* update_reserved_pieces excludes the LRU scan with r_mutex.  Everything  *)
(* else is done with no lock held: the test that a piece has a buffer, the *)
(* address of a byte in it, the copy, the size, the time stamp and the     *)
(* test of the counters.  Each of these is a step of its own here.         *)
(*                                                                         *)
(* What BufferPool defines is one critical section, and Spec implements    *)
(* PoolSpec.  A call works on one block of a piece, the unit of bytes.     *)
(***************************************************************************)
EXTENDS BufferPool

CONSTANTS
  DiskThreads,  \* threads of libtorrent that call readv and writev
  Readers,      \* threads of the player that call read
  NoThread,     \* nobody owns m_mutex
  Blocks,       \* the blocks of a piece
  MaxSize,      \* bound: no write starts to a piece of this size, stored or to be stored
  MinLimit,     \* bound: no reservation once buffer_limit is this low
  ReserveSets,  \* the sets of pieces the client reserves
  ReaderSets,   \* the sets of pieces the client declares as being read
  HandleInit,   \* what the uninitialised m_handle and t happen to hold
  Handles       \* what set_torrent_handle is called with

ASSUME ThreadAssumption ==
  /\ DiskThreads \cap Readers = {}
  /\ NoThread \notin DiskThreads \cup Readers
  /\ IsFiniteSet(Blocks)
  /\ MaxSize \in Nat
  /\ MinLimit \in Int
  /\ ReserveSets \subseteq SUBSET Pieces
  /\ ReaderSets \subseteq SUBSET Pieces
  /\ HandleInit \subseteq {"null", "wild"}
  /\ Handles \subseteq {"set"}

VARIABLES
  size,           \* pieces[p].size, in blocks
  data,           \* buffers[b].buffer: the piece that each block belongs to
  recent,         \* the buffers whose stamp is not before the start of the scan under way
  m_mutex,        \* the thread that holds m_mutex
  r_mutex,        \* held by update_reserved_pieces
  pending,        \* its argument
  is_reading,
  m_handle,       \* "null", "wild" (a stray pointer) or "set"
  wanted,         \* the pieces with a priority other than 0
  reader_pieces,
  pc, task,       \* where each thread is, and the call it serves
  buf, n,         \* its locals: a buffer, and the size it has loaded
  fault           \* the undefined behaviour that ended the process

storeVars  == <<poolVars, size, data, recent>>
lockVars   == <<m_mutex, r_mutex, pending>>
clientVars == <<m_handle, wanted, reader_pieces>>
shared == <<storeVars, lockVars, is_reading, clientVars>>
locals == <<task, buf, n>>
vars == <<shared, pc, locals, fault>>

Threads == DiskThreads \cup Readers

Unstored == [k \in Blocks |-> NoPiece]
length == Cardinality(Blocks)

Task == [op : {"none", "read", "readv", "writev"}, piece : Pieces \cup {NoPiece},
         block : Blocks \cup {0}]
Labels == {"idle", "get", "lock", "gate", "restore", "addr", "copy", "load", "store",
           "stamp", "check", "trim", "loop", "scan", "find", "scanall", "findall", "remove",
           "reset"}
NoTask == [op |-> "none", piece |-> NoPiece, block |-> 0]

(* is_readered: reader_pieces has no part in it.                           *)
Readered(p) == m_handle = "null" \/ p \in wanted

(* A scan of find_last_buffer is under way: it has read the clock.         *)
Scanning == \E t \in Threads : pc[t] \in {"find", "findall"}

(* b is stamped.  Where no lock is held now() may be read long before its  *)
(* value is stored, so it may lie before or after the start of a scan.     *)
Stamped(b) == IF Scanning THEN {recent \cup {b}, recent \ {b}} ELSE {recent}

(* restore_piece: the engine forgets p and no longer wants it.             *)
RestorePiece(p) ==
  \/ m_handle = "null" /\ UNCHANGED <<wanted, fault>>
  \/ m_handle = "wild" /\ fault' = "handle" /\ UNCHANGED wanted
  \/ m_handle = "set" /\ wanted' = wanted \ {p} /\ UNCHANGED fault

Init ==
  /\ PoolInit
  /\ size = [p \in Pieces |-> 0]
  /\ data = [b \in Buffers |-> Unstored]
  /\ recent = {}
  /\ m_mutex = NoThread /\ r_mutex = FALSE /\ pending = {}
  /\ is_reading = FALSE
  /\ m_handle \in HandleInit
  /\ wanted = Pieces
  /\ reader_pieces = {}
  /\ pc = [t \in Threads |-> "idle"]
  /\ task = [t \in Threads |-> NoTask]
  /\ buf = [t \in Threads |-> NoBuffer]
  /\ n = [t \in Threads |-> 0]
  /\ fault = "none"

At(t, label)   == pc[t] = label
Goto(t, label) == pc' = [pc EXCEPT ![t] = label]
Return(t) ==
  /\ Goto(t, "idle")
  /\ task' = [task EXCEPT ![t] = NoTask]
  /\ buf' = [buf EXCEPT ![t] = NoBuffer]
  /\ n' = [n EXCEPT ![t] = 0]

-----------------------------------------------------------------------------
(* The three entry points.                                                 *)
Call(t, op, p, k) ==
  /\ At(t, "idle")
  /\ Goto(t, "get")
  /\ task' = [task EXCEPT ![t] = [op |-> op, piece |-> p, block |-> k]]
  /\ UNCHANGED <<storeVars, lockVars, clientVars, buf, n, fault>>

StartRead(t, p) ==
  /\ t \in Readers
  /\ is_reading' = TRUE
  /\ Call(t, "read", p, 0)

StartReadv(t, p) ==
  /\ t \in DiskThreads
  /\ Call(t, "readv", p, 0)
  /\ UNCHANGED is_reading

StartWritev(t, p, k) ==
  /\ t \in DiskThreads
  /\ size[p] < MaxSize
  /\ \A u \in DiskThreads : task[u].piece = p => n[u] < MaxSize
  /\ Call(t, "writev", p, k)
  /\ UNCHANGED is_reading

-----------------------------------------------------------------------------
(* get_buffer.  read goes on to compare sizes, the others to the copy.     *)
Granted(t) == Goto(t, IF task[t].op = "read" THEN "gate" ELSE "addr")

(* The test with no lock held.                                             *)
Get(t) ==
  /\ At(t, "get")
  /\ IF IsBuffered(task[t].piece) THEN Granted(t) ELSE Goto(t, "lock")
  /\ UNCHANGED <<shared, locals, fault>>

Lock(t) == At(t, "lock") /\ m_mutex = NoThread

Recheck(t) ==
  /\ Lock(t)
  /\ IsBuffered(task[t].piece)
  /\ Granted(t)
  /\ UNCHANGED <<shared, locals, fault>>

ReadMiss(t) ==
  /\ Lock(t)
  /\ ~IsBuffered(task[t].piece)
  /\ \/ task[t].op = "read" /\ Goto(t, "restore") /\ UNCHANGED locals
     \/ task[t].op = "readv" /\ Return(t)
  /\ UNCHANGED <<shared, fault>>

WriteMiss(t) == Lock(t) /\ task[t].op = "writev" /\ ~IsBuffered(task[t].piece)

(* is_readered follows m_handle.                                           *)
WriteFault(t) ==
  /\ WriteMiss(t)
  /\ is_reading /\ m_handle = "wild"
  /\ fault' = "handle"
  /\ UNCHANGED <<shared, pc, locals>>

(* A fault: get_buffer is true although no buffer was given.               *)
WriteUnwantedGoesOn(t) ==
  /\ WriteMiss(t)
  /\ is_reading /\ m_handle # "wild" /\ ~Readered(task[t].piece)
  /\ RestorePiece(task[t].piece)
  /\ Goto(t, "addr")
  /\ UNCHANGED <<storeVars, lockVars, is_reading, m_handle, reader_pieces, locals>>

WriteUnwanted(t) ==
  /\ WriteMiss(t)
  /\ is_reading /\ m_handle # "wild" /\ ~Readered(task[t].piece)
  /\ RestorePiece(task[t].piece)
  /\ Return(t)
  /\ UNCHANGED <<storeVars, lockVars, is_reading, m_handle, reader_pieces>>

Allocates(t) ==
  /\ WriteMiss(t)
  /\ is_reading => m_handle # "wild" /\ Readered(task[t].piece)

WriteAssign(t) ==
  /\ Allocates(t)
  /\ Assign(task[t].piece)
  /\ Goto(t, "addr")
  /\ UNCHANGED <<size, data, recent, lockVars, is_reading, clientVars, locals, fault>>

WriteNoBuffer(t) ==
  /\ Allocates(t)
  /\ FreeBuffers = {}
  /\ Return(t)
  /\ UNCHANGED <<shared, fault>>

-----------------------------------------------------------------------------
(* The calls after get_buffer, with no lock held.                          *)

(* read serves complete pieces only.                                       *)
Gate(t) ==
  /\ At(t, "gate")
  /\ Goto(t, IF size[task[t].piece] < length THEN "restore" ELSE "addr")
  /\ UNCHANGED <<shared, locals, fault>>

Restore(t) ==
  /\ At(t, "restore")
  /\ RestorePiece(task[t].piece)
  /\ Return(t)
  /\ UNCHANGED <<storeVars, lockVars, is_reading, m_handle, reader_pieces>>

(* pieces[piece].bi indexes buffers: -1 is out of bounds.                  *)
OutOfBounds(t) ==
  /\ pc[t] \in {"addr", "stamp"}
  /\ ~IsBuffered(task[t].piece)
  /\ fault' = "index"
  /\ UNCHANGED <<shared, pc, locals>>

Addr(t) ==
  /\ At(t, "addr")
  /\ IsBuffered(task[t].piece)
  /\ buf' = [buf EXCEPT ![t] = bi[task[t].piece]]
  /\ Goto(t, "copy")
  /\ UNCHANGED <<shared, task, n, fault>>

CopyOut(t) ==
  /\ At(t, "copy")
  /\ task[t].op # "writev"
  /\ Goto(t, "stamp")
  /\ UNCHANGED <<shared, locals, fault>>

CopyIn(t) ==
  /\ At(t, "copy")
  /\ task[t].op = "writev"
  /\ data' = [data EXCEPT ![buf[t]][task[t].block] = task[t].piece]
  /\ Goto(t, "load")
  /\ UNCHANGED <<poolVars, size, recent, lockVars, is_reading, clientVars, locals, fault>>

(* pieces[piece].size += n loads, adds and stores.                         *)
LoadSize(t) ==
  /\ At(t, "load")
  /\ n' = [n EXCEPT ![t] = size[task[t].piece]]
  /\ Goto(t, "store")
  /\ UNCHANGED <<shared, task, buf, fault>>

(* A fault: = for +=.                                                      *)
StoreSizeAssigns(t) ==
  /\ At(t, "store")
  /\ size' = [size EXCEPT ![task[t].piece] = 1]
  /\ Goto(t, "stamp")
  /\ UNCHANGED <<poolVars, data, recent, lockVars, is_reading, clientVars, locals, fault>>

StoreSize(t) ==
  /\ At(t, "store")
  /\ size' = [size EXCEPT ![task[t].piece] = n[t] + 1]
  /\ Goto(t, "stamp")
  /\ UNCHANGED <<poolVars, data, recent, lockVars, is_reading, clientVars, locals, fault>>

Stamp(t) ==
  /\ At(t, "stamp")
  /\ IsBuffered(task[t].piece)
  /\ recent' \in Stamped(bi[task[t].piece])
  /\ \/ task[t].op = "writev" /\ Goto(t, "check") /\ UNCHANGED locals
     \/ task[t].op # "writev" /\ Return(t)
  /\ UNCHANGED <<poolVars, size, data, lockVars, is_reading, clientVars, fault>>

-----------------------------------------------------------------------------
(* A fault: > for >=.                                                      *)
MayTrimLate == capacity >= 0 /\ buffer_used > buffer_limit

(* A fault: a negative capacity does not turn trim off.                    *)
MayTrimUnlimited == NeedsTrim

(* The unlocked tests before trim takes the lock.                          *)
MayTrim == capacity >= 0 /\ NeedsTrim

Check(t) ==
  /\ At(t, "check")
  /\ \/ MayTrim /\ Goto(t, "trim") /\ UNCHANGED locals
     \/ ~MayTrim /\ Return(t)
  /\ UNCHANGED <<shared, fault>>

(* A fault: the lock is not waited for.                                    *)
AcquireAnyway(t) == m_mutex' = t

Acquire(t) == m_mutex = NoThread /\ m_mutex' = t

(* A fault: trim returns with m_mutex locked.                              *)
ReleaseForgotten(t) == UNCHANGED m_mutex

Release(t) == m_mutex' = NoThread

TrimLock(t) ==
  /\ At(t, "trim")
  /\ Acquire(t)
  /\ Goto(t, "loop")
  /\ UNCHANGED <<storeVars, r_mutex, pending, is_reading, clientVars, locals, fault>>

Loop(t) ==
  /\ At(t, "loop")
  /\ \/ NeedsTrim /\ Goto(t, "scan") /\ UNCHANGED <<m_mutex, locals>>
     \/ ~NeedsTrim /\ Return(t) /\ Release(t)
  /\ UNCHANGED <<storeVars, r_mutex, pending, is_reading, clientVars, fault>>

IsReserved(p) == p \in reserved_pieces

(* A fault: the piece that is being written is not spared.                 *)
EvictableOwn(p) == {b \in UsedBuffers : ~IsReserved(pi[b])}

Evictable(p) == {b \in UsedBuffers : ~IsReserved(pi[b]) /\ pi[b] # p}

(* A fault: the pieces that are still wanted are spared by both calls.     *)
CandidatesSpared(p, check_read) == {b \in Evictable(p) : ~Readered(pi[b])}

(* What find_last_buffer chooses from.                                     *)
Candidates(p, check_read) == {b \in Evictable(p) : check_read => ~Readered(pi[b])}

(* find_last_buffer reads the clock before it waits for r_mutex.  A stamp  *)
(* is not before that time when it was made within the same tick, or       *)
(* before the clock was set back.  That of the piece itself is not looked  *)
(* at.                                                                     *)
ReadClock(t, next) ==
  /\ recent' \in SUBSET {b \in UsedBuffers : pi[b] # task[t].piece}
  /\ Goto(t, next)
  /\ UNCHANGED <<poolVars, size, data, lockVars, is_reading, clientVars, locals, fault>>

Scan(t)    == At(t, "scan") /\ ReadClock(t, "find")
ScanAll(t) == At(t, "scanall") /\ ReadClock(t, "findall")

(* A fault: find_last_buffer does not take r_mutex.                        *)
FindLastBufferUnlocked(t, check_read, next) ==
  LET C == Candidates(task[t].piece, check_read) \ recent
  IN  /\ \/ C = {} /\ Goto(t, next) /\ UNCHANGED locals
         \/ \E b \in C : /\ buf' = [buf EXCEPT ![t] = b]
                        /\ Goto(t, "remove") /\ UNCHANGED <<task, n>>
      /\ recent' = {}
      /\ UNCHANGED <<poolVars, size, data, lockVars, is_reading, clientVars, fault>>

(* Its loop: remove_piece if there is a buffer to evict that was stamped   *)
(* before the scan began, else what is next.  Which one it is, the oldest, *)
(* is the matter of BufferVector.                                          *)
FindLastBuffer(t, check_read, next) ==
  LET C == Candidates(task[t].piece, check_read) \ recent
  IN  /\ ~r_mutex
      /\ \/ C = {} /\ Goto(t, next) /\ UNCHANGED locals
         \/ \E b \in C : /\ buf' = [buf EXCEPT ![t] = b]
                        /\ Goto(t, "remove") /\ UNCHANGED <<task, n>>
      /\ recent' = {}
      /\ UNCHANGED <<poolVars, size, data, lockVars, is_reading, clientVars, fault>>

(* reader_pieces is never of length 0, so this call is always made first.  *)
Find(t) ==
  /\ At(t, "find")
  /\ m_handle = "wild" => Evictable(task[t].piece) = {}
  /\ FindLastBuffer(t, TRUE, "scanall")

FindFault(t) ==
  /\ At(t, "find")
  /\ ~r_mutex
  /\ m_handle = "wild" /\ Evictable(task[t].piece) # {}
  /\ fault' = "handle"
  /\ UNCHANGED <<shared, pc, locals>>

FindAll(t) ==
  /\ At(t, "findall")
  /\ FindLastBuffer(t, FALSE, "loop")

(* A fault: reset leaves the contents of a buffer.                         *)
KeepsContents(b) == data

(* memory_buffer::reset fills the buffer with zeros.                       *)
Emptied(b) == [data EXCEPT ![b] = Unstored]

(* remove_piece.  Who holds no lock sees the buffer empty while the piece  *)
(* still has its index and its size.                                       *)
ResetBuffer(t) ==
  /\ At(t, "remove")
  /\ data' = Emptied(buf[t])
  /\ Goto(t, "reset")
  /\ UNCHANGED <<poolVars, size, recent, lockVars, is_reading, clientVars, locals, fault>>

(* The rest is one step: whoever finds the index gone waits for m_mutex    *)
(* before he looks at the size (or has left the array).                    *)
ResetPiece(t) ==
  LET b == buf[t]
  IN  /\ At(t, "reset")
      /\ Unbind(b)
      /\ size' = [size EXCEPT ![pi[b]] = 0]
      /\ RestorePiece(pi[b])
      /\ buf' = [buf EXCEPT ![t] = NoBuffer]
      /\ Goto(t, "loop")
      /\ UNCHANGED <<data, recent, task, n, lockVars, is_reading, m_handle, reader_pieces>>

-----------------------------------------------------------------------------
(* The client.                                                             *)
SetTorrentHandle(h) ==
  /\ m_handle' = h
  /\ UNCHANGED <<storeVars, lockVars, is_reading, wanted, reader_pieces, pc, locals, fault>>

SetPiecePriority(p) ==
  /\ m_handle = "set"
  /\ wanted' \in {wanted \cup {p}, wanted \ {p}}
  /\ UNCHANGED <<storeVars, lockVars, is_reading, m_handle, reader_pieces, pc, locals, fault>>

UpdateReaderPieces(S) ==
  /\ ~r_mutex
  /\ reader_pieces' = S
  /\ UNCHANGED <<storeVars, lockVars, is_reading, m_handle, wanted, pc, locals, fault>>

(* update_reserved_pieces clears the set before it fills it.               *)
ReserveBegin(S) ==
  /\ ~r_mutex /\ buffer_limit > MinLimit
  /\ r_mutex' = TRUE
  /\ pending' = S
  /\ SetReserved({})
  /\ UNCHANGED <<size, data, recent, m_mutex, is_reading, clientVars, pc, locals, fault>>

ReserveEnd ==
  /\ r_mutex
  /\ r_mutex' = FALSE
  /\ pending' = {}
  /\ SetReserved(pending)
  /\ UNCHANGED <<size, data, recent, m_mutex, is_reading, clientVars, pc, locals, fault>>

SetMemorySize(s) ==
  /\ s > capacity
  /\ m_mutex = NoThread
  /\ Resize(s)
  /\ data' = [b \in DOMAIN pi' |-> IF b \in Buffers THEN data[b] ELSE Unstored]
  /\ UNCHANGED <<size, recent, lockVars, is_reading, clientVars, pc, locals, fault>>

-----------------------------------------------------------------------------
Trimming(t) ==
  \/ Loop(t) \/ Scan(t) \/ Find(t) \/ FindFault(t) \/ ScanAll(t) \/ FindAll(t)
  \/ ResetBuffer(t) \/ ResetPiece(t)

Step(t) ==
  \/ Get(t) \/ Recheck(t) \/ ReadMiss(t)
  \/ WriteFault(t) \/ WriteUnwanted(t) \/ WriteAssign(t) \/ WriteNoBuffer(t)
  \/ Gate(t) \/ Restore(t) \/ OutOfBounds(t) \/ Addr(t) \/ CopyOut(t) \/ CopyIn(t)
  \/ LoadSize(t) \/ StoreSize(t) \/ Stamp(t)
  \/ Check(t) \/ TrimLock(t) \/ Trimming(t)

Start(t) ==
  \E p \in Pieces :
    StartRead(t, p) \/ StartReadv(t, p) \/ \E k \in Blocks : StartWritev(t, p, k)

Client ==
  \/ \E h \in Handles : SetTorrentHandle(h)
  \/ \E p \in Pieces : SetPiecePriority(p)
  \/ \E S \in ReaderSets : UpdateReaderPieces(S)
  \/ \E S \in ReserveSets : ReserveBegin(S)
  \/ ReserveEnd
  \/ \E s \in Capacities : SetMemorySize(s)

Next == fault = "none" /\ ((\E t \in Threads : Start(t) \/ Step(t)) \/ Client)

Spec == Init /\ [][Next]_vars

(* A thread in a call runs on.  A mutex that is released again and again   *)
(* is got by a thread that waits for it.  And time goes on: of the scans   *)
(* that trim makes some begin later than every stamp so far.               *)
ClockGoesOn(t) == SF_vars(fault = "none" /\ ScanAll(t) /\ recent' = {})

Fairness ==
  /\ WF_vars(fault = "none" /\ ReserveEnd)
  /\ \A t \in Threads : SF_vars(fault = "none" /\ Step(t))
  /\ \A t \in DiskThreads : ClockGoesOn(t)

FairSpec == Spec /\ Fairness

-----------------------------------------------------------------------------
(* The buffer buf[t] is about to be removed.                               *)
Chosen(t)  == pc[t] \in {"remove", "reset"}
InTrim(t)  == pc[t] \in {"loop", "scan", "find", "scanall", "findall"} \/ Chosen(t)
Writing(t) == task[t].op = "writev" /\ pc[t] \in {"addr", "copy", "load", "store", "stamp"}

(* Types, and who holds m_mutex.                                           *)
StorageTypeOK ==
  /\ PoolTypeOK
  /\ size \in [Pieces -> Nat]
  /\ data \in [Buffers -> [Blocks -> Pieces \cup {NoPiece}]]
  /\ recent \subseteq Buffers /\ (recent # {} => Scanning)
  /\ \A t \in Threads : m_mutex = t <=> InTrim(t)
  /\ m_mutex \in Threads \cup {NoThread}
  /\ r_mutex \in BOOLEAN /\ is_reading \in BOOLEAN
  /\ m_handle \in {"null", "wild", "set"}
  /\ pending \subseteq Pieces /\ wanted \subseteq Pieces /\ reader_pieces \subseteq Pieces
  /\ pc \in [Threads -> Labels] /\ task \in [Threads -> Task]
  /\ buf \in [Threads -> Nat \cup {NoBuffer}] /\ n \in [Threads -> Nat]
  /\ fault \in {"none", "handle", "index"}

(* trim chooses a buffer, and asks the session for priorities on the way,  *)
(* before remove_piece frees it: the victim is bound all the while, and    *)
(* never to the piece whose write caused the trim.                         *)
VictimStaysBound ==
  \A t \in Threads : Chosen(t) =>
    buf[t] \in UsedBuffers /\ pi[buf[t]] # task[t].piece

(* Between get_buffer and the stamp no lock is held.  The call keeps the   *)
(* buffer of its piece, and copies from or to that one, until a trim takes *)
(* it: the trim of another thread, in the write of another piece, which    *)
(* chose that buffer.  So two writes in parallel to one piece never take   *)
(* its buffer from each other (get_buffer: "Once again checking in case we *)
(* had multiple writes in parallel").                                      *)
Using(t) == pc[t] \in {"gate", "addr", "copy", "load", "store", "stamp"}

Keeps(t) ==
  /\ IsBuffered(task[t].piece)
  /\ At(t, "copy") => buf[t] = bi[task[t].piece]

TakenBy(u, t) ==
  /\ At(u, "reset")
  /\ pi[buf[u]] = task[t].piece
  /\ task[u].piece # task[t].piece

OnlyTrimTakes ==
  [][\A t \in Threads :
       (Using(t) /\ ~Keeps(t))' =>
         Using(t) /\ (Keeps(t) => \E u \in Threads \ {t} : TakenBy(u, t))]_vars

(* To who looks at its contents alone the storage is a PieceStore: no      *)
(* block of a piece is overwritten or lost by what is done to another one, *)
(* no buffer comes with something in it, and blocks go with their piece.   *)
Present(p) == {k \in Blocks : data[bi[p]][k] = p}

(* The piece of a buffer that is already empty counts as gone.             *)
Going  == {pi[buf[t]] : t \in {u \in Threads : At(u, "reset")}}
Bound  == {p \in Pieces : IsBuffered(p)} \ Going
Stored == [p \in Pieces |-> IF p \in Bound THEN Present(p) ELSE {}]

Store == INSTANCE PieceStore WITH bound <- Bound, stored <- Stored, room <- buffer_size

IsStore == Store!StoreSpec

(* The trim at the end of every writev leaves a free buffer for the next   *)
(* one: no block is refused for want of memory.                            *)
RoomForWrite == \A t \in Threads : Allocates(t) => FreeBuffers # {}

(* A piece with all its blocks in memory is one read serves: the size that *)
(* writev adds up is enough once no write to the piece is under way.       *)
CompleteIsReadable ==
  \A p \in Pieces :
    (/\ IsBuffered(p)
     /\ \A k \in Blocks : data[bi[p]][k] = p
     /\ \A t \in Threads : task[t].piece = p => ~Writing(t))
    => size[p] >= length

(* The bytes a call copies from or to are those of its own piece, however  *)
(* trim interferes (get_buffer: "to make sure we are not affected by       *)
(* write/read at the same time").                                          *)
CopySafe ==
  \A t \in Threads : At(t, "copy") => pi[buf[t]] = task[t].piece

(* A storage nobody gave a handle behaves as one without ("no handle").    *)
HandleTested == fault # "handle"

(* A trim that has nothing to evict.                                       *)
Wedged(t) == InTrim(t) /\ Evictable(task[t].piece) = {}

(* For trim to hold m_mutex with nothing to evict it takes reservations:   *)
(* with the piece being written, they are as many as there are buffers.    *)
(* (Where there is a single buffer that piece alone is enough.)            *)
WedgedIfReserved ==
  \A t \in Threads : Wedged(t) /\ NeedsTrim =>
    Cardinality(reserved_pieces \cup {task[t].piece}) >= buffer_size

(* It does not get out of there by itself, nor by anything another thread  *)
(* does: only a piece that is no longer reserved ends its loop.            *)
Stuck(t) == Wedged(t) /\ NeedsTrim /\ ~Chosen(t)

StaysWedged ==
  [][\A t \in Threads :
       Stuck(t) /\ reserved_pieces \subseteq reserved_pieces' => Stuck(t)']_vars

(* A piece the client keeps reserved keeps its buffer, although            *)
(* update_reserved_pieces empties the set before it fills it again, and    *)
(* although trim tests the set and removes the piece in two steps, unless  *)
(* it was already chosen when it was reserved (get_buffer: "permanent      *)
(* buffer entry").                                                         *)
Spared(p) ==
  /\ IsBuffered(p)
  /\ p \in reserved_pieces \cup pending
  /\ \A t \in Threads : Chosen(t) => pi[buf[t]] # p

ReservedStays ==
  [][\A p \in Pieces :
       Spared(p) /\ p \in (reserved_pieces \cup pending)'
         => Spared(p)' /\ bi'[p] = bi[p]]_vars

(* As long as somebody is in a call somebody runs: nobody waits for        *)
(* m_mutex but behind a thread that goes on, although trim takes r_mutex   *)
(* while it holds m_mutex.  update_reserved_pieces, which may hold r_mutex,*)
(* waits for nothing.                                                      *)
Blocked(t) ==
  \/ pc[t] \in {"lock", "trim"} /\ m_mutex # NoThread
  \/ pc[t] \in {"find", "findall"} /\ r_mutex

DeadlockFree ==
  (\E t \in Threads : ~At(t, "idle")) =>
    r_mutex \/ \E t \in Threads : ~At(t, "idle") /\ ~Blocked(t)

(* The while loop of trim ends, and m_mutex with it, unless again and      *)
(* again all that is in memory is reserved or being written, or is stamped *)
(* by another thread, which takes no lock for that.                        *)
TrimEnds ==
  \A t \in DiskThreads :
    \/ At(t, "loop") ~> (At(t, "idle") \/ fault # "none")
    \/ []<>Wedged(t)
    \/ []<><<\E u \in Threads \ {t} : Stamp(u)>>_vars

(* Every call returns: nobody waits for m_mutex or r_mutex for ever,       *)
(* except behind a trim that does not end.                                 *)
CallsReturn ==
  \A t \in Threads :
    \/ ~At(t, "idle") ~> (At(t, "idle") \/ fault # "none")
    \/ \E u \in DiskThreads : <>[]InTrim(u)
=============================================================================
