-------------------------- MODULE SingleWriter_proofs --------------------------
(***************************************************************************)
(* What holds of memory_storage when one disk thread does all the work, or *)
(* when trim is off, for any number of players, pieces, blocks and         *)
(* buffers: a disk thread keeps its buffer although it holds no lock,      *)
(* sizes add up, in a pool nobody resizes every write finds a free buffer, *)
(* and the storage is a store of pieces that do not touch each other.      *)
(***************************************************************************)
EXTENDS MemoryStorage_proofs

SingleWriter == \A t, u \in DiskThreads : t = u

(* A negative memory size turns trim off.                                  *)
NeverTrims == \A c \in Capacities : c < 0

(* No disk thread loses its buffer to another one's trim.                  *)
Undisturbed == SingleWriter \/ NeverTrims

(* Only a disk thread writes, only a write gets as far as trim, and only a *)
(* player compares sizes.                                                  *)
Roles ==
  \A t \in Threads :
    /\ task[t].op = "writev" => t \in DiskThreads /\ task[t].block \in Blocks
    /\ task[t].op = "read" => t \in Readers
    /\ pc[t] \in {"load", "store", "check", "trim"} \/ InTrim(t) => task[t].op = "writev"
    /\ pc[t] = "gate" => task[t].op = "read"

-----------------------------------------------------------------------------
(* A step moves one thread.                                                *)
Moves(t) ==
  \A u \in Threads \ {t} :
    pc'[u] = pc[u] /\ task'[u] = task[u] /\ buf'[u] = buf[u] /\ n'[u] = n[u]

LEMMA StepMoves ==
  ASSUME TInv, NEW t \in Threads, Step(t) \/ Start(t)
  PROVE  Moves(t)
<1> USE DEF TInv, IInv, LockInv, TaskTypes, Loose
<1>1. CASE Return(t)
  BY <1>1 DEF Return, Goto, Moves
<1>2. CASE Start(t)
  BY <1>2 DEF Start, StartRead, StartReadv, StartWritev, Call, Goto, Moves
<1>3. CASE ~Return(t) /\ (Unlocked(t) \/ WriteAssign(t))
  BY <1>3
     DEF Unlocked, Get, Recheck, ReadMiss, WriteFault, WriteUnwanted, WriteAssign,
         WriteNoBuffer, Gate, Restore, OutOfBounds, Addr, CopyOut, CopyIn, LoadSize,
         StoreSize, Stamp, Check, Granted, Goto, locals, Moves
<1>4. CASE ~Return(t) /\ (Searching(t) \/ ResetPiece(t))
  BY <1>4
     DEF Searching, TrimLock, Loop, Scan, ScanAll, ReadClock, Find, FindFault, FindAll,
         FindLastBuffer, ResetBuffer, ResetPiece, Goto, locals, Moves
<1> QED
  BY <1>1, <1>2, <1>3, <1>4 DEF Step, Unlocked, Trimming, Searching

(* Where a step can lead a thread.                                         *)
LEMMA RolesKept ==
  ASSUME TInv, Roles, NEW t \in Threads, Step(t) \/ Start(t)
  PROVE  Roles'
<1> USE DEF TInv, IInv, LockInv, TaskTypes
<1> DEFINE Late == {"load", "store", "check", "trim"} \cup TrimLabels
<1>1. /\ task'[t].op = "writev" => t \in DiskThreads /\ task'[t].block \in Blocks
      /\ task'[t].op = "read" => t \in Readers
      /\ pc'[t] \in Late => task'[t].op = "writev"
      /\ pc'[t] = "gate" => task'[t].op = "read"
  <2>1. CASE Return(t)
    BY <2>1 DEF Return, Goto, NoTask, TrimLabels
  <2>2. CASE Start(t)
    BY <2>2, ThreadAssumption
       DEF Start, StartRead, StartReadv, StartWritev, Call, Goto, Threads, TrimLabels
  <2>3. CASE ~Return(t) /\ (Unlocked(t) \/ WriteAssign(t))
    BY <2>3
       DEF Unlocked, Get, Recheck, ReadMiss, WriteFault, WriteUnwanted, WriteAssign,
           WriteNoBuffer, Gate, Restore, OutOfBounds, Addr, CopyOut, CopyIn, LoadSize,
           StoreSize, Stamp, Check, Granted, Goto, locals, At, Roles, InTrim, Chosen,
           TrimLabels
  <2>4. CASE ~Return(t) /\ (Searching(t) \/ ResetPiece(t))
    BY <2>4
       DEF Searching, TrimLock, Loop, Scan, ScanAll, ReadClock, Find, FindFault, FindAll,
           FindLastBuffer, ResetBuffer, ResetPiece, Goto, locals, At, Roles, InTrim, Chosen,
           TrimLabels
  <2> QED
    BY <2>1, <2>2, <2>3, <2>4 DEF Step, Unlocked, Trimming, Searching
<1> QED
  BY <1>1, StepMoves DEF Moves, Roles, InTrim, Chosen, TrimLabels

LEMMA RolesInvariance == Spec => [](TInv /\ Roles)
<1>1. Init => TInv /\ Roles
  BY InitTypes DEF Init, Roles, NoTask, InTrim, Chosen
<1>2. TInv /\ Roles /\ [Next]_vars => (TInv /\ Roles)'
  <2> SUFFICES ASSUME TInv, Roles, [Next]_vars
               PROVE  TInv' /\ Roles'
    OBVIOUS
  <2>1. UNCHANGED <<pc, task>> => Roles'
    BY DEF Roles, InTrim, Chosen
  <2>2. Client \/ UNCHANGED vars => UNCHANGED <<pc, task>>
    BY DEF Client, SetTorrentHandle, SetPiecePriority, UpdateReaderPieces, ReserveBegin,
           ReserveEnd, SetMemorySize, vars, locals
  <2> QED
    BY <2>1, <2>2, NextTypes, RolesKept DEF Next
<1> QED
  BY <1>1, <1>2, PTL DEF Spec

-----------------------------------------------------------------------------
(* A call keeps its buffer from get_buffer to its stamp.                   *)
Held(t) == Using(t) => Keeps(t)

DiskKeepsBuffer == \A t \in DiskThreads : Held(t)

(* No trim takes a buffer from t.                                          *)
Steady(t) == NeverTrims \/ (SingleWriter /\ t \in DiskThreads)

(* A player changes neither the pool nor what is in it.                    *)
LEMMA ReadersLeave ==
  ASSUME Roles, NEW t \in Threads \ DiskThreads, Step(t) \/ Start(t)
  PROVE  UNCHANGED <<buffer_size, pi, bi, size, data>>
<1>1. ~WriteAssign(t) /\ ~ResetBuffer(t) /\ ~ResetPiece(t) /\ ~CopyIn(t) /\ ~StoreSize(t)
  BY DEF Roles, InTrim, Chosen, WriteAssign, Allocates, WriteMiss, ResetBuffer, ResetPiece,
         CopyIn, StoreSize, At
<1> QED
  BY <1>1, StepWrites

LEMMA ClientLeaves ==
  ASSUME TInv, Client \/ UNCHANGED vars
  PROVE  /\ UNCHANGED <<bi, size, pc, locals>>
         /\ (\E s \in Capacities : SetMemorySize(s)) \/ UNCHANGED <<buffer_size, pi, data>>
BY DEF Client, SetTorrentHandle, SetPiecePriority, UpdateReaderPieces, ReserveBegin,
       ReserveEnd, SetReserved, SetMemorySize, Resize, vars, shared, storeVars, poolVars

LEMMA TrimOff ==
  ASSUME NeverTrims, TInv, capacity \in Capacities, NEW t \in Threads
  PROVE  ~InTrim(t)
BY SizesAreInt DEF NeverTrims, TInv, IInv, LockInv, Cause

(* Another thread does not take the buffer of a steady one.                *)
LEMMA SteadyHeld ==
  ASSUME TInv, Roles, capacity \in Capacities, NEW u \in Threads, Steady(u), Held(u),
         [Next]_vars
  PROVE  Held(u)'
<1>1. CASE Client \/ UNCHANGED vars
  BY <1>1, ClientLeaves DEF Held, Keeps, Using, At, IsBuffered, locals
<1>2. ASSUME NEW t \in Threads, Step(t) \/ Start(t)
      PROVE  Held(u)'
  <2>1. CASE u = t
    BY <1>2, <2>1, OwnStepKeeps DEF Held, TInv
  <2>2. CASE u # t
    <3>1. pc'[u] = pc[u]
      BY <1>2, <2>2, StepMoves DEF Moves
    <3>2. ~TakenBy(t, u)
      <4>1. TakenBy(t, u) => InTrim(t) /\ t \in DiskThreads
        BY DEF TakenBy, At, InTrim, Chosen, Roles
      <4> QED
        BY <2>2, <4>1, TrimOff DEF Steady, SingleWriter
    <3> QED
      BY <1>2, <2>2, <3>1, <3>2, OtherStepKeeps DEF Held, Using, TInv
  <2> QED
    BY <2>1, <2>2
<1> QED
  BY <1>1, <1>2 DEF Next

(* With a single disk thread, or with trim off, a call of a disk thread    *)
(* has the same buffer from get_buffer to its stamp, whatever the players  *)
(* and the client do.                                                      *)
LEMMA DiskThreadKeepsBuffer ==
  ASSUME Undisturbed
  PROVE  Spec => []DiskKeepsBuffer
<1>1. Init => DiskKeepsBuffer
  BY DEF Init, DiskKeepsBuffer, Held, Using, Threads
<1>2. /\ TInv /\ Roles /\ capacity \in Capacities
      /\ DiskKeepsBuffer /\ [Next]_vars
      => DiskKeepsBuffer'
  BY SteadyHeld DEF DiskKeepsBuffer, Undisturbed, Steady, Threads
<1> QED
  BY <1>1, <1>2, RolesInvariance, CapacityAsked, PTL DEF Spec

(* Only the address of a byte takes -1 for an index.                       *)
LEMMA WhoMisses ==
  ASSUME NEW t \in Threads, Step(t) \/ Start(t), fault' = "index"
  PROVE  fault = "index" \/ OutOfBounds(t)
BY DEF Step, Trimming, Start, StartRead, StartReadv, StartWritev, Call, Get, Recheck,
       ReadMiss, WriteFault, WriteUnwanted, WriteAssign, WriteNoBuffer, Gate, Restore, Addr,
       CopyOut, CopyIn, LoadSize, StoreSize, Stamp, Check, TrimLock, Loop, Scan, ScanAll,
       ReadClock, Find, FindFault, FindAll, FindLastBuffer, ResetBuffer, ResetPiece,
       RestorePiece, shared

(* With trim off the players keep their buffers too, so that every byte a  *)
(* call copies is of its own piece, and no index is -1: what goes wrong in *)
(* readv and read goes wrong by trim alone.                                *)
THEOREM UntrimmedCopiesAreSafe ==
  ASSUME NeverTrims
  PROVE  Spec => [](CopySafe /\ fault # "index")
<1> DEFINE K == (\A u \in Threads : Held(u)) /\ fault # "index"
<1>1. Init => K
  BY DEF Init, Held, Using
<1>2. TInv /\ Roles /\ capacity \in Capacities /\ K /\ [Next]_vars => K'
  <2> SUFFICES ASSUME TInv, Roles, capacity \in Capacities, K, [Next]_vars
               PROVE  (\A u \in Threads : Held(u)') /\ fault' # "index"
    OBVIOUS
  <2>1. \A u \in Threads : Held(u)'
    BY SteadyHeld DEF Steady
  <2>2. ASSUME Client \/ UNCHANGED vars
        PROVE  fault' # "index"
    BY <2>2 DEF Client, SetTorrentHandle, SetPiecePriority, UpdateReaderPieces, ReserveBegin,
                ReserveEnd, SetMemorySize, vars
  <2>3. ASSUME NEW t \in Threads, Step(t) \/ Start(t)
        PROVE  fault' # "index"
    BY <2>3, WhoMisses DEF OutOfBounds, Held, Keeps, Using
  <2> QED
    BY <2>1, <2>2, <2>3 DEF Next
<1>3. TInv /\ K => CopySafe /\ fault # "index"
  <2> SUFFICES ASSUME TInv, K, NEW t \in Threads, At(t, "copy")
               PROVE  pi[buf[t]] = task[t].piece
    BY DEF CopySafe
  <2>1. IsBuffered(task[t].piece) /\ buf[t] = bi[task[t].piece]
    BY DEF Held, Keeps, Using, At
  <2> QED
    BY <2>1 DEF TInv, IInv, LockInv, TaskTypes, At, PoolInv, Mapping
<1> QED
  BY <1>1, <1>2, <1>3, RolesInvariance, CapacityAsked, PTL DEF Spec

-----------------------------------------------------------------------------
(* A write to p that has copied its block and not yet stored the size.     *)
Storing(t) == task[t].op = "writev" /\ pc[t] \in {"load", "store"}

Due(p) == IF \E t \in Threads : Storing(t) /\ task[t].piece = p THEN 1 ELSE 0

(* Every block that is there was counted or is about to be, no count is    *)
(* lost between its load and its store, and a free buffer holds nothing,   *)
(* nor does one that is about to be free.                                  *)
Counted == \A p \in Pieces : IsBuffered(p) => size[p] + Due(p) >= Cardinality(Present(p))
Loaded  == \A t \in Threads : pc[t] = "store" => n[t] = size[task[t].piece]

Blank(b) == \A k \in Blocks : data[b][k] = NoPiece

Cleared ==
  /\ \A b \in FreeBuffers : Blank(b)
  /\ \A t \in Threads : At(t, "reset") => Blank(buf[t])

Sized == Counted /\ Loaded /\ Cleared

LEMMA PresentFinite ==
  ASSUME NEW p
  PROVE  IsFiniteSet(Present(p)) /\ Cardinality(Present(p)) \in Nat
<1>1. Present(p) \in SUBSET Blocks
  BY DEF Present
<1> QED
  BY <1>1, ThreadAssumption, FS_Subset, FS_CardinalityType

(* A single writer is the only one that can be storing.                    *)
LEMMA OneStores ==
  ASSUME SingleWriter, Roles, NEW t \in Threads, t \in DiskThreads
  PROVE  \A p : Due(p) = IF Storing(t) /\ task[t].piece = p THEN 1 ELSE 0
BY DEF SingleWriter, Roles, Due, Storing

(* A step that neither copies nor stores nor evicts leaves the account as  *)
(* it is, or empties a buffer, which owes nothing then.                    *)
LEMMA CountedStays ==
  ASSUME TInv, Counted, UNCHANGED <<size, bi>>,
         UNCHANGED data \/ \E b \in Buffers : data' = Emptied(b),
         \A p \in Pieces : Due(p)' >= Due(p)
  PROVE  Counted'
<1> SUFFICES ASSUME NEW p \in Pieces, IsBuffered(p)'
             PROVE  size'[p] + Due(p)' >= Cardinality(Present(p))'
  BY DEF Counted
<1>1. Present(p)' \subseteq Present(p) /\ IsBuffered(p)
  <2>1. IsBuffered(p) /\ bi'[p] = bi[p] /\ bi[p] \in Buffers
    BY DEF IsBuffered, TInv, IInv, PoolInv, PoolTypeOK
  <2>2. \A k \in Blocks : data'[bi[p]][k] = p => data[bi[p]][k] = p
    BY <2>1, PoolAssumption DEF Emptied, Unstored, TInv, Loose
  <2> QED
    BY <2>1, <2>2 DEF Present
<1>2. Cardinality(Present(p))' <= Cardinality(Present(p))
  BY <1>1, PresentFinite, FS_Subset
<1>3. Cardinality(Present(p))' \in Nat /\ Cardinality(Present(p)) \in Nat
  BY <1>1, PresentFinite, FS_Subset, FS_CardinalityType
<1>4. size'[p] = size[p] /\ size[p] \in Nat /\ Due(p) \in Nat /\ Due(p)' \in Nat
  BY DEF TInv, Loose, Due
<1>5. size[p] + Due(p) >= Cardinality(Present(p))
  BY <1>1 DEF Counted
<1> QED
  BY <1>2, <1>3, <1>4, <1>5

(* CopyIn adds one block at most to the piece it writes, and none to any   *)
(* other, since the buffer is that piece's.                                *)
LEMMA CopyInCounted ==
  ASSUME SingleWriter, TInv, Roles, Roles', DiskKeepsBuffer, Counted,
         NEW t \in Threads, CopyIn(t)
  PROVE  Counted'
<1> DEFINE q == task[t].piece  k == task[t].block
<1>1. /\ q \in Pieces /\ t \in DiskThreads /\ Writing(t) /\ pc[t] = "copy"
      /\ pc'[t] = "load" /\ task'[t] = task[t]
  BY DEF CopyIn, At, Goto, Writing, Roles, locals, TInv, IInv, LockInv, TaskTypes
<1>2. bi[q] # NoBuffer /\ buf[t] = bi[q] /\ UNCHANGED <<bi, pi, size>>
  BY <1>1 DEF DiskKeepsBuffer, Held, Keeps, Using, At, IsBuffered, CopyIn, poolVars
<1>3. data' = [data EXCEPT ![bi[q]][k] = q]
  BY <1>2 DEF CopyIn
<1>4. \A p \in Pieces : Due(p) = 0 /\ Due(p)' = IF p = q THEN 1 ELSE 0
  <2>1. ~Storing(t) /\ Storing(t)' /\ task'[t].piece = q
    BY <1>1 DEF Storing, Writing
  <2>2. \A p : Due(p) = 0
    BY <1>1, <2>1, OneStores
  <2>3. \A p : Due(p)' = IF Storing(t)' /\ task'[t].piece = p THEN 1 ELSE 0
    BY <1>1 DEF SingleWriter, Roles, Due, Storing
  <2> QED
    BY <2>1, <2>2, <2>3
<1> SUFFICES ASSUME NEW p \in Pieces, IsBuffered(p)'
             PROVE  size'[p] + Due(p)' >= Cardinality(Present(p))'
  BY DEF Counted
<1>5. /\ size[p] \in Nat /\ Cardinality(Present(p)) \in Nat
      /\ size[p] + Due(p) >= Cardinality(Present(p))
  BY <1>2, PresentFinite DEF TInv, Loose, Counted, IsBuffered
<1>6. CASE p = q
  <2>1. Present(p)' \subseteq Present(p) \cup {k}
    BY <1>2, <1>3, <1>6 DEF Present, TInv, Loose
  <2>2. IsFiniteSet(Present(p)) /\ IsFiniteSet(Present(p) \cup {k})
    BY PresentFinite, FS_AddElement
  <2>3. Cardinality(Present(p) \cup {k}) \in
          {Cardinality(Present(p)), Cardinality(Present(p)) + 1}
    BY <2>2, FS_AddElement
  <2>4. Cardinality(Present(p))' <= Cardinality(Present(p) \cup {k})
    BY <2>1, <2>2, FS_Subset
  <2>5. Cardinality(Present(p))' \in Nat
    BY <2>1, <2>2, FS_Subset, FS_CardinalityType
  <2>6. size'[p] = size[p] /\ Due(p) = 0 /\ Due(p)' = 1
    BY <1>2, <1>4, <1>6
  <2> QED
    BY <1>5, <2>3, <2>4, <2>5, <2>6
<1>7. CASE p # q
  <2>1. bi[p] \in Buffers /\ bi[q] \in Buffers /\ bi[p] # bi[q]
    BY <1>1, <1>2, <1>7 DEF TInv, IInv, PoolInv, PoolTypeOK, Mapping, IsBuffered
  <2>2. Present(p)' = Present(p)
    BY <1>2, <1>3, <2>1 DEF Present, TInv, Loose
  <2> QED
    BY <1>2, <1>4, <1>5, <1>7, <2>2
<1> QED
  BY <1>6, <1>7

(* StoreSize pays what was due.                                            *)
LEMMA StoreCounted ==
  ASSUME SingleWriter, TInv, Roles, Roles', Sized, NEW t \in Threads, StoreSize(t)
  PROVE  Counted'
<1> DEFINE q == task[t].piece
<1>1. /\ q \in Pieces /\ t \in DiskThreads /\ Storing(t) /\ ~Storing(t)'
      /\ UNCHANGED <<bi, data>> /\ size' = [size EXCEPT ![q] = size[q] + 1]
  BY DEF StoreSize, At, Goto, Storing, Roles, poolVars, Sized, Loaded,
         TInv, IInv, LockInv, TaskTypes
<1>2. \A p : Due(p) = IF p = q THEN 1 ELSE 0
  BY <1>1, OneStores
<1>3. \A p : Due(p)' = 0
  BY <1>1 DEF SingleWriter, Roles, Due, Storing
<1> SUFFICES ASSUME NEW p \in Pieces, IsBuffered(p)'
             PROVE  size'[p] + Due(p)' >= Cardinality(Present(p))'
  BY DEF Counted
<1>4. Present(p)' = Present(p) /\ IsBuffered(p)
  BY <1>1 DEF Present, IsBuffered
<1>5. /\ size[p] \in Nat /\ Cardinality(Present(p)) \in Nat
      /\ size[p] + Due(p) >= Cardinality(Present(p))
  BY <1>4, PresentFinite DEF TInv, Loose, Sized, Counted
<1>6. size'[p] = size[p] + Due(p)
  BY <1>1, <1>2, <1>5 DEF TInv, Loose
<1> QED
  BY <1>2, <1>3, <1>4, <1>5, <1>6

(* remove_piece takes the buffer of one piece, and its size.               *)
LEMMA ResetPieceCounted ==
  ASSUME SingleWriter, TInv, Roles, Roles', Counted, NEW t \in Threads, ResetPiece(t)
  PROVE  Counted'
<1> DEFINE b == buf[t]
<1>1. b \in UsedBuffers /\ b \in Buffers /\ pi[b] \in Pieces /\ bi[pi[b]] = b
  BY DEF ResetPiece, At, Chosen, TInv, IInv, LockInv, VictimStaysBound, PoolInv, PoolTypeOK, Mapping,
         UsedBuffers
<1>2. /\ t \in DiskThreads /\ ~Storing(t)
      /\ bi' = [bi EXCEPT ![pi[b]] = NoBuffer]
      /\ UNCHANGED data /\ size' = [size EXCEPT ![pi[b]] = 0]
  BY DEF ResetPiece, Unbind, At, Roles, InTrim, Chosen, Storing
<1> SUFFICES ASSUME NEW p \in Pieces, IsBuffered(p)'
             PROVE  size'[p] + Due(p)' >= Cardinality(Present(p))'
  BY DEF Counted
<1>3. p # pi[b] /\ bi'[p] = bi[p] /\ IsBuffered(p)
  BY <1>1, <1>2 DEF IsBuffered, TInv, IInv, PoolInv, PoolTypeOK
<1>4. bi[p] \in Buffers /\ bi[p] # b /\ size'[p] = size[p]
  BY <1>1, <1>2, <1>3 DEF IsBuffered, TInv, IInv, PoolInv, PoolTypeOK, Mapping, Loose
<1>5. Present(p)' = Present(p)
  BY <1>2, <1>3, <1>4 DEF Present, TInv, Loose
<1>6. /\ size[p] \in Nat /\ Cardinality(Present(p)) \in Nat
      /\ size[p] + Due(p) >= Cardinality(Present(p))
  BY <1>3, PresentFinite DEF TInv, Loose, Counted
<1>7. Due(p) = 0 /\ Due(p)' \in {0, 1}
  BY <1>2, OneStores DEF Due
<1> QED
  BY <1>4, <1>5, <1>6, <1>7

(* The piece that get_buffer binds has nothing in its buffer yet.          *)
LEMMA AssignCounted ==
  ASSUME SingleWriter, TInv, Roles, Roles', Counted, Cleared,
         NEW t \in Threads, WriteAssign(t)
  PROVE  Counted'
<1> DEFINE r == task[t].piece
<1>1. r \in Pieces /\ t \in DiskThreads /\ ~Storing(t) /\ UNCHANGED <<size, data>>
  BY WriteAssignAllocates
     DEF WriteAssign, Allocates, WriteMiss, Lock, At, Roles, Storing, TInv
<1>2. PICK b \in FreeBuffers : bi' = [bi EXCEPT ![r] = b]
  BY DEF WriteAssign, Assign
<1> SUFFICES ASSUME NEW p \in Pieces, IsBuffered(p)'
             PROVE  size'[p] + Due(p)' >= Cardinality(Present(p))'
  BY DEF Counted
<1>3. Due(p) = 0 /\ Due(p)' \in {0, 1} /\ size'[p] = size[p] /\ size[p] \in Nat
  BY <1>1, OneStores DEF Due, TInv, Loose
<1>4. CASE p = r
  <2>1. bi'[p] = b
    BY <1>1, <1>2, <1>4 DEF TInv, IInv, PoolInv, PoolTypeOK
  <2>2. Present(p)' = {}
    BY <1>1, <2>1, PoolAssumption DEF Present, Cleared, Blank
  <2>3. Cardinality(Present(p))' = 0
    BY <2>2, FS_EmptySet
  <2> QED
    BY <1>3, <2>3
<1>5. CASE p # r
  <2>1. bi'[p] = bi[p]
    BY <1>2, <1>5 DEF TInv, IInv, PoolInv, PoolTypeOK
  <2>2. Present(p)' = Present(p) /\ IsBuffered(p)
    BY <1>1, <2>1 DEF Present, IsBuffered
  <2>3. size[p] + Due(p) >= Cardinality(Present(p)) /\ Cardinality(Present(p)) \in Nat
    BY <2>2, PresentFinite DEF Counted
  <2> QED
    BY <1>3, <2>2, <2>3
<1> QED
  BY <1>4, <1>5

(* set_memory_size appends buffers with nothing in them.                   *)
LEMMA Growth ==
  ASSUME TInv, NEW s \in Capacities, SetMemorySize(s)
  PROVE  /\ UNCHANGED <<bi, size, pc, task, n>>
         /\ pi'   = [b \in Buffers' |-> IF b \in Buffers THEN pi[b] ELSE NoPiece]
         /\ data' = [b \in Buffers' |-> IF b \in Buffers THEN data[b] ELSE Unstored]
         /\ \A b \in Buffers : b \in Buffers'
         /\ buffer_size' \in Nat /\ buffer_size <= buffer_size'
<1>1. /\ UNCHANGED <<bi, size, pc, task, n>>
      /\ pi'   = [b \in Buffers' |-> IF b \in Buffers THEN pi[b] ELSE NoPiece]
      /\ data' = [b \in Buffers' |-> IF b \in Buffers THEN data[b] ELSE Unstored]
  BY DEF SetMemorySize, Resize, Buffers, locals
<1>2. /\ \A b \in Buffers : b \in Buffers'
      /\ buffer_size' \in Nat /\ buffer_size <= buffer_size'
  BY SetMemorySizeGrows, ResizeKeepsUsed DEF TInv, IInv, PoolInv
<1> QED
  BY <1>1, <1>2

LEMMA GrowthCleared ==
  ASSUME TInv, Cleared, NEW s \in Capacities, SetMemorySize(s)
  PROVE  Cleared'
<1>1. \A t \in Threads : ~At(t, "reset")'
  BY Growth, NobodyInTrim DEF TInv, IInv, SetMemorySize, InTrim, Chosen, At
<1> QED
  BY <1>1, Growth DEF Cleared, Blank, FreeBuffers, Unstored

LEMMA GrowthPresent ==
  ASSUME TInv, NEW s \in Capacities, SetMemorySize(s), NEW p \in Pieces
  PROVE  (IsBuffered(p)' <=> IsBuffered(p)) /\ (IsBuffered(p) => Present(p)' = Present(p))
<1>1. IsBuffered(p)' <=> IsBuffered(p)
  BY Growth DEF IsBuffered
<1>2. ASSUME IsBuffered(p)
      PROVE  Present(p)' = Present(p)
  <2>1. bi[p] \in Buffers
    BY <1>2 DEF IsBuffered, TInv, IInv, PoolInv, PoolTypeOK
  <2> QED
    BY <2>1, Growth DEF Present
<1> QED
  BY <1>1, <1>2

LEMMA GrowthSized ==
  ASSUME TInv, Sized, NEW s \in Capacities, SetMemorySize(s)
  PROVE  Sized'
<1>1. Loaded' /\ Cleared'
  BY Growth, GrowthCleared DEF Sized, Loaded
<1>2. \A p \in Pieces : Due(p)' = Due(p)
  BY Growth DEF Due, Storing
<1> QED
  BY <1>1, <1>2, Growth, GrowthPresent DEF Sized, Counted

LEMMA CountedKept ==
  ASSUME SingleWriter, TInv, Roles, Roles', DiskKeepsBuffer, Sized,
         NEW t \in Threads, Step(t) \/ Start(t)
  PROVE  Counted'
<1>1. CASE t \notin DiskThreads
  <2>1. UNCHANGED <<bi, size, data>>
    BY <1>1, ReadersLeave
  <2>2. ~Storing(t)
    BY <1>1 DEF Roles, Storing
  <2>3. \A u \in Threads \ {t} : Storing(u)' = Storing(u) /\ task'[u] = task[u]
    BY StepMoves DEF Moves, Storing
  <2>4. \A p \in Pieces : Due(p)' >= Due(p)
    BY <2>2, <2>3 DEF Due
  <2> QED
    BY <2>1, <2>4, CountedStays DEF Sized
<1>2. CASE t \in DiskThreads /\ ~(CopyIn(t) \/ StoreSize(t) \/ ResetPiece(t) \/ WriteAssign(t))
  <2>1. UNCHANGED <<bi, size>> /\ (UNCHANGED data \/ \E b \in Buffers : data' = Emptied(b))
    BY <1>2, StepWrites
       DEF ResetBuffer, At, Chosen, TInv, IInv, LockInv, VictimStaysBound, UsedBuffers
  <2>2. Storing(t) => Storing(t)' /\ task'[t] = task[t]
    BY <1>2
       DEF Storing, Start, StartRead, StartReadv, StartWritev, Call, Step, Trimming, Get,
           Recheck, ReadMiss, WriteFault, WriteUnwanted, WriteNoBuffer, Allocates, WriteMiss,
           Lock, Gate, Restore, OutOfBounds, Addr, CopyOut, LoadSize, Stamp, Check, TrimLock,
           Loop, Scan, ScanAll, Find, FindFault, FindAll, ResetBuffer, At, Goto, TInv, IInv,
           LockInv, TaskTypes
  <2>3. \A p : Due(p)' = IF Storing(t)' /\ task'[t].piece = p THEN 1 ELSE 0
    BY <1>2 DEF SingleWriter, Roles, Due, Storing
  <2>4. \A p \in Pieces : Due(p)' >= Due(p)
    BY <1>2, <2>2, <2>3, OneStores
  <2> QED
    BY <2>1, <2>4, CountedStays DEF Sized
<1> QED
  BY <1>1, <1>2, CopyInCounted, StoreCounted, ResetPieceCounted, AssignCounted DEF Sized

LEMMA LoadedKept ==
  ASSUME SingleWriter, TInv, Roles, Roles', Loaded, NEW t \in Threads, Step(t) \/ Start(t)
  PROVE  Loaded'
<1> SUFFICES ASSUME NEW u \in Threads, pc'[u] = "store"
             PROVE  n'[u] = size'[task'[u].piece]
  BY DEF Loaded
<1>1. CASE u # t
  <2>1. pc[u] = "store" /\ task'[u] = task[u] /\ n'[u] = n[u]
    BY <1>1, StepMoves DEF Moves
  <2>2. t \notin DiskThreads
    BY <1>1, <2>1 DEF SingleWriter, Roles
  <2> QED
    BY <2>1, <2>2, ReadersLeave DEF Loaded
<1>2. CASE u = t
  <2>1. LoadSize(t)
    BY <1>2
       DEF Start, StartRead, StartReadv, StartWritev, Call, Step, Trimming, Get,
           Recheck, ReadMiss, WriteFault, WriteUnwanted, WriteAssign, WriteNoBuffer, Allocates,
           WriteMiss, Lock, Gate, Restore, OutOfBounds, Addr, CopyIn, CopyOut, StoreSize, Stamp,
           Check, TrimLock, Loop, Scan, ScanAll, ReadClock, Find, FindFault, FindAll,
           FindLastBuffer, ResetBuffer, ResetPiece, Granted, Return, At, Goto, shared, TInv,
           IInv, LockInv, TaskTypes
  <2> QED
    BY <1>2, <2>1 DEF LoadSize, shared, storeVars, TInv, Loose
<1> QED
  BY <1>1, <1>2

(* Who is about to free a buffer has just emptied it.                      *)
LEMMA WhoResets ==
  ASSUME TInv, NEW t \in Threads, Step(t) \/ Start(t), At(t, "reset")'
  PROVE  ResetBuffer(t)
BY DEF Start, StartRead, StartReadv, StartWritev, Call, Step, Trimming, Get, Recheck,
       ReadMiss, WriteFault, WriteUnwanted, WriteAssign, WriteNoBuffer, Allocates, WriteMiss,
       Lock, Gate, Restore, OutOfBounds, Addr, CopyIn, CopyOut, LoadSize, StoreSize, Stamp,
       Check, TrimLock, Loop, Scan, ScanAll, ReadClock, Find, FindFault, FindAll,
       FindLastBuffer, ResetPiece, Granted, Return, At, Goto, TInv, IInv, LockInv, TaskTypes

(* Nobody copies while a trim is about to free a buffer.                   *)
LEMMA NobodyResets ==
  ASSUME Undisturbed, TInv, Roles, capacity \in Capacities, NEW t \in Threads, CopyIn(t)
  PROVE  \A u \in Threads : ~At(u, "reset")
<1>1. t \in DiskThreads /\ ~InTrim(t)
  BY DEF CopyIn, At, Roles, InTrim, Chosen
<1>2. \A u \in Threads : At(u, "reset") => InTrim(u) /\ u \in DiskThreads
  BY DEF At, InTrim, Chosen, Roles
<1> QED
  BY <1>1, <1>2, TrimOff DEF Undisturbed, SingleWriter

LEMMA ClearedKept ==
  ASSUME Undisturbed, TInv, Roles, capacity \in Capacities, DiskKeepsBuffer, Cleared,
         NEW t \in Threads, Step(t) \/ Start(t)
  PROVE  Cleared'
<1> USE DEF TInv, IInv, LockInv, PoolInv, PoolTypeOK
<1>1. Buffers' = Buffers
  BY StepWrites DEF Buffers
<1>2. CASE WriteAssign(t)
  <2>1. task[t].piece \in Pieces /\ UNCHANGED data
    BY <1>2, WriteAssignAllocates DEF WriteAssign
  <2>2. PICK b \in FreeBuffers : pi' = [pi EXCEPT ![b] = task[t].piece]
    BY <1>2 DEF WriteAssign, Assign
  <2>3. \A c \in FreeBuffers' : c \in FreeBuffers
    BY <1>1, <2>1, <2>2, PoolAssumption DEF FreeBuffers
  <2>4. \A u \in Threads : ~At(u, "reset")'
    <3>1. \A u \in Threads : ~InTrim(u) /\ (u # t => pc'[u] = pc[u])
      BY <1>2, NobodyInTrim, StepMoves DEF Moves, WriteAssign, Allocates, WriteMiss, Lock
    <3> QED
      BY <1>2, <3>1, WhoResets DEF InTrim, Chosen, At, ResetBuffer
  <2> QED
    BY <2>1, <2>3, <2>4 DEF Cleared, Blank
<1>3. CASE CopyIn(t)
  <2>1. /\ task[t].piece \in Pieces /\ IsBuffered(task[t].piece)
        /\ buf[t] = bi[task[t].piece]
    BY <1>3 DEF CopyIn, At, TaskTypes, Roles, DiskKeepsBuffer, Held, Keeps, Using
  <2>2. buf[t] \notin FreeBuffers
    BY <2>1, PoolAssumption DEF FreeBuffers, Mapping
  <2>3. UNCHANGED pi /\ data' = [data EXCEPT ![buf[t]][task[t].block] = task[t].piece]
    BY <1>3 DEF CopyIn, poolVars
  <2>4. \A u \in Threads : ~At(u, "reset")'
    BY <1>3, NobodyResets, StepMoves, WhoResets DEF Moves, At, CopyIn, ResetBuffer
  <2> QED
    BY <1>1, <2>2, <2>3, <2>4 DEF Cleared, Blank, FreeBuffers, Loose
<1>4. CASE ResetBuffer(t)
  <2>1. UNCHANGED <<pi, buf>> /\ data' = [data EXCEPT ![buf[t]] = Unstored] /\ buf[t] \in Buffers
    BY <1>4 DEF ResetBuffer, Emptied, poolVars, locals, At, Chosen, VictimStaysBound, UsedBuffers
  <2>2. \A u \in Threads \ {t} : ~At(u, "reset")'
    <3>1. \A u \in Threads \ {t} : ~InTrim(u) /\ pc'[u] = pc[u]
      BY <1>4, AloneInTrim, StepMoves DEF ResetBuffer, At, InTrim, Chosen, Moves
    <3> QED
      BY <3>1 DEF At, InTrim, Chosen
  <2> QED
    BY <1>1, <2>1, <2>2 DEF Cleared, Blank, FreeBuffers, Unstored, Loose
<1>5. CASE ResetPiece(t)
  <2>1. UNCHANGED data /\ pi' = [pi EXCEPT ![buf[t]] = NoPiece] /\ Blank(buf[t])
    BY <1>5 DEF ResetPiece, Unbind, Cleared
  <2>2. \A u \in Threads : ~At(u, "reset")'
    <3>1. \A u \in Threads \ {t} : ~InTrim(u) /\ pc'[u] = pc[u]
      BY <1>5, AloneInTrim, StepMoves DEF ResetPiece, At, InTrim, Chosen, Moves
    <3> QED
      BY <1>5, <3>1, WhoResets DEF At, InTrim, Chosen, ResetPiece, ResetBuffer
  <2> QED
    BY <1>1, <2>1, <2>2 DEF Cleared, Blank, FreeBuffers
<1>6. CASE ~WriteAssign(t) /\ ~CopyIn(t) /\ ~ResetBuffer(t) /\ ~ResetPiece(t)
  <2>1. UNCHANGED <<pi, data>>
    BY <1>6, StepWrites
  <2>2. \A u \in Threads : At(u, "reset")' => At(u, "reset") /\ buf'[u] = buf[u]
    BY <1>6, WhoResets, StepMoves DEF Moves, At
  <2> QED
    BY <1>1, <2>1, <2>2 DEF Cleared, Blank, FreeBuffers
<1> QED
  BY <1>2, <1>3, <1>4, <1>5, <1>6

LEMMA SizedKept ==
  ASSUME SingleWriter, TInv, Roles, Roles', capacity \in Capacities, DiskKeepsBuffer, Sized,
         [Next]_vars
  PROVE  Sized'
<1>1. ASSUME NEW t \in Threads, Step(t) \/ Start(t)
      PROVE  Sized'
  BY <1>1, CountedKept, LoadedKept, ClearedKept DEF Sized, Undisturbed
<1>2. CASE Client \/ UNCHANGED vars
  <2>1. CASE UNCHANGED <<buffer_size, pi, data>>
    <3>1. UNCHANGED <<bi, size, pc, task, buf, n, pi, data, FreeBuffers>>
      BY <1>2, <2>1, ClientLeaves DEF FreeBuffers, Buffers, locals
    <3>2. \A p \in Pieces : Due(p)' >= Due(p)
      BY <3>1 DEF Due, Storing
    <3> QED
      BY <3>1, <3>2, CountedStays DEF Sized, Loaded, Cleared, Blank, At
  <2> QED
    BY <1>2, <2>1, ClientLeaves, GrowthSized
<1> QED
  BY <1>1, <1>2 DEF Next

(* With a single disk thread the sizes add up, although size += n is not   *)
(* atomic: read never takes a complete piece for an incomplete one.        *)
THEOREM SingleWriterCompletes ==
  ASSUME SingleWriter
  PROVE  Spec => []CompleteIsReadable
<1> DEFINE J == TInv /\ Roles
<1>1. Init => Sized
  BY DEF Init, PoolInit, Sized, Counted, Loaded, Cleared, Blank, At, IsBuffered, FreeBuffers,
         Unstored
<1>2. J /\ J' /\ capacity \in Capacities /\ DiskKeepsBuffer /\ Sized /\ [Next]_vars => Sized'
  BY SizedKept
<1>3. J /\ Sized => CompleteIsReadable
  <2> SUFFICES ASSUME TInv, Sized, NEW p \in Pieces, IsBuffered(p),
                      \A k \in Blocks : data[bi[p]][k] = p,
                      \A t \in Threads : task[t].piece = p => ~Writing(t)
               PROVE  size[p] >= length
    BY DEF CompleteIsReadable
  <2>1. Present(p) = Blocks
    BY DEF Present
  <2>2. Due(p) = 0
    BY DEF Due, Storing, Writing
  <2>3. size[p] \in Nat /\ size[p] + Due(p) >= Cardinality(Present(p))
    BY DEF TInv, Loose, Sized, Counted
  <2> QED
    BY <2>1, <2>2, <2>3 DEF length
<1>4. Spec => []J
  BY RolesInvariance
<1>5. Spec => []DiskKeepsBuffer
  BY DiskThreadKeepsBuffer DEF Undisturbed
<1> HIDE DEF J
<1> QED
  BY <1>1, <1>2, <1>3, <1>4, <1>5, CapacityAsked, PTL DEF Spec

-----------------------------------------------------------------------------
LEMMA ClearedInvariance ==
  ASSUME Undisturbed
  PROVE  Spec => []Cleared
<1>1. Init => Cleared
  BY DEF Init, PoolInit, Cleared, Blank, At, FreeBuffers, Unstored
<1>2. TInv /\ Roles /\ capacity \in Capacities /\ DiskKeepsBuffer /\ Cleared /\ [Next]_vars
      => Cleared'
  <2> SUFFICES ASSUME TInv, Roles, DiskKeepsBuffer, Cleared, Client \/ UNCHANGED vars
               PROVE  Cleared'
    BY ClearedKept DEF Next
  <2> QED
    BY ClientLeaves, GrowthCleared DEF Cleared, Blank, At, FreeBuffers, Buffers, locals
<1> QED
  BY <1>1, <1>2, RolesInvariance, CapacityAsked, DiskThreadKeepsBuffer, PTL DEF Spec

(* Two pieces never have one buffer, so there are no more pieces in memory *)
(* than buffers in use.                                                    *)
Buffered == {p \in Pieces : IsBuffered(p)}

LEMMA BoundSmall ==
  ASSUME PoolInv, FreeBuffers # {}
  PROVE  Store!Cardinality(Bound) < buffer_size
<1> DEFINE f == [b \in UsedBuffers |-> pi[b]]
<1> USE DEF PoolInv, PoolTypeOK
<1>1. f \in Surjection(UsedBuffers, Buffered)
  <2>1. f \in [UsedBuffers -> Buffered]
    BY PoolAssumption DEF UsedBuffers, Buffered, IsBuffered, Mapping, Buffers, NoBuffer
  <2>2. \A p \in Buffered : \E b \in UsedBuffers : f[b] = p
    BY PoolAssumption DEF UsedBuffers, Buffered, IsBuffered, Mapping
  <2> HIDE DEF f
  <2> QED
    BY <2>1, <2>2, Fun_IsSurj
<1>2. /\ IsFiniteSet(UsedBuffers)
      /\ Cardinality(UsedBuffers) \in Nat /\ Cardinality(UsedBuffers) < buffer_size
  BY UsedFinite
<1>3. IsFiniteSet(Buffered) /\ Cardinality(Buffered) <= Cardinality(UsedBuffers)
  BY <1>1, <1>2, FS_Surjection
<1>4. Cardinality(Buffered) \in Nat
  BY <1>3, FS_CardinalityType
<1>5. IsFiniteSet(Bound) /\ Cardinality(Bound) <= Cardinality(Buffered)
  <2>1. Bound \subseteq Buffered
    BY DEF Bound, Buffered
  <2> QED
    BY <1>3, <2>1, FS_Subset
<1>6. Store!Cardinality(Bound) = Cardinality(Bound) /\ Cardinality(Bound) \in Nat
  BY <1>5, FS_CardinalityType DEF Store!Cardinality, Cardinality
<1> QED
  BY <1>2, <1>3, <1>4, <1>5, <1>6

LEMMA NothingGoing ==
  ASSUME \A t \in Threads : ~At(t, "reset")
  PROVE  Bound = Buffered
BY DEF Bound, Buffered, Going

(* The steps of the threads and of the client, as steps of the store.      *)
LEMMA StoreStays ==
  ASSUME UNCHANGED <<bi, data, buffer_size, Going>>
  PROVE  UNCHANGED <<Bound, Stored, buffer_size>>
BY DEF Bound, Stored, IsBuffered, Present

LEMMA GoingStays ==
  ASSUME TInv, NEW t \in Threads, Step(t) \/ Start(t), UNCHANGED pi,
         ~ResetBuffer(t), ~ResetPiece(t)
  PROVE  UNCHANGED Going
<1>1. ~At(t, "reset")'
  BY WhoResets
<1>2. At(t, "reset") => ResetPiece(t)
  BY DEF At, Start, StartRead, StartReadv, StartWritev, Call, Step, Trimming, Get, Recheck,
         ReadMiss, WriteFault, WriteUnwanted, WriteAssign, WriteNoBuffer, Allocates, WriteMiss,
         Lock, Gate, Restore, OutOfBounds, Addr, CopyIn, CopyOut, LoadSize, StoreSize, Stamp,
         Check, TrimLock, Loop, Scan, ScanAll, Find, FindFault, FindAll, ResetBuffer
<1>3. \A u \in Threads \ {t} : (At(u, "reset")' <=> At(u, "reset")) /\ buf'[u] = buf[u]
  BY StepMoves DEF Moves, At
<1> QED
  BY <1>1, <1>2, <1>3 DEF Going

LEMMA AssignBinds ==
  ASSUME TInv, Cleared, NEW t \in Threads, WriteAssign(t)
  PROVE  Store!Bind(task[t].piece)
<1> USE DEF TInv, IInv, PoolInv, PoolTypeOK
<1>0. PICK q \in Pieces : q = task[t].piece
  BY WriteAssignAllocates
<1>1. ~IsBuffered(q) /\ UNCHANGED <<buffer_size, data>>
  BY <1>0 DEF WriteAssign, Allocates, WriteMiss, Assign
<1>2. PICK b \in FreeBuffers : bi' = [bi EXCEPT ![q] = b]
  BY <1>0 DEF WriteAssign, Assign
<1>3. b \in Buffers /\ b # NoBuffer
  BY DEF FreeBuffers, Buffers, NoBuffer
<1>4. q \notin Bound /\ Store!Cardinality(Bound) < buffer_size
  BY <1>1, <1>2, BoundSmall DEF Bound
<1>5. Bound' = Bound \cup {q}
  <2>1. \A u \in Threads : ~At(u, "reset")
    BY NobodyInTrim DEF WriteAssign, Allocates, WriteMiss, Lock, InTrim, Chosen, At
  <2>2. \A u \in Threads : ~At(u, "reset")'
    BY <2>1 DEF WriteAssign, Goto, At, LockInv, TaskTypes
  <2>3. Bound = Buffered /\ Bound' = Buffered'
    BY <2>1, <2>2, NothingGoing DEF Bound, Buffered, Going
  <2> QED
    BY <1>1, <1>2, <1>3, <2>3 DEF Buffered, IsBuffered
<1>6. Stored' = [Stored EXCEPT ![q] = {}]
  <2>1. IsBuffered(q)' /\ Present(q)' = {}
    BY <1>1, <1>2, <1>3, PoolAssumption DEF IsBuffered, Present, Cleared, Blank
  <2>2. ASSUME NEW p \in Pieces \ {q}
        PROVE  (IsBuffered(p)' <=> IsBuffered(p)) /\ Present(p)' = Present(p)
    BY <1>1, <1>2 DEF IsBuffered, Present
  <2> QED
    BY <1>0, <1>1, <1>5, <2>1, <2>2 DEF Stored, Bound
<1> QED
  BY <1>0, <1>1, <1>4, <1>5, <1>6 DEF Store!Bind

LEMMA CopyInWrites ==
  ASSUME Undisturbed, TInv, Roles, capacity \in Capacities, DiskKeepsBuffer,
         NEW t \in Threads, CopyIn(t)
  PROVE  Store!Write(task[t].piece)
<1> USE DEF TInv, IInv, LockInv, TaskTypes, PoolInv, PoolTypeOK, Loose
<1>0. PICK q \in Pieces, k \in Blocks : q = task[t].piece /\ k = task[t].block
  BY DEF CopyIn, At, Roles
<1>1. IsBuffered(q) /\ buf[t] = bi[q]
  BY <1>0 DEF CopyIn, At, Roles, DiskKeepsBuffer, Held, Keeps, Using
<1>2. UNCHANGED <<bi, pi, buffer_size>> /\ data' = [data EXCEPT ![bi[q]][k] = q]
  BY <1>0, <1>1 DEF CopyIn, poolVars
<1>3. bi[q] \in Buffers
  BY <1>1 DEF IsBuffered
<1>4. q \in Bound /\ UNCHANGED <<Bound, buffer_size>>
  <2>1. \A u \in Threads : ~At(u, "reset") /\ ~At(u, "reset")'
    BY NobodyResets DEF CopyIn, Goto, At
  <2>2. Bound = Buffered /\ Bound' = Buffered'
    BY <2>1, NothingGoing DEF Bound, Buffered, Going
  <2> QED
    BY <1>0, <1>1, <1>2, <2>2 DEF Buffered, IsBuffered
<1>5. Stored' = [Stored EXCEPT ![q] = @ \cup {k}]
  <2>1. Present(q)' = Present(q) \cup {k}
    BY <1>1, <1>2, <1>3 DEF Present
  <2>2. ASSUME NEW p \in Pieces \ {q}, IsBuffered(p)
        PROVE  Present(p)' = Present(p)
    <3>1. bi[p] # bi[q] /\ bi[p] \in Buffers
      BY <1>1, <2>2 DEF IsBuffered, Mapping
    <3> QED
      BY <1>2, <3>1 DEF Present
  <2>3. \A p \in Pieces : IsBuffered(p)' <=> IsBuffered(p)
    BY <1>2 DEF IsBuffered
  <2> QED
    BY <1>1, <1>4, <2>1, <2>2, <2>3 DEF Stored, Bound
<1>6. \E K \in SUBSET Blocks : Stored' = [Stored EXCEPT ![q] = @ \cup K]
  BY <1>1, <1>5
<1> QED
  BY <1>0, <1>4, <1>6 DEF Store!Write

LEMMA ResetBufferDrops ==
  ASSUME TInv, NEW t \in Threads, ResetBuffer(t)
  PROVE  \E P \in SUBSET Bound : Store!Drop(P)
<1> USE DEF TInv, IInv, LockInv, PoolInv, PoolTypeOK, Loose
<1>0. PICK b \in Buffers, q \in Pieces : b = buf[t] /\ q = pi[b]
  BY DEF ResetBuffer, At, Chosen, VictimStaysBound, UsedBuffers
<1>1. bi[q] = b /\ b # NoBuffer
  BY <1>0, PoolAssumption DEF Mapping, UsedBuffers, Buffers, NoBuffer
<1>2. /\ UNCHANGED <<buffer_size, bi, pi, buf>> /\ data' = [data EXCEPT ![b] = Unstored]
      /\ At(t, "reset")' /\ pc[t] = "remove"
      /\ \A u \in Threads \ {t} : ~At(u, "reset") /\ ~At(u, "reset")'
  BY <1>0, AloneInTrim
     DEF ResetBuffer, Emptied, poolVars, locals, At, Goto, InTrim, Chosen, TaskTypes
<1>3. {q} \in SUBSET Bound /\ Bound' = Bound \ {q}
  <2>1. Going = {} /\ Going' = {q}
    BY <1>0, <1>2 DEF Going, At
  <2> QED
    BY <1>1, <1>2, <2>1 DEF Bound, IsBuffered
<1>4. Stored' = [p \in Pieces |-> IF p \in {q} THEN {} ELSE Stored[p]]
  <2>1. ASSUME NEW p \in Bound \ {q}
        PROVE  Present(p)' = Present(p)
    <3>1. bi'[p] = bi[p] /\ bi[p] # b /\ bi[p] \in Buffers
      BY <1>1, <1>2, <2>1 DEF Bound, IsBuffered, Mapping
    <3> QED
      BY <1>2, <3>1 DEF Present
  <2> QED
    BY <1>3, <2>1 DEF Stored
<1>5. Store!Drop({q})
  BY <1>2, <1>3, <1>4 DEF Store!Drop
<1> QED
  BY <1>3, <1>5

LEMMA ResetPieceStutters ==
  ASSUME TInv, NEW t \in Threads, ResetPiece(t)
  PROVE  UNCHANGED <<Bound, Stored, buffer_size>>
<1> USE DEF TInv, IInv, LockInv, PoolInv, PoolTypeOK, Loose
<1>0. PICK b \in Buffers, q \in Pieces : b = buf[t] /\ q = pi[b]
  BY DEF ResetPiece, At, Chosen, VictimStaysBound, UsedBuffers
<1>1. /\ UNCHANGED <<buffer_size, data>> /\ bi' = [bi EXCEPT ![q] = NoBuffer]
      /\ At(t, "reset") /\ ~At(t, "reset")'
      /\ \A u \in Threads \ {t} : ~At(u, "reset") /\ ~At(u, "reset")'
  BY <1>0, AloneInTrim
     DEF ResetPiece, Unbind, At, Goto, InTrim, Chosen, TaskTypes
<1>2. Going = {q} /\ Going' = {}
  BY <1>0, <1>1 DEF Going
<1>3. Bound' = Bound
  BY <1>1, <1>2 DEF Bound, IsBuffered
<1>4. ASSUME NEW p \in Bound
      PROVE  Present(p)' = Present(p)
  BY <1>1, <1>2, <1>4 DEF Bound, Present
<1> QED
  BY <1>1, <1>3, <1>4 DEF Stored

LEMMA ClientEnlarges ==
  ASSUME TInv, Client \/ UNCHANGED vars
  PROVE  [Store!StoreNext]_(Store!storeVars)
<1>1. CASE UNCHANGED <<buffer_size, pi, data>>
  <2>1. UNCHANGED Going
    BY <1>1, ClientLeaves DEF Going, At, locals
  <2> QED
    BY <1>1, <2>1, ClientLeaves, StoreStays DEF Store!storeVars
<1>2. ASSUME NEW s \in Capacities, SetMemorySize(s)
      PROVE  Store!Enlarge
  <2>1. UNCHANGED <<Bound, Stored>>
    <3>1. \A t \in Threads : ~At(t, "reset") /\ ~At(t, "reset")'
      BY <1>2, Growth, NobodyInTrim DEF TInv, IInv, SetMemorySize, InTrim, Chosen, At
    <3>2. Going = {} /\ Going' = {}
      BY <3>1 DEF Going
    <3> QED
      BY <1>2, <3>2, GrowthPresent DEF Bound, Stored
  <2> QED
    BY <1>2, <2>1, Growth DEF Store!Enlarge
<1> QED
  BY <1>1, <1>2, ClientLeaves DEF Store!StoreNext

LEMMA StepStores ==
  ASSUME Undisturbed, TInv, Roles, capacity \in Capacities, DiskKeepsBuffer, Cleared,
         [Next]_vars
  PROVE  [Store!StoreNext]_(Store!storeVars)
<1>1. ASSUME NEW t \in Threads, Step(t) \/ Start(t)
      PROVE  [Store!StoreNext]_(Store!storeVars)
  <2>1. CASE WriteAssign(t)
    BY <2>1, AssignBinds, WriteAssignAllocates DEF Store!StoreNext, TInv
  <2>2. CASE CopyIn(t)
    <3>1. task[t].piece \in Pieces
      BY <2>2 DEF CopyIn, At, TInv, IInv, LockInv, TaskTypes
    <3> QED
      BY <2>2, <3>1, CopyInWrites DEF Store!StoreNext
  <2>3. CASE ResetBuffer(t)
    BY <2>3, ResetBufferDrops DEF Store!StoreNext
  <2>4. CASE ResetPiece(t)
    BY <2>4, ResetPieceStutters DEF Store!storeVars
  <2>5. CASE ~WriteAssign(t) /\ ~CopyIn(t) /\ ~ResetBuffer(t) /\ ~ResetPiece(t)
    BY <1>1, <2>5, StepWrites, GoingStays, StoreStays DEF Store!storeVars
  <2> QED
    BY <2>1, <2>2, <2>3, <2>4, <2>5
<1> QED
  BY <1>1, ClientEnlarges DEF Next

(* Under the same conditions the storage is a store of pieces: a write     *)
(* adds to its own piece and takes from none, a buffer is handed out with  *)
(* nothing in it, no more pieces have room than there are buffers, and     *)
(* what is lost is lost a piece at a time.                                 *)
THEOREM IsPieceStore ==
  ASSUME Undisturbed
  PROVE  Spec => IsStore
<1>1. Init => Store!StoreInit
  <2>1. ASSUME Init
        PROVE  Bound = {} /\ Stored = [p \in Pieces |-> {}] /\ buffer_size \in Nat
    BY <2>1, InitTypes
       DEF Init, PoolInit, Bound, Stored, IsBuffered, TInv, IInv, PoolInv, PoolTypeOK
  <2> QED
    BY <2>1 DEF Store!StoreInit
<1>2. TInv /\ Roles /\ capacity \in Capacities /\ DiskKeepsBuffer /\ Cleared /\ [Next]_vars
      => [Store!StoreNext]_(Store!storeVars)
  BY StepStores
<1> QED
  BY <1>1, <1>2, RolesInvariance, CapacityAsked, DiskThreadKeepsBuffer, ClearedInvariance,
     PTL
     DEF Spec, IsStore, Store!StoreSpec

-----------------------------------------------------------------------------
(* A pool that is trimmed and that nobody resizes.                         *)
FixedSize == \A c, s \in Capacities : c >= 0 /\ c = s

(* A full pool has a write under way that will trim it.                    *)
Ends(t) == Writing(t) \/ pc[t] \in {"check", "trim"} \/ InTrim(t)

Relief == Pieces # {} /\ NeedsTrim => \E t \in Threads : Ends(t)

RoomInv == capacity \in Capacities /\ Exact /\ Relief

LEMMA RoomInit ==
  ASSUME FixedSize, Init
  PROVE  RoomInv
<1>1. Exact /\ capacity \in Capacities
  BY InitPoolInv DEF Init, PoolInit
<1>2. ASSUME Pieces # {}
      PROVE  ~NeedsTrim
  <2>1. Cardinality(Pieces) \in Nat /\ Cardinality(Pieces) # 0
    BY <1>2, PoolAssumption, FS_CardinalityType, FS_EmptySet
  <2>2. capacity \in Nat
    BY <1>1, SizesAreInt DEF FixedSize
  <2>3. capacity \div piece_length \in Nat
    BY <2>2, PoolAssumption, DivMonotonic
  <2>4. SizeFor(capacity) \in Nat \ {0}
    BY <2>1, <2>2, <2>3 DEF SizeFor, Truncated, piece_count
  <2> QED
    <3>1. buffer_used = 0 /\ buffer_limit = SizeFor(capacity)
      BY DEF Init, PoolInit
    <3> QED
      BY <2>4, <3>1 DEF NeedsTrim
<1> QED
  BY <1>1, <1>2 DEF RoomInv, Relief

LEMMA NobodyResizes ==
  ASSUME FixedSize, TInv, RoomInv, [Next]_vars
  PROVE  UNCHANGED capacity /\ Exact'
<1>1. ASSUME NEW s \in Capacities, s > capacity
      PROVE  FALSE
  BY <1>1, SizesAreInt DEF FixedSize, RoomInv
<1>2. [PoolNext]_poolVars
  BY NextImplements DEF TInv
<1>3. UNCHANGED capacity
  BY <1>1, <1>2 DEF PoolNext, Grow, Allocate, Assign, Evict, Unbind, SetReserved, poolVars
<1> QED
  BY <1>2, <1>3, ExactKept DEF RoomInv, TInv, IInv

(* Only the binding of a piece fills the pool, and its write goes on to    *)
(* test the counters; a write leaves when they are satisfied.              *)
LEMMA ReliefKept ==
  ASSUME FixedSize, TInv, Roles, RoomInv, NEW t \in Threads, Step(t) \/ Start(t)
  PROVE  Relief'
<1> USE DEF TInv, IInv, LockInv, TaskTypes
<1> SUFFICES ASSUME Pieces # {}, NeedsTrim'
             PROVE  \E u \in Threads : Ends(u)'
  BY DEF Relief
<1>1. ASSUME NEW u \in Threads \ {t}, Ends(u)
      PROVE  Ends(u)'
  BY <1>1, StepMoves DEF Moves, Ends, Writing, InTrim, Chosen
<1>2. CASE WriteAssign(t)
  BY <1>2 DEF WriteAssign, Allocates, WriteMiss, Goto, locals, Ends, Writing
<1>3. CASE ResetPiece(t)
  BY <1>3 DEF ResetPiece, Goto, Ends, InTrim, Chosen
<1>4. CASE ~WriteAssign(t) /\ ~ResetPiece(t)
  <2>1. UNCHANGED <<buffer_used, buffer_limit>> /\ NeedsTrim
    <3>1. Unlocked(t) \/ Start(t) \/ Searching(t)
      BY <1>4 DEF Step, Trimming, Unlocked, Searching
    <3> QED
      BY <3>1, UnlockedKeepsPool, TrimKeepsPool DEF poolVars, NeedsTrim
  <2>2. ASSUME Ends(t)
        PROVE  Ends(t)'
    <3>1. MayTrim
      BY <2>1, PoolAssumption DEF MayTrim, RoomInv, FixedSize
    <3>2. CASE Unlocked(t) \/ Start(t)
      BY <2>1, <2>2, <3>1, <3>2
         DEF Unlocked, Start, StartRead, StartReadv, StartWritev, Call, Get, Recheck, ReadMiss,
             WriteFault, WriteUnwanted, WriteNoBuffer, Allocates, WriteMiss, Lock, Gate,
             Restore, OutOfBounds, Addr, CopyOut, CopyIn, LoadSize, StoreSize, Stamp, Check,
             At, Goto, locals, Ends, Writing, InTrim, Chosen, Roles
    <3>3. CASE Searching(t)
      BY <2>1, <2>2, <3>3
         DEF Searching, TrimLock, Loop, Scan, ScanAll, ReadClock, Find, FindFault, FindAll,
             FindLastBuffer, ResetBuffer, At, Goto, Ends, InTrim, Chosen
    <3> QED
      BY <1>4, <3>2, <3>3 DEF Step, Trimming, Unlocked, Searching
  <2> QED
    BY <1>1, <2>1, <2>2 DEF RoomInv, Relief
<1> QED
  BY <1>2, <1>3, <1>4

LEMMA RoomKept ==
  ASSUME FixedSize, TInv, Roles, RoomInv, [Next]_vars
  PROVE  RoomInv'
<1>1. capacity' \in Capacities /\ Exact'
  BY NobodyResizes DEF RoomInv
<1>2. CASE Client \/ UNCHANGED vars
  <2>1. UNCHANGED <<buffer_used, buffer_limit, pc, task>>
    BY <1>2, NobodyResizes, SizesAreInt
       DEF Client, SetTorrentHandle, SetPiecePriority, UpdateReaderPieces, ReserveBegin,
           ReserveEnd, SetReserved, SetMemorySize, Resize, vars, shared, storeVars, poolVars,
           locals, RoomInv, FixedSize
  <2> QED
    BY <1>1, <2>1 DEF RoomInv, Relief, NeedsTrim, Ends, Writing, InTrim, Chosen
<1> QED
  BY <1>1, <1>2, ReliefKept DEF RoomInv, Next

(* With a single disk thread and no resizing, the trim at the end of each  *)
(* write leaves a free buffer for the next one.                            *)
THEOREM SingleWriterHasRoom ==
  ASSUME SingleWriter, FixedSize
  PROVE  Spec => []RoomForWrite
<1> DEFINE J == TInv /\ Roles
<1>1. Init => RoomInv
  BY RoomInit
<1>2. J /\ RoomInv /\ [Next]_vars => RoomInv'
  BY RoomKept
<1>3. J /\ RoomInv => RoomForWrite
  <2> SUFFICES ASSUME TInv, Roles, RoomInv, NEW t \in Threads, Allocates(t)
               PROVE  FreeBuffers # {}
    BY DEF RoomForWrite
  <2>1. t \in DiskThreads /\ pc[t] = "lock" /\ task[t].piece \in Pieces
    BY DEF Allocates, WriteMiss, Lock, At, Roles, TInv, IInv, LockInv, TaskTypes
  <2>2. \A u \in Threads : Ends(u) /\ u \in DiskThreads => u = t
    BY <2>1 DEF SingleWriter
  <2>3. \A u \in Threads : ~Ends(u)
    BY <2>1, <2>2 DEF Ends, Writing, InTrim, Chosen, Roles
  <2>4. ~NeedsTrim
    BY <2>1, <2>3 DEF RoomInv, Relief
  <2>5. Cardinality(UsedBuffers) # buffer_size
    BY <2>4 DEF RoomInv, Exact, NeedsTrim, TInv, IInv, PoolInv, PoolTypeOK
  <2> QED
    BY <2>5, UsedFinite DEF TInv, IInv, PoolInv, PoolTypeOK
<1>4. Spec => []J
  BY RolesInvariance
<1> HIDE DEF J
<1> QED
  BY <1>1, <1>2, <1>3, <1>4, PTL DEF Spec
=============================================================================
