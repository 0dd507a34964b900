-------------------------- MODULE MemoryStorage_proofs --------------------------
(***************************************************************************)
(* The threads of memory_storage implement the pool, for any number of     *)
(* threads, pieces and blocks: what they do under m_mutex is a step that   *)
(* PoolSpec allows, and what they do without it leaves the pool alone.     *)
(* The invariant says what a thread inside trim may rely on, although it   *)
(* looked at the counters and chose its victim several steps earlier.      *)
(***************************************************************************)
EXTENDS MemoryStorage, BufferPool_proofs, FunctionTheorems

TaskTypes ==
  /\ pc \in [Threads -> Labels]
  /\ task \in [Threads -> Task]
  /\ buf \in [Threads -> Int]
  /\ \A t \in Threads : pc[t] # "idle" => task[t].piece \in Pieces
  /\ pending \subseteq Pieces

Holder == \A t \in Threads : InTrim(t) => m_mutex = t

(* Before trim has the lock it knows that the capacity is not negative; in *)
(* its loop it knows that the counters still call for an eviction.         *)
Cause ==
  \A t \in Threads :
    /\ pc[t] = "trim" \/ InTrim(t) => capacity >= 0
    /\ InTrim(t) /\ pc[t] # "loop" => NeedsTrim

LockInv == TaskTypes /\ Holder /\ Cause /\ VictimStaysBound

IInv == PoolInv /\ LockInv

-----------------------------------------------------------------------------
(* Each critical section that changes the pool is a step of the pool.      *)
LEMMA WriteAssignAllocates ==
  ASSUME IInv, NEW t \in Threads, WriteAssign(t)
  PROVE  task[t].piece \in Pieces /\ Allocate(task[t].piece)
BY DEF IInv, LockInv, TaskTypes, WriteAssign, Allocates, WriteMiss, Lock, At, Allocate

LEMMA ResetPieceEvicts ==
  ASSUME IInv, NEW t \in Threads, ResetPiece(t)
  PROVE  buf[t] \in Buffers /\ Evict(buf[t])
BY DEF IInv, LockInv, Cause, VictimStaysBound, InTrim, Chosen, ResetPiece, At, Evict, UsedBuffers

LEMMA SetMemorySizeGrows ==
  ASSUME NEW s \in Capacities, SetMemorySize(s)
  PROVE  Grow(s)
BY DEF SetMemorySize, Grow

(* All other steps leave the pool as it is.                                *)
Unlocked(t) ==
  \/ Get(t) \/ Recheck(t) \/ ReadMiss(t)
  \/ WriteFault(t) \/ WriteUnwanted(t) \/ WriteNoBuffer(t)
  \/ Gate(t) \/ Restore(t) \/ OutOfBounds(t) \/ Addr(t) \/ CopyOut(t) \/ CopyIn(t)
  \/ LoadSize(t) \/ StoreSize(t) \/ Stamp(t) \/ Check(t)

LEMMA UnlockedKeepsPool ==
  ASSUME NEW t \in Threads, Unlocked(t) \/ Start(t)
  PROVE  UNCHANGED <<poolVars, m_mutex, pending>>
BY DEF Unlocked, Start, StartRead, StartReadv, StartWritev, Call, Get, Recheck,
       ReadMiss, WriteFault, WriteUnwanted, WriteNoBuffer, Gate, Restore,
       OutOfBounds, Addr, CopyOut, CopyIn, LoadSize, StoreSize, Stamp, Check,
       shared, storeVars, lockVars

(* Trim, up to the moment when the piece it removes loses its buffer.      *)
Searching(t) ==
  \/ TrimLock(t) \/ Loop(t) \/ Scan(t) \/ Find(t) \/ FindFault(t)
  \/ ScanAll(t) \/ FindAll(t) \/ ResetBuffer(t)

LEMMA TrimKeepsPool ==
  ASSUME NEW t \in Threads, Searching(t)
  PROVE  UNCHANGED <<poolVars, pending>>
BY DEF Searching, TrimLock, Loop, Scan, ScanAll, ReadClock, Find, FindFault, FindAll,
       FindLastBuffer, ResetBuffer, shared, storeVars, lockVars

-----------------------------------------------------------------------------
TrimLabels == {"loop", "scan", "find", "scanall", "findall", "remove", "reset"}

(* What a step outside of trim does to the state the invariant is about.   *)
LocalStep(t) ==
  /\ UNCHANGED <<poolVars, m_mutex, pending>>
  /\ pc[t] \notin TrimLabels /\ pc'[t] \notin TrimLabels
  /\ pc'[t] = "trim" => capacity >= 0
  /\ pc'[t] # "idle" => task'[t].piece \in Pieces
  /\ pc' \in [Threads -> Labels]
  /\ task' \in [Threads -> Task]
  /\ buf' \in [Threads -> Int]
  /\ \A u \in Threads \ {t} : pc'[u] = pc[u] /\ task'[u] = task[u] /\ buf'[u] = buf[u]

(* It keeps the invariant: no thread in trim can tell that it happened.    *)
LEMMA LocalLockInv ==
  ASSUME LockInv, NEW t \in Threads, LocalStep(t)
  PROVE  LockInv'
<1>1. /\ UNCHANGED <<capacity, pi, UsedBuffers, NeedsTrim, m_mutex, pending>>
      /\ \A u \in Threads \ {t} : pc'[u] = pc[u] /\ task'[u] = task[u] /\ buf'[u] = buf[u]
      /\ ~InTrim(t)'
  BY DEF LocalStep, poolVars, InTrim, Chosen, TrimLabels, UsedBuffers, Buffers, NeedsTrim
<1>2. TaskTypes'
  BY <1>1 DEF LocalStep, LockInv, TaskTypes
<1>3. Holder'
  BY <1>1 DEF LockInv, Holder, InTrim, Chosen
<1>4. Cause'
  BY <1>1 DEF LocalStep, LockInv, Cause, InTrim, Chosen, TrimLabels
<1>5. VictimStaysBound'
  BY <1>1 DEF LocalStep, LockInv, VictimStaysBound, Chosen, TrimLabels
<1> QED
  BY <1>2, <1>3, <1>4, <1>5 DEF LockInv

LEMMA ReturnIsLocal ==
  ASSUME TaskTypes, NEW t \in Threads, Return(t), pc[t] \notin TrimLabels,
         UNCHANGED <<poolVars, m_mutex, pending>>
  PROVE  LocalStep(t)
<1>1. NoTask \in Task /\ NoBuffer \in Int
  BY DEF NoTask, Task, NoBuffer
<1>2. pc' \in [Threads -> Labels] /\ pc'[t] = "idle"
  BY DEF TaskTypes, Return, Goto, Labels
<1>3. task' \in [Threads -> Task]
  BY <1>1 DEF TaskTypes, Return
<1>4. buf' \in [Threads -> Int]
  BY <1>1 DEF TaskTypes, Return
<1>5. \A u \in Threads \ {t} : pc'[u] = pc[u] /\ task'[u] = task[u] /\ buf'[u] = buf[u]
  BY DEF TaskTypes, Return, Goto
<1>6. pc'[t] \notin TrimLabels /\ pc'[t] # "trim"
  BY <1>2 DEF TrimLabels
<1> QED
  BY <1>2, <1>3, <1>4, <1>5, <1>6 DEF LocalStep

LEMMA GotoIsLocal ==
  ASSUME TaskTypes, NEW t \in Threads, NEW l \in Labels, Goto(t, l),
         pc[t] \notin TrimLabels \cup {"idle"}, l \notin TrimLabels \cup {"trim"},
         UNCHANGED <<poolVars, m_mutex, pending, task>>,
         buf' \in [Threads -> Int], \A u \in Threads \ {t} : buf'[u] = buf[u]
  PROVE  LocalStep(t)
BY DEF TaskTypes, Goto, LocalStep, TrimLabels

LEMMA StartIsLocal ==
  ASSUME TaskTypes, NEW t \in Threads, Start(t)
  PROVE  LocalStep(t)
<1>1. PICK op \in {"read", "readv", "writev"}, p \in Pieces, k \in Blocks \cup {0} :
        Call(t, op, p, k)
  BY DEF Start, StartRead, StartReadv, StartWritev
<1>2. [op |-> op, piece |-> p, block |-> k] \in Task
  BY DEF Task
<1>3. UNCHANGED <<poolVars, m_mutex, pending>>
  BY UnlockedKeepsPool
<1> QED
  BY <1>1, <1>2, <1>3 DEF TaskTypes, Call, At, Goto, LocalStep, TrimLabels, Labels

(* Every step with no lock held is such a step.                            *)
LEMMA UnlockedIsLocal ==
  ASSUME PoolTypeOK, TaskTypes, NEW t \in Threads, Unlocked(t)
  PROVE  LocalStep(t) \/ UNCHANGED <<poolVars, m_mutex, pending, pc, task, buf>>
<1>1. UNCHANGED <<poolVars, m_mutex, pending>>
  BY UnlockedKeepsPool
<1>2. CASE Get(t) \/ Recheck(t) \/ Gate(t) \/ CopyOut(t) \/ CopyIn(t) \/ StoreSize(t)
           \/ LoadSize(t)
  BY <1>1, <1>2, GotoIsLocal
     DEF Get, Recheck, Lock, Gate, CopyOut, CopyIn, StoreSize, LoadSize, Granted, At,
         TrimLabels, Labels, TaskTypes, locals
<1>3. CASE WriteUnwanted(t) \/ WriteNoBuffer(t) \/ Restore(t)
  BY <1>1, <1>3, ReturnIsLocal
     DEF WriteUnwanted, WriteNoBuffer, Allocates, WriteMiss, Lock, Restore, At, TrimLabels
<1>4. CASE ReadMiss(t)
  BY <1>1, <1>4, ReturnIsLocal, GotoIsLocal
     DEF ReadMiss, Lock, At, TrimLabels, Labels, TaskTypes, locals
<1>5. CASE Stamp(t)
  BY <1>1, <1>5, ReturnIsLocal, GotoIsLocal
     DEF Stamp, At, TrimLabels, Labels, TaskTypes, locals
<1>6. CASE Addr(t)
  <2>1. bi[task[t].piece] \in Int
    BY <1>6 DEF Addr, At, TaskTypes, PoolTypeOK, Buffers, NoBuffer
  <2> QED
    BY <1>1, <1>6, <2>1, GotoIsLocal DEF Addr, At, TrimLabels, Labels, TaskTypes
<1>7. CASE Check(t)
  <2>1. CASE MayTrim /\ Goto(t, "trim") /\ UNCHANGED locals
    BY <1>1, <1>7, <2>1
       DEF Check, At, Goto, MayTrim, LocalStep, TrimLabels, Labels, TaskTypes, locals
  <2>2. CASE Return(t)
    BY <1>1, <1>7, <2>2, ReturnIsLocal DEF Check, At, TrimLabels
  <2> QED
    BY <1>7, <2>1, <2>2 DEF Check
<1>8. CASE WriteFault(t) \/ OutOfBounds(t)
  BY <1>1, <1>8 DEF WriteFault, OutOfBounds, locals
<1> QED
  BY <1>2, <1>3, <1>4, <1>5, <1>6, <1>7, <1>8 DEF Unlocked

-----------------------------------------------------------------------------
(* The steps inside trim.                                                  *)
LEMMA AloneInTrim ==
  ASSUME LockInv, NEW t \in Threads, InTrim(t)
  PROVE  \A u \in Threads \ {t} : ~InTrim(u)
BY DEF LockInv, Holder

LEMMA NobodyInTrim ==
  ASSUME LockInv, m_mutex = NoThread
  PROVE  \A u \in Threads : ~InTrim(u)
BY ThreadAssumption DEF LockInv, Holder, Threads

(* A step that takes t through trim, the only thread there.                *)
TrimStep(t) ==
  /\ UNCHANGED <<capacity, pending>>
  /\ \A u \in Threads \ {t} : ~InTrim(u) /\ pc'[u] = pc[u] /\ task'[u] = task[u] /\ buf'[u] = buf[u]
  /\ pc[t] = "trim" \/ InTrim(t)
  /\ pc' \in [Threads -> Labels] /\ task' \in [Threads -> Task] /\ buf' \in [Threads -> Int]
  /\ \/ pc'[t] = "idle"
     \/ pc'[t] \in TrimLabels /\ task'[t] = task[t] /\ m_mutex' = t
  /\ pc'[t] \in TrimLabels \ {"loop"} => NeedsTrim'
  /\ pc'[t] \in {"remove", "reset"} => buf'[t] \in UsedBuffers' /\ pi'[buf'[t]] # task'[t].piece

LEMMA TrimStepLockInv ==
  ASSUME LockInv, NEW t \in Threads, TrimStep(t)
  PROVE  LockInv'
<1>1. TaskTypes'
  BY DEF TrimStep, LockInv, TaskTypes, InTrim, Chosen, TrimLabels
<1>2. \A u \in Threads \ {t} : pc[u] \notin TrimLabels /\ pc'[u] \notin TrimLabels
  BY DEF TrimStep, InTrim, Chosen, TrimLabels
<1>3. Holder'
  BY <1>2 DEF TrimStep, Holder, InTrim, Chosen, TrimLabels
<1>4. Cause'
  BY <1>2 DEF TrimStep, LockInv, Cause, InTrim, Chosen, TrimLabels
<1>5. VictimStaysBound'
  BY <1>2 DEF TrimStep, VictimStaysBound, Chosen, TrimLabels
<1> QED
  BY <1>1, <1>3, <1>4, <1>5 DEF LockInv

LEMMA TrimLockStep ==
  ASSUME LockInv, NEW t \in Threads, TrimLock(t)
  PROVE  TrimStep(t)
<1>1. \A u \in Threads : ~InTrim(u)
  BY NobodyInTrim DEF TrimLock, Acquire
<1>2. UNCHANGED <<capacity, pending, task, buf>>
  BY TrimKeepsPool DEF Searching, TrimLock, locals, poolVars
<1> QED
  BY <1>1, <1>2
     DEF LockInv, TaskTypes, TrimLock, Acquire, At, Goto, TrimStep, TrimLabels, Labels

LEMMA LoopStep ==
  ASSUME LockInv, NEW t \in Threads, Loop(t)
  PROVE  TrimStep(t)
<1>1. InTrim(t) /\ m_mutex = t /\ pc[t] = "loop"
  BY DEF Loop, At, InTrim, Chosen, LockInv, Holder
<1>2. \A u \in Threads \ {t} : ~InTrim(u)
  BY <1>1, AloneInTrim
<1>3. UNCHANGED <<capacity, pending, NeedsTrim>>
  BY TrimKeepsPool DEF Searching, poolVars, NeedsTrim
<1>4. CASE NeedsTrim /\ Goto(t, "scan") /\ UNCHANGED <<m_mutex, locals>>
  BY <1>1, <1>2, <1>3, <1>4
     DEF LockInv, TaskTypes, Goto, TrimStep, TrimLabels, Labels, locals
<1>5. CASE Return(t)
  <2>1. NoTask \in Task /\ NoBuffer \in Int
    BY DEF NoTask, Task, NoBuffer
  <2>2. task' \in [Threads -> Task] /\ buf' \in [Threads -> Int]
    BY <1>5, <2>1 DEF Return, LockInv, TaskTypes
  <2>3. pc' \in [Threads -> Labels] /\ pc'[t] = "idle"
    BY <1>5 DEF Return, Goto, LockInv, TaskTypes, Labels
  <2>4. \A u \in Threads \ {t} : pc'[u] = pc[u] /\ task'[u] = task[u] /\ buf'[u] = buf[u]
    BY <1>5 DEF Return, Goto, LockInv, TaskTypes
  <2> QED
    BY <1>1, <1>2, <1>3, <2>2, <2>3, <2>4 DEF TrimStep, TrimLabels
<1> QED
  BY <1>4, <1>5 DEF Loop

(* What find_last_buffer returns is bound, and not to the caller's piece.  *)
LEMMA FindStep ==
  ASSUME LockInv, NEW t \in Threads, NEW check_read \in BOOLEAN,
         NEW next \in {"scanall", "loop"},
         FindLastBuffer(t, check_read, next), pc[t] \in {"find", "findall"}
  PROVE  TrimStep(t)
<1>1. InTrim(t) /\ m_mutex = t /\ NeedsTrim
  BY DEF InTrim, Chosen, LockInv, Holder, Cause
<1>2. \A u \in Threads \ {t} : ~InTrim(u)
  BY <1>1, AloneInTrim
<1>3. UNCHANGED <<capacity, pending, NeedsTrim, UsedBuffers, pi, m_mutex>>
  BY DEF FindLastBuffer, poolVars, lockVars, NeedsTrim, UsedBuffers, Buffers
<1>4. CASE Goto(t, next) /\ UNCHANGED locals
  BY <1>1, <1>2, <1>3, <1>4
     DEF LockInv, TaskTypes, Goto, TrimStep, TrimLabels, Labels, locals
<1>5. ASSUME NEW b \in Candidates(task[t].piece, check_read),
             buf' = [buf EXCEPT ![t] = b], Goto(t, "remove"), UNCHANGED <<task, n>>
      PROVE  TrimStep(t)
  <2>1. b \in UsedBuffers /\ pi[b] # task[t].piece
    BY <1>5 DEF Candidates, Evictable, IsReserved
  <2>2. b \in Int
    BY <2>1 DEF UsedBuffers, Buffers
  <2> QED
    BY <1>1, <1>2, <1>3, <1>5, <2>1, <2>2
       DEF LockInv, TaskTypes, Goto, TrimStep, TrimLabels, Labels
<1> QED
  BY <1>4, <1>5 DEF FindLastBuffer

(* Reading the clock and emptying the buffer take t one step on.           *)
LEMMA AdvanceStep ==
  ASSUME LockInv, NEW t \in Threads, Scan(t) \/ ScanAll(t) \/ ResetBuffer(t)
  PROVE  TrimStep(t)
<1>1. InTrim(t) /\ m_mutex = t /\ NeedsTrim
  BY DEF Scan, ScanAll, ResetBuffer, At, InTrim, Chosen, LockInv, Holder, Cause
<1>2. \A u \in Threads \ {t} : ~InTrim(u)
  BY <1>1, AloneInTrim
<1>3. UNCHANGED <<capacity, pending, NeedsTrim, UsedBuffers, pi, m_mutex, task, buf>>
  BY DEF Scan, ScanAll, ReadClock, ResetBuffer, poolVars, lockVars, locals, NeedsTrim,
         UsedBuffers, Buffers
<1>4. CASE Scan(t) \/ ScanAll(t)
  BY <1>1, <1>2, <1>3, <1>4
     DEF LockInv, TaskTypes, Scan, ScanAll, ReadClock, Goto, TrimStep, TrimLabels, Labels
<1>5. CASE ResetBuffer(t)
  <2>1. buf[t] \in UsedBuffers /\ pi[buf[t]] # task[t].piece
    BY <1>5 DEF ResetBuffer, At, Chosen, LockInv, VictimStaysBound
  <2> QED
    BY <1>1, <1>2, <1>3, <1>5, <2>1
       DEF LockInv, TaskTypes, ResetBuffer, Goto, TrimStep, TrimLabels, Labels
<1> QED
  BY <1>4, <1>5

LEMMA ResetPieceStep ==
  ASSUME LockInv, NEW t \in Threads, ResetPiece(t)
  PROVE  TrimStep(t)
<1>1. InTrim(t) /\ m_mutex = t
  BY DEF ResetPiece, At, InTrim, Chosen, LockInv, Holder
<1>2. \A u \in Threads \ {t} : ~InTrim(u)
  BY <1>1, AloneInTrim
<1>3. UNCHANGED <<capacity, pending, m_mutex, task>>
  BY DEF ResetPiece, Unbind, lockVars
<1>4. NoBuffer \in Int
  BY DEF NoBuffer
<1> QED
  BY <1>1, <1>2, <1>3, <1>4
     DEF LockInv, TaskTypes, ResetPiece, Goto, TrimStep, TrimLabels, Labels

-----------------------------------------------------------------------------
(* The steps that do not move any thread.                                  *)
LEMMA QuietLockInv ==
  ASSUME LockInv, pending' \subseteq Pieces,
         UNCHANGED <<capacity, buffer_size, buffer_limit, buffer_used, pi,
                     m_mutex, pc, task, buf>>
  PROVE  LockInv'
<1>1. TaskTypes'
  BY DEF LockInv, TaskTypes
<1>2. Holder'
  BY DEF LockInv, Holder, InTrim, Chosen
<1>3. Cause'
  BY DEF LockInv, Cause, InTrim, Chosen, NeedsTrim
<1>4. VictimStaysBound'
  BY DEF LockInv, VictimStaysBound, Chosen, UsedBuffers, Buffers
<1> QED
  BY <1>1, <1>2, <1>3, <1>4 DEF LockInv

(* While nobody is in trim, the pool may change.                           *)
LEMMA OutsideTrimLockInv ==
  ASSUME LockInv, capacity >= 0 => capacity' >= 0, UNCHANGED pending, TaskTypes',
         \A u \in Threads : pc'[u] \notin TrimLabels,
         \A u \in Threads : pc'[u] = "trim" => pc[u] = "trim"
  PROVE  LockInv'
<1>1. Holder'
  BY DEF Holder, InTrim, Chosen, TrimLabels
<1>2. Cause'
  BY DEF LockInv, Cause, InTrim, Chosen, TrimLabels
<1>3. VictimStaysBound'
  BY DEF VictimStaysBound, Chosen, TrimLabels
<1> QED
  BY <1>1, <1>2, <1>3 DEF LockInv

LEMMA WriteAssignLockInv ==
  ASSUME LockInv, NEW t \in Threads, WriteAssign(t)
  PROVE  LockInv'
<1>1. m_mutex = NoThread /\ pc[t] = "lock" /\ Goto(t, "addr")
      /\ UNCHANGED <<capacity, pending, task, buf>>
  BY DEF WriteAssign, Allocates, WriteMiss, Lock, At, Assign, lockVars, locals
<1>2. \A u \in Threads : pc[u] \notin TrimLabels
  BY <1>1, NobodyInTrim DEF InTrim, Chosen, TrimLabels
<1>3. TaskTypes'
  BY <1>1 DEF LockInv, TaskTypes, Goto, Labels
<1>4. \A u \in Threads : pc'[u] \notin TrimLabels /\ (pc'[u] = "trim" => pc[u] = "trim")
  BY <1>1, <1>2 DEF LockInv, TaskTypes, Goto, TrimLabels
<1> QED
  BY <1>1, <1>3, <1>4, OutsideTrimLockInv

LEMMA SetMemorySizeLockInv ==
  ASSUME IInv, NEW s \in Capacities, SetMemorySize(s)
  PROVE  LockInv'
<1>1. /\ m_mutex = NoThread /\ s > capacity /\ capacity' = s
      /\ UNCHANGED <<pending, pc, task, buf>>
  BY DEF SetMemorySize, Resize, lockVars, locals
<1>2. capacity \in Int /\ s \in Int
  BY SizesAreInt DEF IInv, PoolInv, PoolTypeOK
<1>3. \A u \in Threads : pc'[u] \notin TrimLabels
  BY <1>1, NobodyInTrim DEF IInv, InTrim, Chosen, TrimLabels
<1>4. TaskTypes'
  BY <1>1 DEF IInv, LockInv, TaskTypes
<1> QED
  BY <1>1, <1>2, <1>3, <1>4, OutsideTrimLockInv DEF IInv

LEMMA ClientLockInv ==
  ASSUME IInv, Client
  PROVE  LockInv'
<1>1. CASE \E s \in Capacities : SetMemorySize(s)
  BY <1>1, SetMemorySizeLockInv
<1>2. CASE \/ \E h \in Handles : SetTorrentHandle(h)
           \/ \E p \in Pieces : SetPiecePriority(p)
           \/ \E S \in ReaderSets : UpdateReaderPieces(S)
  <2>1. UNCHANGED <<poolVars, m_mutex, pending, pc, task, buf>>
    BY <1>2 DEF SetTorrentHandle, SetPiecePriority, UpdateReaderPieces,
                storeVars, lockVars, locals
  <2> QED
    BY <2>1, QuietLockInv DEF IInv, LockInv, TaskTypes, poolVars
<1>3. CASE ReserveEnd \/ \E S \in ReserveSets : ReserveBegin(S)
  BY <1>3, QuietLockInv, ThreadAssumption
     DEF IInv, LockInv, ReserveBegin, ReserveEnd, SetReserved, locals
<1> QED
  BY <1>1, <1>2, <1>3 DEF Client

LEMMA StepLockInv ==
  ASSUME IInv, NEW t \in Threads, Step(t)
  PROVE  LockInv'
<1> USE DEF IInv
<1>1. CASE Unlocked(t)
  <2>1. LocalStep(t) \/ UNCHANGED <<poolVars, m_mutex, pending, pc, task, buf>>
    BY <1>1, UnlockedIsLocal DEF LockInv, PoolInv
  <2>2. CASE LocalStep(t)
    BY <2>2, LocalLockInv
  <2>3. CASE UNCHANGED <<poolVars, m_mutex, pending, pc, task, buf>>
    BY <2>3, QuietLockInv DEF LockInv, TaskTypes, poolVars
  <2> QED
    BY <2>1, <2>2, <2>3
<1>2. CASE WriteAssign(t)
  BY <1>2, WriteAssignLockInv
<1>3. CASE TrimLock(t) \/ Loop(t) \/ Scan(t) \/ ScanAll(t) \/ ResetBuffer(t) \/ ResetPiece(t)
  BY <1>3, TrimLockStep, LoopStep, AdvanceStep, ResetPieceStep, TrimStepLockInv
<1>4. CASE Find(t) \/ FindAll(t)
  <2>1. PICK check_read \in BOOLEAN, next \in {"scanall", "loop"} :
          FindLastBuffer(t, check_read, next) /\ pc[t] \in {"find", "findall"}
    BY <1>4 DEF Find, FindAll, At
  <2> QED
    BY <2>1, FindStep, TrimStepLockInv
<1>5. CASE FindFault(t)
  <2>1. UNCHANGED <<poolVars, m_mutex, pending, pc, task, buf>>
    BY <1>5 DEF FindFault, shared, storeVars, lockVars, locals
  <2> QED
    BY <2>1, QuietLockInv DEF LockInv, TaskTypes, poolVars
<1> QED
  BY <1>1, <1>2, <1>3, <1>4, <1>5 DEF Step, Trimming, Unlocked

LEMMA NextLockInv ==
  ASSUME IInv, [Next]_vars
  PROVE  LockInv'
<1>1. ASSUME NEW t \in Threads, Start(t)
      PROVE  LockInv'
  BY <1>1, StartIsLocal, LocalLockInv DEF IInv, LockInv
<1>2. CASE UNCHANGED vars
  <2>1. UNCHANGED <<poolVars, m_mutex, pending, pc, task, buf>>
    BY <1>2 DEF vars, shared, storeVars, lockVars, locals
  <2> QED
    BY <2>1, QuietLockInv DEF IInv, LockInv, TaskTypes, poolVars
<1> QED
  BY <1>1, <1>2, StepLockInv, ClientLockInv DEF Next

-----------------------------------------------------------------------------
(* The refinement: what Next does to the pool.                             *)
LEMMA InitLockInv == Init => PoolInit /\ LockInv
<1> SUFFICES ASSUME Init
             PROVE  PoolInit /\ LockInv
  OBVIOUS
<1>1. NoTask \in Task /\ NoBuffer \in Int
  BY DEF NoTask, Task, NoBuffer
<1>2. TaskTypes
  BY <1>1 DEF Init, TaskTypes, Labels
<1>3. Holder /\ Cause /\ VictimStaysBound
  BY DEF Init, Holder, Cause, VictimStaysBound, InTrim, Chosen, At
<1> QED
  BY <1>2, <1>3 DEF Init, LockInv

LEMMA StepImplements ==
  ASSUME IInv, NEW t \in Threads, Step(t)
  PROVE  PoolNext \/ UNCHANGED poolVars
<1>1. CASE WriteAssign(t)
  BY <1>1, WriteAssignAllocates DEF PoolNext
<1>2. CASE ResetPiece(t)
  BY <1>2, ResetPieceEvicts DEF PoolNext
<1>3. CASE Unlocked(t)
  BY <1>3, UnlockedKeepsPool
<1>4. CASE Searching(t)
  BY <1>4, TrimKeepsPool
<1> QED
  BY <1>1, <1>2, <1>3, <1>4 DEF Step, Trimming, Unlocked, Searching

LEMMA ClientImplements ==
  ASSUME IInv, Client
  PROVE  PoolNext \/ UNCHANGED poolVars
<1>1. CASE \E s \in Capacities : SetMemorySize(s)
  BY <1>1, SetMemorySizeGrows DEF PoolNext
<1>2. CASE \/ \E h \in Handles : SetTorrentHandle(h)
           \/ \E p \in Pieces : SetPiecePriority(p)
           \/ \E S \in ReaderSets : UpdateReaderPieces(S)
  BY <1>2 DEF SetTorrentHandle, SetPiecePriority, UpdateReaderPieces, storeVars
<1>3. CASE \E S \in ReserveSets : ReserveBegin(S)
  BY <1>3 DEF ReserveBegin, PoolNext
<1>4. CASE ReserveEnd
  BY <1>4 DEF ReserveEnd, PoolNext, IInv, LockInv, TaskTypes
<1> QED
  BY <1>1, <1>2, <1>3, <1>4 DEF Client

LEMMA NextImplements == IInv /\ [Next]_vars => [PoolNext]_poolVars
<1> SUFFICES ASSUME IInv, [Next]_vars
             PROVE  PoolNext \/ UNCHANGED poolVars
  OBVIOUS
<1>1. ASSUME NEW t \in Threads, Start(t)
      PROVE  UNCHANGED poolVars
  BY <1>1, UnlockedKeepsPool
<1>2. CASE UNCHANGED vars
  BY <1>2 DEF vars, shared, storeVars
<1> QED
  BY <1>1, <1>2, StepImplements, ClientImplements DEF Next

-----------------------------------------------------------------------------
(* What a thread in trim knows holds in every state.                       *)
THEOREM StorageInvariance == Spec => []IInv
<1>1. Init => IInv
  BY InitLockInv, InitPoolInv DEF IInv
<1>2. IInv /\ [Next]_vars => IInv'
  BY NextLockInv, NextImplements, NextPoolInv DEF IInv
<1> QED
  BY <1>1, <1>2, PTL DEF Spec

(* The buffer that trim has chosen is still bound when remove_piece frees  *)
(* it, and is not the buffer of the piece whose write called trim.         *)
THEOREM VictimSafe == Spec => []VictimStaysBound
<1>1. IInv => VictimStaysBound
  BY DEF IInv, LockInv
<1> QED
  BY <1>1, StorageInvariance, PTL

(* With any number of threads, what get_buffer, trim, set_memory_size and  *)
(* update_reserved_pieces do to the pool is what PoolSpec allows.          *)
THEOREM ImplementsPool == Spec => PoolSpec
<1>1. Init => PoolInit
  BY InitLockInv
<1> QED
  BY <1>1, NextImplements, StorageInvariance, PTL DEF Spec, PoolSpec

(* The capacity is one that a client asked for.                            *)
LEMMA CapacityAsked == Spec => [](capacity \in Capacities)
<1>1. PoolInit => capacity \in Capacities
  BY DEF PoolInit
<1>2. capacity \in Capacities /\ [PoolNext]_poolVars => (capacity \in Capacities)'
  BY DEF PoolNext, Allocate, Assign, Evict, Unbind, Grow, Resize, SetReserved, poolVars
<1> QED
  BY <1>1, <1>2, ImplementsPool, PTL DEF PoolSpec

(* So the promises of the pool hold whatever the threads do.               *)
THEOREM StorageKeepsPromises ==
  Spec => /\ []Mapping
          /\ []NoEarlyEviction
          /\ OneEvictionSuffices
          /\ OnlyResizingMiscounts
<1> QED
  BY ImplementsPool, MappingCorrect, NeverEvictsEarly, TrimsOnce, ResizingMiscounts, PTL

-----------------------------------------------------------------------------
(* The types of what no lock protects.  Each variable has few writers.     *)
LEMMA StepWrites ==
  ASSUME NEW t \in Threads, Step(t) \/ Start(t)
  PROVE  /\ StoreSize(t) \/ ResetPiece(t) \/ UNCHANGED size
         /\ CopyIn(t) \/ ResetBuffer(t) \/ UNCHANGED data
         /\ \/ Stamp(t) \/ Scan(t) \/ Find(t) \/ ScanAll(t) \/ FindAll(t)
            \/ UNCHANGED recent
         /\ LoadSize(t) \/ Return(t) \/ UNCHANGED n
         /\ WriteAssign(t) \/ ResetPiece(t) \/ UNCHANGED <<buffer_size, pi, bi>>
         /\ UNCHANGED <<buffer_size, m_handle, reader_pieces, r_mutex>>
         /\ is_reading' = TRUE \/ UNCHANGED is_reading
         /\ (\E p : RestorePiece(p)) \/ UNCHANGED wanted
<1>1. CASE Unlocked(t)
  BY <1>1
     DEF Unlocked, Get, Recheck, ReadMiss, WriteFault, WriteUnwanted, WriteNoBuffer, Gate,
         Restore, OutOfBounds, Addr, CopyOut, CopyIn, LoadSize, StoreSize, Stamp, Check,
         shared, storeVars, lockVars, clientVars, poolVars, locals
<1>2. CASE WriteAssign(t) \/ Start(t)
  BY <1>2
     DEF WriteAssign, Assign, Start, StartRead, StartReadv, StartWritev, Call,
         storeVars, lockVars, clientVars, poolVars, locals
<1>3. CASE Searching(t)
  BY <1>3
     DEF Searching, TrimLock, Loop, Scan, ScanAll, ReadClock, Find, FindFault, FindAll,
         FindLastBuffer, ResetBuffer, shared, storeVars, lockVars, clientVars, poolVars, locals
<1>4. CASE ResetPiece(t)
  BY <1>4 DEF ResetPiece, Unbind, lockVars, clientVars
<1> QED
  BY <1>1, <1>2, <1>3, <1>4 DEF Step, Unlocked, Trimming, Searching

(* m_mutex is kept by a thread in trim and by no other.                    *)
Owned ==
  /\ m_mutex \in Threads \cup {NoThread}
  /\ \A t \in Threads : m_mutex = t => InTrim(t)

LEMMA OwnedKept ==
  ASSUME IInv, Owned, NEW t \in Threads, Step(t) \/ Start(t)
  PROVE  Owned'
<1> USE DEF IInv, LockInv
<1>1. ASSUME LocalStep(t)
      PROVE  Owned'
  BY <1>1 DEF LocalStep, Owned, InTrim, Chosen, TrimLabels
<1>2. CASE Unlocked(t) \/ Start(t)
  <2>1. LocalStep(t) \/ UNCHANGED <<poolVars, m_mutex, pending, pc, task, buf>>
    BY <1>2, UnlockedIsLocal, StartIsLocal DEF PoolInv
  <2> QED
    BY <1>1, <2>1 DEF Owned, InTrim, Chosen
<1>3. CASE WriteAssign(t)
  BY <1>3 DEF WriteAssign, Allocates, WriteMiss, Lock, At, Goto, lockVars,
              Owned, InTrim, Chosen, TaskTypes
<1>4. CASE TrimLock(t)
  BY <1>4 DEF TrimLock, Acquire, At, Goto, Owned, InTrim, Chosen, TaskTypes
<1>5. CASE Loop(t)
  BY <1>5, ThreadAssumption
     DEF Loop, Return, Release, At, Goto, Owned, InTrim, Chosen, TaskTypes, Threads
<1>6. CASE Scan(t) \/ ScanAll(t) \/ Find(t) \/ FindAll(t)
  BY <1>6 DEF Scan, ScanAll, ReadClock, Find, FindAll, FindLastBuffer, lockVars, At, Goto,
              Owned, InTrim, Chosen, TaskTypes
<1>7. CASE ResetBuffer(t) \/ ResetPiece(t)
  BY <1>7 DEF ResetBuffer, ResetPiece, lockVars, At, Goto, Owned, InTrim, Chosen, TaskTypes
<1>8. CASE FindFault(t)
  BY <1>8 DEF FindFault, shared, lockVars, Owned, InTrim, Chosen
<1> QED
  BY <1>2, <1>3, <1>4, <1>5, <1>6, <1>7, <1>8 DEF Step, Trimming, Unlocked

(* What only its own thread writes, and what is written with no lock.      *)
Loose ==
  /\ size \in [Pieces -> Nat]
  /\ data \in [Buffers -> [Blocks -> Pieces \cup {NoPiece}]]
  /\ buf \in [Threads -> Nat \cup {NoBuffer}] /\ n \in [Threads -> Nat]

LEMMA LooseKept ==
  ASSUME IInv, Loose, NEW t \in Threads, Step(t) \/ Start(t)
  PROVE  Loose'
<1> USE DEF IInv, LockInv, PoolInv
<1>1. Buffers' = Buffers
  BY StepWrites DEF Buffers
<1>2. size' \in [Pieces -> Nat]
  <2>1. CASE StoreSize(t)
    BY <2>1 DEF StoreSize, At, TaskTypes, Loose
  <2>2. CASE ResetPiece(t)
    BY <2>2 DEF ResetPiece, Loose
  <2> QED
    BY <2>1, <2>2, StepWrites DEF Loose
<1>3. data' \in [Buffers -> [Blocks -> Pieces \cup {NoPiece}]]
  <2>1. CASE CopyIn(t)
    <3>1. task[t].piece \in Pieces
      BY <2>1 DEF CopyIn, At, TaskTypes
    <3> QED
      BY <2>1, <3>1 DEF CopyIn, Loose
  <2>2. CASE ResetBuffer(t)
    BY <2>2 DEF ResetBuffer, Emptied, Unstored, Loose
  <2> QED
    BY <2>1, <2>2, StepWrites DEF Loose
<1>4. n' \in [Threads -> Nat]
  <2>1. CASE LoadSize(t)
    BY <2>1 DEF LoadSize, At, TaskTypes, Loose
  <2>2. CASE Return(t)
    BY <2>2 DEF Return, Loose
  <2> QED
    BY <2>1, <2>2, StepWrites DEF Loose
<1>5. buf' \in [Threads -> Nat \cup {NoBuffer}]
  <2>1. Addr(t) \/ Return(t) \/ ResetPiece(t) \/ Find(t) \/ FindAll(t) \/ UNCHANGED buf
    BY DEF Step, Trimming, Start, StartRead, StartReadv, StartWritev, Call, Get, Recheck,
           ReadMiss, WriteFault, WriteUnwanted, WriteAssign, WriteNoBuffer, Gate, Restore,
           OutOfBounds, CopyOut, CopyIn, LoadSize, StoreSize, Stamp, Check, TrimLock, Loop,
           Scan, ScanAll, ReadClock, FindFault, ResetBuffer, locals
  <2>2. CASE Addr(t)
    BY <2>2 DEF Addr, At, TaskTypes, PoolTypeOK, Buffers, Loose
  <2>3. CASE Return(t) \/ ResetPiece(t)
    BY <2>3 DEF Return, ResetPiece, Loose
  <2>4. CASE Find(t) \/ FindAll(t)
    <3>1. UNCHANGED buf \/ \E b \in UsedBuffers : buf' = [buf EXCEPT ![t] = b]
      BY <2>4 DEF Find, FindAll, FindLastBuffer, Candidates, Evictable, locals
    <3>2. \A b \in UsedBuffers : b \in Nat
      BY DEF UsedBuffers, Buffers, PoolTypeOK
    <3> QED
      BY <3>1, <3>2 DEF Loose
  <2> QED
    BY <2>1, <2>2, <2>3, <2>4 DEF Loose
<1> QED
  BY <1>1, <1>2, <1>3, <1>4, <1>5 DEF Loose

(* Stamps are told apart only while a thread scans.                        *)
Recent == recent \subseteq Buffers /\ (recent # {} => Scanning)

LEMMA OthersStay ==
  ASSUME IInv, NEW t \in Threads, Step(t) \/ Start(t)
  PROVE  \A u \in Threads \ {t} : pc'[u] = pc[u]
<1> USE DEF IInv, LockInv
<1>1. CASE Unlocked(t) \/ Start(t)
  BY <1>1, UnlockedIsLocal, StartIsLocal DEF LocalStep, PoolInv
<1>2. CASE WriteAssign(t) \/ Searching(t) \/ ResetPiece(t)
  BY <1>2 DEF TaskTypes, WriteAssign, Searching, TrimLock, Loop, Return, Scan, ScanAll,
              ReadClock, Find, FindFault, FindAll, FindLastBuffer, ResetBuffer, ResetPiece, Goto
<1> QED
  BY <1>1, <1>2 DEF Step, Trimming, Unlocked, Searching

LEMMA RecentKept ==
  ASSUME IInv, Recent, NEW t \in Threads, Step(t) \/ Start(t)
  PROVE  Recent'
<1> USE DEF IInv, LockInv, PoolInv
<1>1. Buffers' = Buffers
  BY StepWrites DEF Buffers
<1>2. CASE Scan(t) \/ ScanAll(t)
  BY <1>1, <1>2 DEF Scan, ScanAll, ReadClock, Goto, TaskTypes, Recent, Scanning, UsedBuffers
<1>3. CASE Find(t) \/ FindAll(t)
  BY <1>3 DEF Find, FindAll, FindLastBuffer, Recent
<1>4. CASE pc[t] \notin {"find", "findall"} /\ (Stamp(t) \/ UNCHANGED recent)
  <2>1. Scanning => Scanning'
    BY <1>4, OthersStay DEF Scanning
  <2>2. CASE Stamp(t)
    <3>1. bi[task[t].piece] \in Buffers
      BY <2>2 DEF Stamp, At, TaskTypes, IsBuffered, PoolTypeOK
    <3> QED
      BY <1>1, <2>1, <2>2, <3>1 DEF Stamp, Stamped, Recent
  <2> QED
    BY <1>1, <1>4, <2>1, <2>2 DEF Recent
<1>5. CASE FindFault(t)
  BY <1>1, <1>5 DEF FindFault, shared, storeVars, Recent, Scanning
<1>6. pc[t] \in {"find", "findall"} => Find(t) \/ FindAll(t) \/ FindFault(t)
  BY DEF Step, Trimming, Start, StartRead, StartReadv, StartWritev, Call, Get, Recheck,
         ReadMiss, WriteFault, WriteUnwanted, WriteAssign, WriteNoBuffer, Allocates,
         WriteMiss, Lock, Gate, Restore, OutOfBounds, Addr, CopyOut, CopyIn, LoadSize,
         StoreSize, Stamp, Check, TrimLock, Loop, Scan, ScanAll, ResetBuffer, ResetPiece, At
<1> QED
  BY <1>2, <1>3, <1>4, <1>5, <1>6, StepWrites

(* What the client sets, and how the process may end.                      *)
Flags ==
  /\ r_mutex \in BOOLEAN /\ is_reading \in BOOLEAN
  /\ m_handle \in {"null", "wild", "set"}
  /\ wanted \subseteq Pieces /\ reader_pieces \subseteq Pieces
  /\ fault \in {"none", "handle", "index"}

LEMMA FlagsKept ==
  ASSUME Flags, NEW t \in Threads, Step(t) \/ Start(t)
  PROVE  Flags'
<1>1. fault' \in {fault, "handle", "index"}
  BY DEF Flags, Step, Trimming, Start, StartRead, StartReadv, StartWritev, Call, Get, Recheck,
         ReadMiss, WriteFault, WriteUnwanted, WriteAssign, WriteNoBuffer, Gate, Restore, Addr,
         OutOfBounds, CopyOut, CopyIn, LoadSize, StoreSize, Stamp, Check, TrimLock, Loop,
         Scan, ScanAll, ReadClock, Find, FindFault, FindAll, FindLastBuffer, ResetBuffer,
         ResetPiece, RestorePiece
<1>2. wanted' \subseteq Pieces
  BY StepWrites DEF Flags, RestorePiece
<1> QED
  BY <1>1, <1>2, StepWrites DEF Flags

TInv == IInv /\ Owned /\ Loose /\ Recent /\ Flags

LEMMA ClientTypes ==
  ASSUME TInv, Client
  PROVE  Owned' /\ Loose' /\ Recent' /\ Flags'
<1> USE DEF TInv
<1>1. ASSUME NEW s \in Capacities, SetMemorySize(s)
      PROVE  Owned' /\ Loose' /\ Recent' /\ Flags'
  <2>1. DOMAIN pi' = Buffers'
    BY <1>1 DEF SetMemorySize, Resize, Buffers
  <2>2. data' \in [Buffers' -> [Blocks -> Pieces \cup {NoPiece}]]
    BY <1>1, <2>1 DEF SetMemorySize, Loose, Unstored
  <2>3. \A b \in Buffers : b \in Buffers'
    BY <1>1, SetMemorySizeGrows, ResizeKeepsUsed DEF IInv, PoolInv
  <2> QED
    BY <1>1, <2>2, <2>3
       DEF SetMemorySize, lockVars, clientVars, locals, Owned, InTrim, Chosen, Loose, Recent,
           Scanning, Flags
<1>2. CASE \/ \E h \in Handles : SetTorrentHandle(h)
           \/ \E p \in Pieces : SetPiecePriority(p)
           \/ \E S \in ReaderSets : UpdateReaderPieces(S)
  <2>1. UNCHANGED <<storeVars, lockVars, is_reading, pc, locals, fault>>
    BY <1>2 DEF SetTorrentHandle, SetPiecePriority, UpdateReaderPieces
  <2>2. Owned' /\ Loose' /\ Recent'
    BY <2>1 DEF storeVars, poolVars, lockVars, locals, Owned, InTrim, Chosen, Loose, Recent, Scanning, Buffers
  <2>3. Flags'
    BY <1>2, <2>1, ThreadAssumption
       DEF SetTorrentHandle, SetPiecePriority, UpdateReaderPieces, lockVars, Flags
  <2> QED
    BY <2>2, <2>3
<1>3. CASE ReserveEnd \/ \E S \in ReserveSets : ReserveBegin(S)
  <2>1. /\ UNCHANGED <<buffer_size, size, data, recent, m_mutex, pc, buf, n>>
        /\ UNCHANGED <<is_reading, clientVars, fault>> /\ r_mutex' \in BOOLEAN
    BY <1>3 DEF ReserveBegin, ReserveEnd, SetReserved, locals
  <2> QED
    BY <2>1 DEF clientVars, Owned, InTrim, Chosen, Loose, Recent, Scanning, Flags, Buffers
<1> QED
  BY <1>1, <1>2, <1>3 DEF Client

LEMMA InitTypes == Init => TInv
<1> SUFFICES ASSUME Init
             PROVE  TInv
  OBVIOUS
<1>1. IInv
  BY InitLockInv, InitPoolInv DEF IInv
<1>2. Owned /\ Flags
  BY ThreadAssumption DEF Init, Owned, Flags, Threads
<1>3. Loose /\ Recent
  BY DEF Init, Loose, Recent, Unstored
<1> QED
  BY <1>1, <1>2, <1>3 DEF TInv

LEMMA NextTypes == TInv /\ [Next]_vars => TInv'
<1> SUFFICES ASSUME TInv, [Next]_vars
             PROVE  TInv'
  OBVIOUS
<1>1. IInv'
  BY NextLockInv, NextImplements, NextPoolInv DEF IInv, TInv
<1>2. CASE UNCHANGED vars
  BY <1>1, <1>2
     DEF TInv, vars, shared, storeVars, poolVars, lockVars, clientVars, locals,
         Owned, InTrim, Chosen, Loose, Recent, Scanning, Flags, Buffers
<1>3. ASSUME NEW t \in Threads, Step(t) \/ Start(t)
      PROVE  TInv'
  BY <1>1, <1>3, OwnedKept, LooseKept, RecentKept, FlagsKept DEF TInv
<1> QED
  BY <1>1, <1>2, <1>3, ClientTypes DEF Next, TInv

LEMMA TypesInvariance == Spec => []TInv
BY InitTypes, NextTypes, PTL DEF Spec

(* Whatever the threads do with no lock held, all of the state keeps its   *)
(* type, the time stamps order the buffers, and m_mutex is held exactly by *)
(* the thread in the loop of trim.                                         *)
THEOREM StorageTypes == Spec => []StorageTypeOK
<1>1. TInv => StorageTypeOK
  BY DEF TInv, IInv, PoolInv, LockInv, TaskTypes, Holder, Owned, Loose, Recent, Flags,
         StorageTypeOK
<1> QED
  BY <1>1, TypesInvariance, PTL

-----------------------------------------------------------------------------
(* Every buffer of a full pool has a piece of its own.                     *)
LEMMA FullPoolHolds ==
  ASSUME PoolInv, FreeBuffers = {}, NEW S, IsFiniteSet(S), \A b \in UsedBuffers : pi[b] \in S
  PROVE  buffer_size <= Cardinality(S)
<1> DEFINE f == [b \in Buffers |-> pi[b]]
<1> USE DEF PoolInv, PoolTypeOK
<1>1. UsedBuffers = Buffers
  BY DEF UsedBuffers, FreeBuffers
<1>2. f \in [Buffers -> S] /\ \A b, c \in Buffers : f[b] = f[c] => b = c
  BY <1>1 DEF Mapping
<1> HIDE DEF f
<1>3. f \in Injection(Buffers, S)
  BY <1>2, Fun_IsInj
<1>4. Cardinality(Buffers) <= Cardinality(S)
  BY <1>3, FS_Injection
<1>5. Cardinality(Buffers) = buffer_size
  BY FS_Interval DEF Buffers
<1> QED
  BY <1>4, <1>5

(* With any number of threads and buffers, and any reservations, a trim    *)
(* that holds m_mutex and finds nothing to evict is the work of a client   *)
(* that reserved all buffers, but for the one being written perhaps.       *)
THEOREM WedgedByClient == Spec => []WedgedIfReserved
<1>1. IInv => WedgedIfReserved
  <2> SUFFICES ASSUME IInv, NEW t \in Threads, Wedged(t), NeedsTrim
               PROVE  Cardinality(reserved_pieces \cup {task[t].piece}) >= buffer_size
    BY DEF WedgedIfReserved
  <2> DEFINE S == reserved_pieces \cup {task[t].piece}
  <2>1. FreeBuffers = {}
    BY FullWhenTrimming DEF IInv, NoEarlyEviction
  <2>2. \A b \in UsedBuffers : pi[b] \in S
    BY DEF Wedged, Evictable, IsReserved
  <2>3. S \subseteq Pieces
    BY DEF IInv, LockInv, TaskTypes, PoolInv, PoolTypeOK, Wedged, InTrim, Chosen
  <2>4. IsFiniteSet(S)
    BY <2>3, PoolAssumption, FS_Subset
  <2>5. Cardinality(S) \in Nat
    BY <2>4, FS_CardinalityType
  <2> HIDE DEF S
  <2>6. buffer_size <= Cardinality(S)
    BY <2>1, <2>2, <2>4, FullPoolHolds DEF IInv
  <2> QED
    BY <2>5, <2>6 DEF S, IInv, PoolInv, PoolTypeOK
<1> QED
  BY <1>1, StorageInvariance, PTL

-----------------------------------------------------------------------------
(* The thread that holds m_mutex is in trim, where only r_mutex can stop   *)
(* it, and who holds r_mutex waits for nothing: with any number of threads *)
(* the two locks cannot make everybody wait.                               *)
THEOREM NoDeadlock == Spec => []DeadlockFree
<1>1. TInv => DeadlockFree
  <2> SUFFICES ASSUME TInv, ~r_mutex, NEW t \in Threads, ~At(t, "idle")
               PROVE  \E u \in Threads : ~At(u, "idle") /\ ~Blocked(u)
    BY DEF DeadlockFree
  <2>1. CASE m_mutex = NoThread
    BY <2>1 DEF Blocked
  <2>2. ASSUME NEW u \in Threads, m_mutex = u
        PROVE  ~At(u, "idle") /\ ~Blocked(u)
    BY <2>2 DEF TInv, Owned, InTrim, Chosen, At, Blocked
  <2> QED
    BY <2>1, <2>2 DEF TInv, Owned
<1> QED
  BY <1>1, TypesInvariance, PTL

-----------------------------------------------------------------------------
(* What a trim with nothing to evict sees of the others.                   *)
LEMMA StuckFrame ==
  ASSUME NEW t \in Threads, Stuck(t), reserved_pieces \subseteq reserved_pieces',
         UNCHANGED <<buffer_size, buffer_limit, buffer_used, pi>>,
         task'[t] = task[t],
         pc'[t] \in {"loop", "scan", "find", "scanall", "findall"}
  PROVE  Stuck(t)'
<1>1. Evictable(task[t].piece)' \subseteq Evictable(task[t].piece)
  BY DEF Evictable, UsedBuffers, Buffers, IsReserved
<1> QED
  BY <1>1 DEF Stuck, Wedged, InTrim, Chosen, At, NeedsTrim

(* Its own steps go round in the loop.                                     *)
LEMMA StuckSteps ==
  ASSUME IInv, NEW t \in Threads, Stuck(t), Step(t) \/ Start(t)
  PROVE  /\ UNCHANGED <<buffer_size, buffer_limit, buffer_used, pi, task>>
         /\ pc'[t] \in {"loop", "scan", "find", "scanall", "findall"}
<1> USE DEF IInv, LockInv, TaskTypes
<1>1. pc[t] \in {"loop", "scan", "find", "scanall", "findall"} /\ Evictable(task[t].piece) = {} /\ NeedsTrim
  BY DEF Stuck, Wedged, InTrim, Chosen, At
<1>2. \A c \in BOOLEAN : Candidates(task[t].piece, c) = {}
  BY <1>1 DEF Candidates
<1>3. CASE Loop(t) \/ FindFault(t)
  BY <1>1, <1>3 DEF Loop, FindFault, Goto, At, locals, shared, storeVars, poolVars
<1>4. CASE Find(t) \/ FindAll(t)
  BY <1>1, <1>2, <1>4 DEF Find, FindAll, FindLastBuffer, Goto, At, locals, poolVars
<1>5. CASE Scan(t) \/ ScanAll(t)
  BY <1>1, <1>5 DEF Scan, ScanAll, ReadClock, Goto, locals, poolVars
<1>6. /\ ~Unlocked(t) /\ ~WriteAssign(t) /\ ~TrimLock(t) /\ ~Start(t)
      /\ ~ResetBuffer(t) /\ ~ResetPiece(t)
  BY <1>1
     DEF Unlocked, Start, StartRead, StartReadv, StartWritev, Call, Get, Recheck, ReadMiss,
         WriteFault, WriteUnwanted, WriteNoBuffer, Allocates, WriteMiss, Lock, Gate,
         Restore, OutOfBounds, Addr, CopyOut, CopyIn, LoadSize, StoreSize, Stamp, Check,
         WriteAssign, TrimLock, ResetBuffer, ResetPiece, At
<1> QED
  BY <1>3, <1>4, <1>5, <1>6 DEF Step, Trimming, Unlocked

(* Nobody else gets past m_mutex.                                          *)
LEMMA OthersWait ==
  ASSUME IInv, NEW t \in Threads, Stuck(t), NEW u \in Threads \ {t}, Step(u) \/ Start(u)
  PROVE  /\ UNCHANGED poolVars
         /\ pc'[t] = pc[t] /\ task'[t] = task[t]
<1> USE DEF IInv, LockInv
<1>1. m_mutex = t /\ m_mutex # NoThread /\ ~InTrim(u)
  BY ThreadAssumption DEF Stuck, Wedged, Holder, Threads
<1>2. ~WriteAssign(u) /\ ~TrimLock(u) /\ ~Trimming(u)
  BY <1>1
     DEF WriteAssign, Allocates, WriteMiss, Lock, TrimLock, Acquire, Trimming, Loop, Scan,
         Find, FindFault, ScanAll, FindAll, ResetBuffer, ResetPiece, At, InTrim, Chosen
<1>3. LocalStep(u) \/ UNCHANGED <<poolVars, m_mutex, pending, pc, task, buf>>
  BY <1>2, UnlockedIsLocal, StartIsLocal DEF Step, Unlocked, PoolInv
<1> QED
  BY <1>3 DEF LocalStep

(* With any number of threads, a trim that holds m_mutex and has nothing   *)
(* to evict never gets on while the reserved pieces stay reserved.         *)
THEOREM WedgeLasts == Spec => StaysWedged
<1>1. ASSUME IInv, [Next]_vars, NEW t \in Threads, Stuck(t),
             reserved_pieces \subseteq reserved_pieces'
      PROVE  Stuck(t)'
  <2>1. pc[t] \in {"loop", "scan", "find", "scanall", "findall"} /\ m_mutex # NoThread
    BY <1>1, ThreadAssumption DEF Stuck, Wedged, InTrim, Chosen, At, IInv, LockInv, Holder, Threads
  <2>2. CASE Step(t) \/ Start(t)
    BY <1>1, <2>2, StuckSteps, StuckFrame
  <2>3. ASSUME NEW u \in Threads \ {t}, Step(u) \/ Start(u)
        PROVE  Stuck(t)'
    BY <1>1, <2>1, <2>3, OthersWait, StuckFrame DEF poolVars
  <2>4. CASE Client
    <3>1. UNCHANGED <<buffer_size, buffer_limit, buffer_used, pi, pc, task>>
      BY <2>1, <2>4
         DEF Client, SetTorrentHandle, SetPiecePriority, UpdateReaderPieces, ReserveBegin,
             ReserveEnd, SetMemorySize, SetReserved, storeVars, poolVars, locals
    <3> QED
      BY <1>1, <2>1, <3>1, StuckFrame
  <2>5. CASE UNCHANGED vars
    BY <1>1, <2>1, <2>5, StuckFrame DEF vars, shared, storeVars, poolVars, locals
  <2> QED
    BY <1>1, <2>2, <2>3, <2>4, <2>5 DEF Next
<1>2. IInv /\ [Next]_vars =>
        [\A t \in Threads :
           Stuck(t) /\ reserved_pieces \subseteq reserved_pieces' => Stuck(t)']_vars
  BY <1>1
<1> QED
  BY <1>2, StorageInvariance, PTL DEF Spec, StaysWedged

-----------------------------------------------------------------------------
(* What update_reserved_pieces has still to put back, r_mutex guards.      *)
PendingGuarded == pending # {} => r_mutex

LEMMA PendingInvariance == Spec => []PendingGuarded
<1>1. Init => PendingGuarded
  BY DEF Init, PendingGuarded
<1>2. PendingGuarded /\ [Next]_vars => PendingGuarded'
  <2> SUFFICES ASSUME PendingGuarded, [Next]_vars
               PROVE  PendingGuarded'
    OBVIOUS
  <2>1. ASSUME NEW t \in Threads, Step(t) \/ Start(t)
        PROVE  UNCHANGED <<r_mutex, pending>>
    BY <2>1, StepWrites, UnlockedKeepsPool, TrimKeepsPool
       DEF Step, Trimming, Unlocked, Searching, WriteAssign, ResetPiece, lockVars
  <2>2. CASE Client
    BY <2>2
       DEF Client, SetTorrentHandle, SetPiecePriority, UpdateReaderPieces, ReserveBegin,
           ReserveEnd, SetMemorySize, lockVars, PendingGuarded
  <2>3. CASE UNCHANGED vars
    BY <2>3 DEF vars, shared, lockVars, PendingGuarded
  <2> QED
    BY <2>1, <2>2, <2>3 DEF Next, PendingGuarded
<1> QED
  BY <1>1, <1>2, PTL DEF Spec

(* Without r_mutex all that is to be spared is in the set trim tests, and  *)
(* its choice falls on something else.                                     *)
LEMMA ChoiceSpares ==
  ASSUME LockInv, PendingGuarded, NEW t \in Threads, Find(t) \/ FindAll(t),
         NEW p \in reserved_pieces \cup pending
  PROVE  Chosen(t)' => pi'[buf'[t]] # p
<1>1. PICK check_read \in BOOLEAN, next \in {"scanall", "loop"} :
        FindLastBuffer(t, check_read, next)
  BY DEF Find, FindAll
<1>2. p \in reserved_pieces /\ UNCHANGED pi
  BY <1>1 DEF FindLastBuffer, PendingGuarded, poolVars
<1>3. CASE Goto(t, next)
  BY <1>3 DEF Goto, LockInv, TaskTypes, Chosen
<1>4. ASSUME NEW b \in Candidates(task[t].piece, check_read), buf' = [buf EXCEPT ![t] = b]
      PROVE  pi'[buf'[t]] # p
  BY <1>2, <1>4 DEF Candidates, Evictable, IsReserved, LockInv, TaskTypes
<1> QED
  BY <1>1, <1>3, <1>4 DEF FindLastBuffer

(* A step of trim that leaves the pool alone moves nobody else.            *)
LEMMA TrimMovesOne ==
  ASSUME LockInv, NEW t \in Threads, Searching(t)
  PROVE  \A u \in Threads \ {t} : pc'[u] = pc[u] /\ task'[u] = task[u] /\ buf'[u] = buf[u]
BY DEF LockInv, TaskTypes, Searching, TrimLock, Loop, Return, Scan, ScanAll, ReadClock,
       Find, FindFault, FindAll, FindLastBuffer, ResetBuffer, Goto, locals

LEMMA StepSpares ==
  ASSUME IInv, PendingGuarded, NEW p \in Pieces, Spared(p),
         NEW t \in Threads, Step(t) \/ Start(t)
  PROVE  /\ bi'[p] = bi[p]
         /\ \A u \in Threads : Chosen(u)' => pi'[buf'[u]] # p
<1> USE DEF IInv, LockInv
<1>1. \A u \in Threads : Chosen(u) => pi[buf[u]] # p
  BY DEF Spared
<1>2. CASE Unlocked(t) \/ Start(t)
  <2>1. LocalStep(t) \/ UNCHANGED <<poolVars, m_mutex, pending, pc, task, buf>>
    BY <1>2, UnlockedIsLocal, StartIsLocal DEF PoolInv
  <2> QED
    BY <1>1, <2>1 DEF LocalStep, TrimLabels, poolVars, Chosen
<1>3. CASE WriteAssign(t)
  <2>1. task[t].piece # p
    BY <1>3, WriteAssignAllocates DEF Spared, Allocate
  <2>2. bi'[p] = bi[p]
    BY <1>3, <2>1 DEF WriteAssign, Assign, PoolInv, PoolTypeOK
  <2>3. \A u \in Threads : ~InTrim(u)
    BY <1>3, NobodyInTrim DEF WriteAssign, Allocates, WriteMiss, Lock
  <2>4. \A u \in Threads : ~Chosen(u)'
    BY <1>3, <2>3 DEF WriteAssign, Goto, TaskTypes, InTrim, Chosen
  <2> QED
    BY <2>2, <2>4
<1>4. CASE ResetPiece(t)
  <2>1. pi[buf[t]] # p /\ InTrim(t)
    BY <1>1, <1>4 DEF ResetPiece, At, InTrim, Chosen
  <2>2. bi'[p] = bi[p]
    BY <1>4, <2>1 DEF ResetPiece, Unbind, PoolInv, PoolTypeOK
  <2>3. \A u \in Threads : ~Chosen(u)'
    BY <1>4, <2>1, AloneInTrim DEF ResetPiece, Goto, TaskTypes, InTrim, Chosen
  <2> QED
    BY <2>2, <2>3
<1>5. CASE Searching(t)
  <2>1. UNCHANGED <<pi, bi>>
    BY <1>5, TrimKeepsPool DEF poolVars
  <2>2. \A u \in Threads \ {t} : Chosen(u)' => pi'[buf'[u]] # p
    BY <1>1, <1>5, <2>1, TrimMovesOne DEF Chosen
  <2>3. CASE Find(t) \/ FindAll(t)
    BY <2>1, <2>2, <2>3, ChoiceSpares DEF Spared
  <2>4. CASE TrimLock(t) \/ Loop(t) \/ Scan(t) \/ ScanAll(t) \/ FindFault(t)
    <3>1. ~Chosen(t)'
      BY <2>4 DEF TrimLock, Loop, Return, Scan, ScanAll, ReadClock, FindFault, Goto, At,
                  TaskTypes, Chosen
    <3> QED
      BY <2>1, <2>2, <3>1
  <2>5. CASE ResetBuffer(t)
    <3>1. Chosen(t) /\ buf'[t] = buf[t]
      BY <2>5 DEF ResetBuffer, At, Chosen, locals
    <3> QED
      BY <1>1, <2>1, <2>2, <3>1
  <2> QED
    BY <1>5, <2>3, <2>4, <2>5 DEF Searching
<1> QED
  BY <1>2, <1>3, <1>4, <1>5 DEF Step, Trimming, Unlocked, Searching

LEMMA ClientSpares ==
  ASSUME IInv, NEW p \in Pieces, Spared(p), Client
  PROVE  /\ bi'[p] = bi[p]
         /\ \A u \in Threads : Chosen(u)' => pi'[buf'[u]] # p
<1>1. \A u \in Threads : Chosen(u) => pi[buf[u]] # p
  BY DEF Spared
<1>2. UNCHANGED <<bi, pc, buf>>
  BY DEF Client, SetTorrentHandle, SetPiecePriority, UpdateReaderPieces, ReserveBegin,
         ReserveEnd, SetMemorySize, SetReserved, Resize, storeVars, poolVars, locals
<1>3. CASE \E s \in Capacities : SetMemorySize(s)
  BY <1>2, <1>3, NobodyInTrim DEF SetMemorySize, IInv, InTrim, Chosen
<1>4. CASE UNCHANGED pi
  BY <1>1, <1>2, <1>4 DEF Chosen
<1>5. UNCHANGED pi \/ \E s \in Capacities : SetMemorySize(s)
  BY DEF Client, SetTorrentHandle, SetPiecePriority, UpdateReaderPieces, ReserveBegin,
         ReserveEnd, SetReserved, storeVars, poolVars
<1> QED
  BY <1>3, <1>4, <1>5

(* With any number of threads and pieces, trim takes the buffer of no      *)
(* piece that is reserved, not even between the two halves of              *)
(* update_reserved_pieces, unless it chose it before it was reserved.      *)
THEOREM ReservedKept == Spec => ReservedStays
<1>1. ASSUME IInv, PendingGuarded, [Next]_vars, NEW p \in Pieces, Spared(p),
             p \in (reserved_pieces \cup pending)'
      PROVE  Spared(p)' /\ bi'[p] = bi[p]
  <2>1. /\ bi'[p] = bi[p]
        /\ \A u \in Threads : Chosen(u)' => pi'[buf'[u]] # p
    <3>1. CASE UNCHANGED vars
      BY <1>1, <3>1 DEF vars, shared, storeVars, poolVars, locals, Spared, Chosen
    <3> QED
      BY <1>1, <3>1, StepSpares, ClientSpares DEF Next
  <2> QED
    BY <1>1, <2>1 DEF Spared, IsBuffered, At
<1>2. IInv /\ PendingGuarded /\ [Next]_vars =>
        [\A p \in Pieces :
           Spared(p) /\ p \in (reserved_pieces \cup pending)'
             => Spared(p)' /\ bi'[p] = bi[p]]_vars
  BY <1>1
<1> QED
  BY <1>2, StorageInvariance, PendingInvariance, PTL DEF Spec, ReservedStays

-----------------------------------------------------------------------------
(* Between get_buffer and its stamp a call goes on with its buffer.        *)
LEMMA OwnStepKeeps ==
  ASSUME IInv, NEW t \in Threads, Step(t) \/ Start(t), Using(t)'
  PROVE  Keeps(t)' \/ (Using(t) /\ ~Keeps(t))
<1> USE DEF IInv, LockInv, TaskTypes
<1>1. CASE Get(t) \/ Recheck(t)
  BY <1>1 DEF Get, Recheck, Granted, Goto, At, shared, storeVars, poolVars, locals,
              Using, Keeps, IsBuffered
<1>2. CASE WriteAssign(t)
  <2>1. bi'[task[t].piece] \in FreeBuffers /\ task' = task /\ pc'[t] = "addr"
    BY <1>2, WriteAssignAllocates DEF WriteAssign, Assign, Goto, locals, PoolInv, PoolTypeOK
  <2> QED
    BY <2>1 DEF FreeBuffers, Buffers, NoBuffer, Keeps, IsBuffered, At, PoolInv, PoolTypeOK
<1>3. CASE Gate(t) \/ CopyOut(t) \/ CopyIn(t) \/ LoadSize(t) \/ StoreSize(t)
  BY <1>3 DEF Gate, CopyOut, CopyIn, LoadSize, StoreSize, Goto, At, shared, storeVars,
              poolVars, locals, Using, Keeps, IsBuffered
<1>4. CASE Addr(t)
  BY <1>4 DEF Addr, Goto, At, shared, storeVars, poolVars, Using, Keeps, IsBuffered
<1>5. CASE OutOfBounds(t) \/ WriteFault(t)
  BY <1>5 DEF OutOfBounds, WriteFault, WriteMiss, Lock, At, shared, storeVars, poolVars,
              locals, Using, Keeps, IsBuffered
<1>6. ASSUME \/ ReadMiss(t) \/ WriteUnwanted(t) \/ WriteNoBuffer(t) \/ Restore(t)
             \/ Stamp(t) \/ Check(t) \/ Start(t)
      PROVE  ~Using(t)'
  BY <1>6 DEF ReadMiss, WriteUnwanted, WriteNoBuffer, Restore, Stamp, Check, Start, StartRead,
              StartReadv, StartWritev, Call, Return, Goto, Using
<1>7. ASSUME Searching(t) \/ ResetPiece(t)
      PROVE  ~Using(t)'
  BY <1>7 DEF Searching, TrimLock, Loop, Return, Scan, ScanAll, ReadClock, Find, FindFault,
              FindAll, FindLastBuffer, ResetBuffer, ResetPiece, Goto, At, Using
<1> QED
  BY <1>1, <1>2, <1>3, <1>4, <1>5, <1>6, <1>7 DEF Step, Trimming, Unlocked, Searching

(* What another thread does to it.                                         *)
LEMMA OtherStepKeeps ==
  ASSUME IInv, NEW t \in Threads, Using(t), Keeps(t),
         NEW u \in Threads \ {t}, Step(u) \/ Start(u)
  PROVE  Keeps(t)' \/ TakenBy(u, t)
<1> USE DEF IInv, LockInv, TaskTypes, PoolInv, PoolTypeOK
<1>1. task[t].piece \in Pieces
  BY DEF Using
<1>2. CASE Unlocked(u) \/ Start(u) \/ Searching(u)
  <2>1. UNCHANGED poolVars
    BY <1>2, UnlockedKeepsPool, TrimKeepsPool
  <2>2. pc'[t] = pc[t] /\ task'[t] = task[t] /\ buf'[t] = buf[t]
    BY <1>2, UnlockedIsLocal, StartIsLocal, TrimMovesOne DEF LocalStep
  <2> QED
    BY <2>1, <2>2 DEF poolVars, Keeps, IsBuffered, At
<1>3. CASE WriteAssign(u)
  <2>1. task[u].piece \in Pieces /\ task[u].piece # task[t].piece
    BY <1>3, WriteAssignAllocates DEF Allocate, Keeps
  <2>2. bi'[task[t].piece] = bi[task[t].piece]
    BY <1>1, <1>3, <2>1 DEF WriteAssign, Assign
  <2>3. pc'[t] = pc[t] /\ UNCHANGED <<task, buf>>
    BY <1>3 DEF WriteAssign, Goto, locals
  <2> QED
    BY <2>2, <2>3 DEF Keeps, IsBuffered, At
<1>4. CASE ResetPiece(u)
  <2>1. pi[buf[u]] # task[u].piece /\ At(u, "reset")
    BY <1>4 DEF ResetPiece, At, VictimStaysBound, Chosen
  <2>2. CASE pi[buf[u]] = task[t].piece
    BY <2>1, <2>2 DEF TakenBy
  <2>3. CASE pi[buf[u]] # task[t].piece
    <3>1. bi'[task[t].piece] = bi[task[t].piece]
      BY <1>1, <1>4, <2>3 DEF ResetPiece, Unbind
    <3>2. pc'[t] = pc[t] /\ task' = task /\ buf'[t] = buf[t]
      BY <1>4 DEF ResetPiece, Goto
    <3> QED
      BY <3>1, <3>2 DEF Keeps, IsBuffered, At
  <2> QED
    BY <2>2, <2>3
<1> QED
  BY <1>2, <1>3, <1>4 DEF Step, Trimming, Unlocked, Searching

(* With any number of threads, a call loses the buffer it was granted only *)
(* to a trim of another thread that writes another piece.                  *)
THEOREM BuffersAreTrimmed == Spec => OnlyTrimTakes
<1>1. ASSUME IInv, [Next]_vars, NEW t \in Threads, (Using(t) /\ ~Keeps(t))'
      PROVE  Using(t) /\ (Keeps(t) => \E u \in Threads \ {t} : TakenBy(u, t))
  <2>1. CASE Step(t) \/ Start(t)
    BY <1>1, <2>1, OwnStepKeeps
  <2>2. ASSUME NEW u \in Threads \ {t}, Step(u) \/ Start(u)
        PROVE  Using(t) /\ (Keeps(t) => TakenBy(u, t))
    <3>1. pc'[t] = pc[t]
      BY <1>1, <2>2, OthersStay
    <3> QED
      BY <1>1, <2>2, <3>1, OtherStepKeeps DEF Using
  <2>3. CASE Client \/ UNCHANGED vars
    <3>1. UNCHANGED <<bi, pc, task, buf>>
      BY <2>3
         DEF Client, SetTorrentHandle, SetPiecePriority, UpdateReaderPieces, ReserveBegin,
             ReserveEnd, SetMemorySize, SetReserved, Resize, vars, shared, storeVars,
             poolVars, locals
    <3> QED
      BY <1>1, <3>1 DEF Using, Keeps, IsBuffered, At
  <2> QED
    BY <1>1, <2>1, <2>2, <2>3 DEF Next
<1>2. IInv /\ [Next]_vars =>
        [\A t \in Threads :
           (Using(t) /\ ~Keeps(t))' =>
             Using(t) /\ (Keeps(t) => \E u \in Threads \ {t} : TakenBy(u, t))]_vars
  BY <1>1
<1> QED
  BY <1>2, StorageInvariance, PTL DEF Spec, OnlyTrimTakes
=============================================================================
