----------------------------- MODULE BufferVector -----------------------------
(***************************************************************************)
(* The vector behind the pool (src/memory_storage.hpp): what BufferPool    *)
(* takes for granted of it, one loop iteration at a time.                  *)
(*                                                                         *)
(* set_memory_size tests the capacity before it takes m_mutex, so that of  *)
(* two calls the smaller may come last; buffer_size then falls below the   *)
(* length of the vector, and the next growth appends entries whose index   *)
(* is not their position.  find_last_buffer walks the vector while threads *)
(* without a lock stamp its entries, with a time they may have read long   *)
(* before, from a clock that may stand still or be set back.  As long as   *)
(* no growth was stale this implements PoolSpec (no piece is reserved      *)
(* here, so buffer_limit is buffer_size).                                  *)
(***************************************************************************)
EXTENDS Integers, FiniteSets

CONSTANTS
  Pieces, NoPiece, piece_length, Capacities,  \* those of BufferPool
  Setters,   \* threads of the client that call set_memory_size
  NoCall,    \* such a thread is not between the test and the lock
  Stampers,  \* threads that call read, readv or writev
  Wanted,    \* the pieces whose priority is not 0
  MaxTime    \* bound: the clock shows 0 .. MaxTime

VARIABLES
  capacity, buffer_size, buffer_used,
  count,           \* buffers.size()
  index,           \* buffers[i].index
  pi,              \* buffers[i].pi
  accessed,        \* buffers[i].accessed
  bi,              \* pieces[p].bi
  asked,           \* the argument of a set_memory_size that passed its test
  late,            \* a stamp that was not stored yet: of which piece, where and when
  scanning,        \* trim holds m_mutex
  own, check_read, i, victim, minTime,  \* trim and find_last_buffer: their locals
  older,           \* entry i was found older, and is about to be read once more
  clock,           \* what now() returns
  stale,           \* history: a growth undid a larger one
  restamped        \* history: the entries stored to since the scan compared them

sizeVars  == <<capacity, buffer_size, count, index>>
boundVars == <<buffer_used, pi, bi>>
scanVars  == <<scanning, own, check_read, i, victim, minTime, older>>
vars == <<sizeVars, boundVars, scanVars, clock, accessed, late, asked, stale, restamped>>

NoBuffer == -1
Entries  == 0 .. count - 1
NoStamp  == [piece |-> NoPiece, entry |-> NoBuffer, time |-> 0]

Pool == INSTANCE BufferPool WITH
  buffer_limit <- buffer_size, reserved_pieces <- {},
  pi <- [b \in 0 .. buffer_size - 1 |-> pi[b]]

ASSUME VectorAssumption ==
  /\ IsFiniteSet(Pieces) /\ NoPiece \notin Pieces
  /\ piece_length \in Nat \ {0} /\ \A c \in Capacities : Pool!IsSize(c)
  /\ NoCall \notin Capacities
  /\ Wanted \subseteq Pieces
  /\ MaxTime \in Nat

Init ==
  /\ capacity \in Capacities
  /\ buffer_size = Pool!SizeFor(capacity) /\ count = buffer_size
  /\ index = [b \in Entries |-> b]
  /\ pi = [b \in Entries |-> NoPiece]
  /\ accessed = [b \in Entries |-> 0]
  /\ bi = [p \in Pieces |-> NoBuffer] /\ buffer_used = 0
  /\ asked = [s \in Setters |-> NoCall]
  /\ scanning = FALSE /\ check_read = FALSE
  /\ own = NoPiece /\ i = 0 /\ victim = NoBuffer /\ minTime = 0 /\ older = FALSE
  /\ late = [t \in Stampers |-> NoStamp]
  /\ clock = 0
  /\ stale = FALSE /\ restamped = {}

-----------------------------------------------------------------------------
(* set_memory_size: the test, and what happens under the lock.             *)
TestSize(s, c) ==
  /\ asked[s] = NoCall /\ c > capacity
  /\ asked' = [asked EXCEPT ![s] = c]
  /\ UNCHANGED <<sizeVars, boundVars, scanVars, clock, accessed, late, stale, restamped>>

(* A fault: the vector is cut down when the size shrinks.                  *)
AddedOrCut(new) == new - buffer_size

(* The loop of push_back, from the old buffer_size to the new one.         *)
Added(new) == IF new > buffer_size THEN new - buffer_size ELSE 0

(* A fault: the new entries are numbered from 0.                           *)
NewIndexFromZero(b) == b - count

NewIndex(b) == buffer_size + (b - count)

PushBack(added) ==
  /\ count' = count + added
  /\ index'    = [b \in Entries' |-> IF b \in Entries THEN index[b] ELSE NewIndex(b)]
  /\ pi'       = [b \in Entries' |-> IF b \in Entries THEN pi[b] ELSE NoPiece]
  /\ accessed' = [b \in Entries' |-> IF b \in Entries THEN accessed[b] ELSE 0]

SetMemorySize(s) ==
  /\ asked[s] # NoCall /\ ~scanning
  /\ capacity' = asked[s]
  /\ buffer_size' = Pool!SizeFor(asked[s])
  /\ PushBack(Added(buffer_size'))
  /\ stale' = (stale \/ asked[s] <= capacity)
  /\ asked' = [asked EXCEPT ![s] = NoCall]
  /\ UNCHANGED <<buffer_used, bi, scanVars, clock, late, restamped>>

-----------------------------------------------------------------------------
Free == {b \in 0 .. buffer_size - 1 : pi[b] = NoPiece}

(* get_buffer binds p to the index of the first free entry, which need not *)
(* be its position.                                                        *)
GetBuffer(p) ==
  /\ ~scanning /\ bi[p] = NoBuffer
  /\ \E b \in Free :
       /\ \A c \in Free : b <= c
       /\ pi' = [pi EXCEPT ![b] = p]
       /\ accessed' = [accessed EXCEPT ![b] = clock]
       /\ bi' = [bi EXCEPT ![p] = index[b]]
  /\ buffer_used' = buffer_used + 1
  /\ UNCHANGED <<sizeVars, scanVars, clock, late, asked, stale, restamped>>

(* read, readv and writev stamp the buffer with no lock held.  They read   *)
(* the clock and look up the entry, in the order the compiler chose, and   *)
(* store the time later: the piece may then have another entry, and the    *)
(* entry another piece.                                                    *)
BeginStamp(t, p) ==
  /\ late[t] = NoStamp /\ bi[p] # NoBuffer
  /\ late' = [late EXCEPT ![t] = [piece |-> p, entry |-> bi[p], time |-> clock]]
  /\ UNCHANGED <<sizeVars, boundVars, scanVars, clock, accessed, asked, stale, restamped>>

(* Whoever stores to entry i between its two reads leaves the scan with a  *)
(* time that it compared with no other entry.                              *)
Restamped(b) ==
  IF older /\ b = i THEN Entries
  ELSE IF b < i THEN restamped \cup {b} ELSE restamped

EndStamp(t) ==
  /\ late[t] # NoStamp
  /\ \E b \in {late[t].entry, bi[late[t].piece]} \ {NoBuffer} :
       /\ accessed' = [accessed EXCEPT ![b] = late[t].time]
       /\ restamped' = Restamped(b)
  /\ late' = [late EXCEPT ![t] = NoStamp]
  /\ UNCHANGED <<sizeVars, boundVars, scanVars, clock, asked, stale>>

-----------------------------------------------------------------------------
(* find_last_buffer starts from the present.                               *)
StartScan(readers) ==
  /\ i' = 0 /\ victim' = NoBuffer /\ minTime' = clock /\ older' = FALSE
  /\ check_read' = readers
  /\ restamped' = {}

Trim(p) ==
  /\ ~scanning
  /\ capacity >= 0 /\ buffer_used >= buffer_size
  /\ scanning' = TRUE /\ own' = p
  /\ StartScan(TRUE)
  /\ UNCHANGED <<sizeVars, boundVars, clock, accessed, late, asked, stale>>

(* A fault: the piece being written is not spared.                         *)
CandidateOwn(b) == pi[b] # NoPiece /\ (check_read => pi[b] \notin Wanted)

Candidate(b) == pi[b] \notin {NoPiece, own} /\ (check_read => pi[b] \notin Wanted)

(* One iteration: an entry that is no older candidate is passed over.      *)
Compare ==
  /\ scanning /\ i < count /\ ~older
  /\ IF Candidate(i) /\ accessed[i] < minTime THEN older' = TRUE /\ UNCHANGED i
     ELSE i' = i + 1 /\ UNCHANGED older
  /\ UNCHANGED <<sizeVars, boundVars, clock, scanning, own, check_read, victim, minTime,
                 accessed, late, asked, stale, restamped>>

(* A fault: minTime is not lowered.                                        *)
TakesLast == victim' = index[i] /\ UNCHANGED minTime

TakesOlder == victim' = index[i] /\ minTime' = accessed[i]

(* An older one replaces what was found so far; its time is read again.    *)
Take ==
  /\ older
  /\ TakesOlder
  /\ older' = FALSE /\ i' = i + 1
  /\ UNCHANGED <<sizeVars, boundVars, clock, scanning, own, check_read, accessed, late,
                 asked, stale, restamped>>

(* A fault: the loop tests the counter before it was lowered.              *)
TrimAgainLate ==
  IF buffer_used >= buffer_size THEN StartScan(TRUE) /\ UNCHANGED <<scanning, own>>
  ELSE /\ scanning' = FALSE /\ own' = NoPiece
       /\ check_read' = FALSE /\ i' = 0 /\ victim' = NoBuffer /\ minTime' = 0
       /\ older' = FALSE /\ restamped' = {}

(* The loop of trim goes on, or m_mutex is released.                       *)
TrimAgain ==
  IF buffer_used' >= buffer_size THEN StartScan(TRUE) /\ UNCHANGED <<scanning, own>>
  ELSE /\ scanning' = FALSE /\ own' = NoPiece
       /\ check_read' = FALSE /\ i' = 0 /\ victim' = NoBuffer /\ minTime' = 0
       /\ older' = FALSE /\ restamped' = {}

(* Nothing was older than the present: all entries are tried next, and     *)
(* after them the loop starts again.                                       *)
NothingFound ==
  /\ scanning /\ i >= count /\ victim = NoBuffer
  /\ StartScan(~check_read)
  /\ UNCHANGED <<sizeVars, boundVars, clock, scanning, own, accessed, late, asked, stale>>

(* remove_piece.                                                           *)
RemovePiece ==
  /\ scanning /\ i >= count /\ victim # NoBuffer
  /\ pi' = [pi EXCEPT ![victim] = NoPiece]
  /\ bi' = [p \in Pieces |-> IF p = pi[victim] THEN NoBuffer ELSE bi[p]]
  /\ accessed' = [accessed EXCEPT ![victim] = clock]
  /\ buffer_used' = buffer_used - 1
  /\ TrimAgain
  /\ UNCHANGED <<sizeVars, clock, late, asked, stale>>

-----------------------------------------------------------------------------
(* now() is the local time of the machine, which may be set back.          *)
Tick ==
  /\ clock' \in 0 .. MaxTime
  /\ UNCHANGED <<sizeVars, boundVars, scanVars, accessed, late, asked, stale, restamped>>

Next ==
  \/ \E s \in Setters : SetMemorySize(s) \/ \E c \in Capacities : TestSize(s, c)
  \/ \E p \in Pieces : GetBuffer(p) \/ Trim(p)
  \/ \E t \in Stampers : EndStamp(t) \/ \E p \in Pieces : BeginStamp(t, p)
  \/ Compare \/ Take \/ NothingFound \/ RemovePiece
  \/ Tick

Spec == Init /\ [][Next]_vars

-----------------------------------------------------------------------------
(* However set_memory_size calls overlap, the loop of get_buffer and every *)
(* pieces[].bi stay inside the vector, which never shrinks.                *)
WithinVector ==
  /\ buffer_size <= count
  /\ \A p \in Pieces : bi[p] \in Entries \cup {NoBuffer}

(* The loop of find_last_buffer chooses the candidate used longest ago and *)
(* gives up only when none is older than its start, whatever the clock     *)
(* does, and although readers and writers stamp the entries behind its     *)
(* back, however late: it errs only by the entries stored to since it      *)
(* compared them.                                                          *)
ChosenIsOldest ==
  scanning =>
    \A b \in Entries : b < i /\ Candidate(b) /\ b \notin restamped => accessed[b] >= minTime

(* What is evicted is what was chosen: neither a free buffer nor that of   *)
(* the piece being written, unless a stale growth has given two entries    *)
(* the same index.                                                         *)
VictimIsCandidate ==
  scanning /\ victim # NoBuffer /\ ~stale => pi[victim] \notin {NoPiece, own}

(* What the promises of the pool come to: until a stale growth buffers and *)
(* pieces name each other, trim has reason to evict exactly when no buffer *)
(* is free.                                                                *)
KeepsPromises ==
  stale \/ (Pool!Mapping /\ Pool!NoEarlyEviction /\ Pool!FullPoolTrims)

(* Until then, a write that finds the pool full costs one piece: trim lets *)
(* go of m_mutex after its first eviction.                                 *)
OneVictimPerTrim == [][RemovePiece => stale \/ ~scanning']_vars

(* Until a stale growth, the vector does what the pool promises.           *)
AsPool == Pool!PoolInit /\ [][stale' \/ Pool!PoolNext]_(Pool!poolVars)
=============================================================================
