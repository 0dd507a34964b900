-------------------------- MODULE BufferVector_proofs --------------------------
(***************************************************************************)
(* The vector of buffers for any number of pieces, calls to                *)
(* set_memory_size, and any clock.                                         *)
(***************************************************************************)
EXTENDS BufferVector, Division, FiniteSetTheorems, TLAPS

(* The arrays keep their types, and no pool is larger than its vector.     *)
Shape ==
  /\ capacity \in Capacities /\ buffer_size = Pool!SizeFor(capacity)
  /\ count \in Nat /\ buffer_size <= count
  /\ index \in [Entries -> Entries]
  /\ pi \in [Entries -> Pieces \cup {NoPiece}]
  /\ bi \in [Pieces -> Entries \cup {NoBuffer}]
  /\ accessed \in [Entries -> Nat]
  /\ buffer_used \in Int
  /\ asked \in [Setters -> Capacities \cup {NoCall}]

(* A stamp on its way will land inside the vector.                         *)
Stamps ==
  /\ clock \in Nat
  /\ \A t \in Stampers : late[t] # NoStamp =>
       late[t].piece \in Pieces /\ late[t].entry \in Entries /\ late[t].time \in Nat

(* An entry that is read twice was a candidate the first time.             *)
Scan ==
  /\ minTime \in Nat /\ i \in Nat /\ older \in BOOLEAN
  /\ victim \in Entries \cup {NoBuffer} /\ restamped \subseteq Entries
  /\ scanning => capacity >= 0 /\ buffer_used >= buffer_size
  /\ older => scanning /\ i < count /\ Candidate(i)

(* When it is read the second time it is older than what was found so far, *)
(* if it was not stored to in between.                                     *)
Older == older /\ i \notin restamped => accessed[i] < minTime

(* Until a stale growth, a buffer's index is its position.                 *)
Straight == ~stale => count = buffer_size /\ \A b \in Entries : index[b] = b

(* Entries not yet compared count as stored to only where all of them do.  *)
Past == scanning => \A b \in restamped : b < i \/ Entries \subseteq restamped

Oldest == ChosenIsOldest /\ Older /\ Past

VInv == Shape /\ Stamps /\ Scan /\ Straight /\ Oldest /\ VictimIsCandidate

-----------------------------------------------------------------------------
(* The pool's size never shrinks with the capacity.                        *)
LEMMA SizeForGrows ==
  ASSUME NEW c \in Capacities, NEW s \in Capacities, c <= s
  PROVE  /\ Pool!SizeFor(c) \in Nat
         /\ Pool!SizeFor(c) <= Pool!SizeFor(s)
<1>1. Pool!Cardinality(Pieces) = Cardinality(Pieces)
  BY DEF Pool!Cardinality, Cardinality
<1>2. Pool!piece_count \in Nat
  BY <1>1, VectorAssumption, FS_CardinalityType DEF Pool!piece_count
<1>3. \A x : Pool!SizeFor(x) = CappedQuotient(x, piece_length, Pool!piece_count)
  BY DEF Pool!SizeFor, Pool!Truncated, CappedQuotient, Quotient
<1>4. c \in Int /\ s \in Int /\ Quotient(c, piece_length) + 2 >= 0
  BY VectorAssumption DEF Pool!IsSize, Pool!Truncated, Quotient
<1> QED
  BY <1>2, <1>3, <1>4, VectorAssumption, CappedMonotonic

LEMMA CapacityIsInt == \A c \in Capacities : c \in Int
BY VectorAssumption DEF Pool!IsSize

LEMMA SizeIsNat ==
  ASSUME Shape
  PROVE  buffer_size \in Nat
BY SizeForGrows, CapacityIsInt DEF Shape

LEMMA VectorInit == Init => VInv
<1> SUFFICES ASSUME Init PROVE VInv
  OBVIOUS
<1>1. buffer_size \in Nat
  BY SizeForGrows, CapacityIsInt DEF Init
<1>2. Shape /\ Stamps
  BY <1>1, VectorAssumption DEF Init, Shape, Stamps, Entries
<1>3. Scan /\ Straight /\ Oldest /\ VictimIsCandidate
  BY DEF Init, Scan, Straight, Oldest, ChosenIsOldest, Older, Past, VictimIsCandidate
<1> QED BY <1>2, <1>3 DEF VInv

(* What push_back appends keeps the vector at least as long as the pool,   *)
(* and of the same length unless the call was overtaken by a larger one.   *)
LEMMA GrowthKeeps ==
  ASSUME VInv, NEW s \in Setters, SetMemorySize(s)
  PROVE  VInv'
<1> DEFINE new == Pool!SizeFor(asked[s])
<1>1. asked[s] \in Capacities /\ new \in Nat /\ buffer_size \in Nat
  BY SizeIsNat, SizeForGrows, CapacityIsInt, VectorAssumption DEF VInv, Shape, SetMemorySize
<1>2. buffer_size' = new /\ capacity' = asked[s]
  BY DEF SetMemorySize
<1>3. Added(new) \in Nat /\ new <= buffer_size + Added(new)
  BY <1>1 DEF Added
<1>4. PushBack(Added(new))
  BY <1>2 DEF SetMemorySize
<1> HIDE DEF new
<1>5. count' = count + Added(new) /\ count \in Nat /\ buffer_size <= count
  BY <1>4 DEF PushBack, VInv, Shape
<1>6. Entries \subseteq Entries' /\ count' \in Nat /\ new <= count'
  BY <1>1, <1>3, <1>5 DEF Entries
<1>7. \A b \in Entries' \ Entries : NewIndex(b) \in Entries'
  BY <1>1, <1>3, <1>5 DEF Entries, NewIndex
<1>8. /\ index' = [b \in Entries' |-> IF b \in Entries THEN index[b] ELSE NewIndex(b)]
      /\ pi' = [b \in Entries' |-> IF b \in Entries THEN pi[b] ELSE NoPiece]
      /\ accessed' = [b \in Entries' |-> IF b \in Entries THEN accessed[b] ELSE 0]
  BY <1>4 DEF PushBack
<1>9. Shape'
  <2>1. index' \in [Entries' -> Entries']
    BY <1>6, <1>7, <1>8 DEF VInv, Shape
  <2>2. pi' \in [Entries' -> Pieces \cup {NoPiece}] /\ accessed' \in [Entries' -> Nat]
    BY <1>6, <1>8 DEF VInv, Shape
  <2>3. bi' \in [Pieces -> Entries' \cup {NoBuffer}]
    BY <1>6 DEF VInv, Shape, SetMemorySize, NoBuffer
  <2>4. asked' \in [Setters -> Capacities \cup {NoCall}] /\ buffer_used' \in Int
    BY DEF VInv, Shape, SetMemorySize
  <2> QED BY <1>1, <1>2, <1>6, <2>1, <2>2, <2>3, <2>4 DEF Shape, new
<1>10. Scan' /\ Stamps'
  BY <1>6 DEF VInv, Scan, Stamps, SetMemorySize, scanVars, NoBuffer
<1>11. Straight'
  <2> SUFFICES ASSUME ~stale' PROVE count' = buffer_size' /\ \A b \in Entries' : index'[b] = b
    BY DEF Straight
  <2>1. ~stale /\ ~(asked[s] <= capacity)
    BY DEF SetMemorySize
  <2>2. capacity <= asked[s]
    <3>1. capacity \in Int /\ asked[s] \in Int
      <4>1. capacity \in Capacities
        BY DEF VInv, Shape
      <4> QED BY <1>1, <4>1, CapacityIsInt
    <3> QED BY <2>1, <3>1
  <2>3. buffer_size <= new
    BY <1>1, <2>2, SizeForGrows DEF VInv, Shape, new
  <2>4. count = buffer_size /\ \A b \in Entries : index[b] = b
    BY <2>1 DEF VInv, Straight
  <2>5. count' = buffer_size'
    BY <1>1, <1>2, <1>5, <2>3, <2>4 DEF Added
  <2>6. \A b \in Entries' : NewIndex(b) = b
    BY <1>1, <1>6, <2>4 DEF NewIndex, Entries
  <2> QED BY <1>8, <2>4, <2>5, <2>6
<1>12. Oldest' /\ VictimIsCandidate'
  BY DEF SetMemorySize, scanVars, VInv, Scan, Oldest, ChosenIsOldest, Older, Past,
         VictimIsCandidate
<1> QED BY <1>9, <1>10, <1>11, <1>12 DEF VInv

(* get_buffer and the stamps leave the vector's size alone, and the stamps *)
(* tell the scan's history of themselves.                                  *)
LEMMA GetKeeps ==
  ASSUME VInv, NEW p \in Pieces, GetBuffer(p)
  PROVE  VInv'
<1>1. PICK b \in Free :
        /\ pi' = [pi EXCEPT ![b] = p]
        /\ accessed' = [accessed EXCEPT ![b] = clock]
        /\ bi' = [bi EXCEPT ![p] = index[b]]
  BY DEF GetBuffer
<1>2. b \in Entries /\ index[b] \in Entries
  <2>1. b \in 0 .. buffer_size - 1 /\ buffer_size \in Nat
    BY SizeIsNat DEF Free, VInv
  <2> QED BY <2>1 DEF VInv, Shape, Entries
<1>3. Entries' = Entries
  BY DEF GetBuffer, sizeVars, Entries
<1>4. Shape'
  <2>1. pi' \in [Entries -> Pieces \cup {NoPiece}]
    BY <1>1 DEF VInv, Shape
  <2>2. bi' \in [Pieces -> Entries \cup {NoBuffer}] /\ accessed' \in [Entries -> Nat]
    BY <1>1, <1>2 DEF VInv, Shape, Stamps
  <2>3. buffer_used' \in Int
    BY DEF VInv, Shape, GetBuffer
  <2> QED BY <1>3, <2>1, <2>2, <2>3 DEF VInv, Shape, GetBuffer, sizeVars
<1>5. Scan' /\ Straight' /\ Stamps'
  BY <1>3 DEF VInv, Scan, Straight, Stamps, GetBuffer, sizeVars, scanVars
<1>6. Oldest' /\ VictimIsCandidate'
  BY DEF GetBuffer, scanVars, VInv, Scan, Oldest, ChosenIsOldest, Older, Past,
         VictimIsCandidate
<1> QED BY <1>4, <1>5, <1>6 DEF VInv

LEMMA BeginKeeps ==
  ASSUME VInv, NEW t \in Stampers, NEW p \in Pieces, BeginStamp(t, p)
  PROVE  VInv'
<1>1. UNCHANGED <<sizeVars, boundVars, scanVars, clock, accessed, asked, stale, restamped, Entries>>
  BY DEF BeginStamp, sizeVars, Entries
<1>2. \A u \in Stampers : late'[u] # NoStamp =>
        \/ late'[u] = late[u]
        \/ late'[u] = [piece |-> p, entry |-> bi[p], time |-> clock]
  <2>1. late' = [late EXCEPT ![t] = [piece |-> p, entry |-> bi[p], time |-> clock]]
    BY DEF BeginStamp
  <2> QED BY <2>1
<1>3. Stamps'
  <2>1. bi[p] \in Entries /\ clock \in Nat
    BY DEF BeginStamp, VInv, Shape, Stamps
  <2> QED BY <1>1, <1>2, <2>1 DEF VInv, Stamps
<1>4. Shape' /\ Straight'
  BY <1>1 DEF VInv, Shape, Straight, sizeVars, boundVars
<1>5. Scan' /\ Oldest' /\ VictimIsCandidate'
  BY <1>1 DEF VInv, Scan, Oldest, ChosenIsOldest, Older, Past, VictimIsCandidate, Candidate,
    sizeVars, boundVars, scanVars
<1> QED BY <1>3, <1>4, <1>5 DEF VInv

LEMMA EndKeeps ==
  ASSUME VInv, NEW t \in Stampers, EndStamp(t)
  PROVE  VInv'
<1>1. UNCHANGED <<sizeVars, boundVars, scanVars, clock, asked, stale, Entries>>
  BY DEF EndStamp, sizeVars, Entries
<1>2. PICK b \in Entries :
        accessed' = [accessed EXCEPT ![b] = late[t].time] /\ restamped' = Restamped(b)
  BY DEF EndStamp, VInv, Shape, Stamps
<1>3. late[t].time \in Nat
  BY DEF EndStamp, VInv, Stamps
<1>4. Shape' /\ Straight'
  BY <1>1, <1>2, <1>3 DEF VInv, Shape, Straight, sizeVars, boundVars
<1>5. Stamps'
  <2>1. \A u \in Stampers : late'[u] = NoStamp \/ late'[u] = late[u]
    BY DEF EndStamp
  <2> QED BY <1>1, <2>1 DEF VInv, Stamps
<1>6. Scan' /\ VictimIsCandidate'
  <2>1. restamped' \subseteq Entries
    BY <1>2 DEF Restamped, VInv, Scan
  <2> QED
    BY <1>1, <2>1 DEF VInv, Scan, VictimIsCandidate, Candidate, sizeVars, boundVars, scanVars
<1>7. Oldest'
  <2>1. CASE ~scanning
    BY <1>1, <2>1 DEF VInv, Scan, Oldest, ChosenIsOldest, Older, Past, scanVars
  <2>2. CASE scanning /\ older /\ b = i
    <3>1. restamped' = Entries /\ i \in Entries
      BY <1>2, <2>2 DEF Restamped
    <3> QED
      BY <1>1, <3>1 DEF Oldest, ChosenIsOldest, Older, Past, scanVars
  <2>3. CASE scanning /\ ~(older /\ b = i)
    <3>1. restamped' = IF b < i THEN restamped \cup {b} ELSE restamped
      BY <1>2, <2>3 DEF Restamped
    <3>2. \A c \in Entries : c # b => accessed'[c] = accessed[c]
      BY <1>2 DEF VInv, Shape
    <3>3. \A c : c \notin restamped' => c \notin restamped /\ (c < i => c # b)
      BY <3>1
    <3>4. ChosenIsOldest'
      BY <1>1, <2>3, <3>2, <3>3
         DEF VInv, Oldest, ChosenIsOldest, Candidate, sizeVars, boundVars, scanVars
    <3>5. Older'
      <4>1. i' = i /\ older' = older /\ minTime' = minTime
        BY <1>1 DEF scanVars
      <4>2. older => i \in Entries /\ i # b
        BY <2>3 DEF VInv, Shape, Scan, Entries
      <4>3. older => accessed'[i] = accessed[i]
        BY <3>2, <4>2
      <4>4. older /\ i \notin restamped' => accessed[i] < minTime
        BY <3>3 DEF VInv, Oldest, Older
      <4> QED BY <4>1, <4>3, <4>4 DEF Older
    <3>6. Past'
      BY <1>1, <2>3, <3>1 DEF VInv, Oldest, Past, scanVars
    <3> QED BY <3>4, <3>5, <3>6 DEF Oldest
  <2> QED BY <2>1, <2>2, <2>3
<1> QED BY <1>4, <1>5, <1>6, <1>7 DEF VInv

LEMMA TestKeeps ==
  ASSUME VInv, NEW s \in Setters, NEW c \in Capacities, TestSize(s, c)
  PROVE  VInv'
<1>1. Shape'
  BY DEF VInv, Shape, TestSize, sizeVars, boundVars, Entries
<1> QED
  BY <1>1 DEF VInv, Stamps, Scan, Straight, Oldest, ChosenIsOldest, Older, Past,
    VictimIsCandidate, Candidate, TestSize, sizeVars, boundVars, scanVars, Entries

-----------------------------------------------------------------------------
(* A scan starts with nothing found and with the present.                  *)
LEMMA StartKeeps ==
  ASSUME VInv, NEW readers, StartScan(readers),
         UNCHANGED <<sizeVars, boundVars, clock, accessed, late, asked, stale>>,
         scanning' => capacity >= 0 /\ buffer_used >= buffer_size
  PROVE  VInv'
<1>1. Shape' /\ Straight' /\ Stamps'
  BY DEF VInv, Shape, Straight, Stamps, sizeVars, boundVars, Entries
<1>2. Scan' /\ VictimIsCandidate'
  BY DEF VInv, Stamps, Scan, VictimIsCandidate, StartScan, sizeVars, boundVars, Entries, NoBuffer
<1>3. Oldest'
  BY DEF VInv, Oldest, ChosenIsOldest, Older, Past, StartScan, Entries
<1> QED BY <1>1, <1>2, <1>3 DEF VInv

(* An iteration of find_last_buffer that passes over an entry.             *)
LEMMA CompareKeeps ==
  ASSUME VInv, Compare
  PROVE  VInv'
<1>1. i \in Entries /\ accessed[i] \in Nat /\ minTime \in Nat
  BY DEF VInv, Shape, Scan, Compare, Entries
<1>2. UNCHANGED <<sizeVars, boundVars, clock, scanning, own, check_read, victim, minTime,
                  accessed, late, asked, stale, restamped, Entries>>
  BY DEF Compare, sizeVars, Entries
<1>3. Shape' /\ Straight' /\ Stamps' /\ VictimIsCandidate'
  BY <1>2 DEF VInv, Shape, Straight, Stamps, VictimIsCandidate, sizeVars, boundVars
<1>4. \/ Candidate(i) /\ accessed[i] < minTime /\ older' = TRUE /\ i' = i
      \/ (Candidate(i) => accessed[i] >= minTime) /\ older' = FALSE /\ i' = i + 1
  BY <1>1 DEF Compare
<1>5. Scan'
  <2>1. i' \in Nat
    BY <1>1, <1>4 DEF Entries
  <2>2. older' \in BOOLEAN /\ (older' => i' = i /\ Candidate(i))
    BY <1>4
  <2>3. i < count /\ scanning
    BY DEF Compare
  <2>4. older' => Candidate(i)'
    BY <1>2, <2>2 DEF Candidate, boundVars
  <2> QED
    BY <1>2, <2>1, <2>2, <2>3, <2>4 DEF VInv, Scan, sizeVars, boundVars
<1>6. Oldest'
  <2>1. ChosenIsOldest'
    <3> SUFFICES ASSUME scanning, NEW b \in Entries, b < i', Candidate(b), b \notin restamped
                 PROVE  accessed[b] >= minTime
      BY <1>2 DEF ChosenIsOldest, Candidate, boundVars
    <3>1. b < i \/ (b = i /\ i' = i + 1)
      BY <1>1, <1>4 DEF Entries
    <3> QED BY <1>4, <3>1 DEF VInv, Oldest, ChosenIsOldest
  <2>2. Older'
    BY <1>2, <1>4 DEF Older
  <2>3. Past'
    <3>1. \A b \in restamped : b < i => b < i'
      BY <1>1, <1>4 DEF VInv, Scan, Entries
    <3> QED BY <1>2, <3>1 DEF VInv, Oldest, Past
  <2> QED BY <2>1, <2>2, <2>3 DEF Oldest
<1> QED BY <1>3, <1>5, <1>6 DEF VInv

(* One that replaces what was found so far by an older candidate, and by   *)
(* that one's own index.                                                   *)
LEMMA TakeKeeps ==
  ASSUME VInv, Take
  PROVE  VInv'
<1>1. /\ scanning /\ i \in Entries /\ Candidate(i)
      /\ index[i] \in Entries /\ accessed[i] \in Nat /\ minTime \in Nat
  BY DEF VInv, Shape, Scan, Take, Entries
<1>2. UNCHANGED <<sizeVars, boundVars, clock, scanning, own, check_read, accessed, late,
                  asked, stale, restamped, Entries>>
  BY DEF Take, sizeVars, Entries
<1>3. /\ older /\ older' = FALSE /\ i' = i + 1 /\ victim' = index[i] /\ minTime' = accessed[i]
  BY DEF Take, TakesOlder
<1>4. Shape' /\ Straight' /\ Stamps'
  BY <1>2 DEF VInv, Shape, Straight, Stamps, sizeVars, boundVars
<1>5. Scan'
  <2>1. i' \in Nat /\ minTime' \in Nat /\ victim' \in Entries
    BY <1>1, <1>3 DEF Entries
  <2> QED
    BY <1>2, <1>3, <2>1 DEF VInv, Scan, sizeVars, boundVars
<1>6. Oldest'
  <2>1. CASE i \in restamped
    <3>1. Entries \subseteq restamped
      BY <1>1, <2>1 DEF VInv, Oldest, Past, Entries
    <3> QED
      BY <1>2, <1>3, <3>1 DEF Oldest, ChosenIsOldest, Older, Past
  <2>2. CASE i \notin restamped
    <3>1. accessed[i] < minTime
      BY <1>3, <2>2 DEF VInv, Oldest, Older
    <3>2. ChosenIsOldest'
      <4> SUFFICES ASSUME NEW b \in Entries, b < i + 1, Candidate(b), b \notin restamped
                   PROVE  accessed[b] >= accessed[i]
        BY <1>2, <1>3 DEF ChosenIsOldest, Candidate, boundVars
      <4>1. accessed[b] \in Nat /\ (b < i \/ b = i)
        BY <1>1 DEF VInv, Shape, Entries
      <4>2. b < i => accessed[b] >= minTime
        BY <1>1 DEF VInv, Oldest, ChosenIsOldest
      <4> QED BY <1>1, <3>1, <4>1, <4>2
    <3>3. Older' /\ Past'
      <4>1. \A b \in restamped : b < i => b < i'
        BY <1>1, <1>3 DEF VInv, Scan, Entries
      <4> QED BY <1>2, <1>3, <4>1 DEF VInv, Oldest, Older, Past
    <3> QED BY <3>2, <3>3 DEF Oldest
  <2> QED BY <2>1, <2>2
<1>7. VictimIsCandidate'
  BY <1>1, <1>2, <1>3 DEF VInv, Straight, Candidate, VictimIsCandidate, boundVars
<1> QED BY <1>4, <1>5, <1>6, <1>7 DEF VInv

(* remove_piece ends the scan; trim starts another or lets go.             *)
LEMMA RemoveKeeps ==
  ASSUME VInv, RemovePiece
  PROVE  VInv'
<1>1. victim \in Entries /\ Entries' = Entries
  BY DEF VInv, Scan, RemovePiece, sizeVars, Entries
<1>2. Shape' /\ Stamps'
  BY <1>1 DEF VInv, Shape, Stamps, Scan, RemovePiece, sizeVars, NoBuffer
<1>3. Straight'
  BY <1>1 DEF VInv, Straight, RemovePiece, sizeVars
<1>4. /\ i' = 0 /\ victim' = NoBuffer /\ minTime' \in {0, clock} /\ clock \in Nat
      /\ older' = FALSE /\ restamped' = {}
  BY DEF RemovePiece, TrimAgain, StartScan, VInv, Stamps
<1>5. scanning' => capacity' >= 0 /\ buffer_used' >= buffer_size'
  BY DEF VInv, Scan, RemovePiece, TrimAgain, StartScan, sizeVars
<1>6. Scan' /\ VictimIsCandidate'
  <2>1. i' \in Nat /\ minTime' \in Nat
    BY <1>4
  <2>2. older' \in BOOLEAN /\ ~older'
    BY <1>4
  <2>3. victim' \in Entries' \cup {NoBuffer} /\ restamped' \subseteq Entries'
    BY <1>4
  <2> QED BY <1>4, <1>5, <2>1, <2>2, <2>3 DEF Scan, VictimIsCandidate
<1>7. Oldest'
  <2>1. \A b \in Entries' : ~(b < i')
    BY <1>4 DEF Entries
  <2> QED BY <1>4, <2>1 DEF Oldest, ChosenIsOldest, Older, Past
<1> QED BY <1>2, <1>3, <1>6, <1>7 DEF VInv

LEMMA ClockKeeps ==
  ASSUME VInv, Tick
  PROVE  VInv'
<1>1. /\ clock' \in Nat
      /\ UNCHANGED <<sizeVars, boundVars, scanVars, accessed, late, asked, stale, restamped>>
  BY VectorAssumption DEF Tick
<1>2. Shape' /\ Stamps' /\ Straight' /\ Scan' /\ VictimIsCandidate'
  BY <1>1 DEF VInv, Shape, Stamps, Straight, Scan, Candidate, VictimIsCandidate, sizeVars,
    boundVars, scanVars, Entries
<1>3. Oldest'
  BY <1>1 DEF VInv, Oldest, ChosenIsOldest, Older, Past, Candidate, sizeVars, boundVars,
    scanVars, Entries
<1> QED BY <1>2, <1>3 DEF VInv

LEMMA VectorStep == VInv /\ [Next]_vars => VInv'
<1> SUFFICES ASSUME VInv, [Next]_vars PROVE VInv'
  OBVIOUS
<1>1. CASE \E s \in Setters : SetMemorySize(s) \/ \E c \in Capacities : TestSize(s, c)
  BY <1>1, GrowthKeeps, TestKeeps
<1>2. CASE \E p \in Pieces : GetBuffer(p)
  BY <1>2, GetKeeps
<1>3. CASE \E t \in Stampers : EndStamp(t) \/ \E p \in Pieces : BeginStamp(t, p)
  BY <1>3, BeginKeeps, EndKeeps
<1>4. CASE \E p \in Pieces : Trim(p)
  BY <1>4, StartKeeps DEF Trim, sizeVars, boundVars
<1>5. CASE Compare \/ Take
  BY <1>5, CompareKeeps, TakeKeeps
<1>6. CASE NothingFound
  BY <1>6, StartKeeps DEF NothingFound, VInv, Scan
<1>7. CASE RemovePiece
  BY <1>7, RemoveKeeps
<1>8. CASE Tick
  BY <1>8, ClockKeeps
<1>9. CASE UNCHANGED vars
  BY <1>9 DEF vars, sizeVars, boundVars, scanVars, VInv, Shape, Stamps, Scan, Straight,
    Oldest, ChosenIsOldest, Older, Past, VictimIsCandidate, Candidate, Entries
<1> QED BY <1>1, <1>2, <1>3, <1>4, <1>5, <1>6, <1>7, <1>8, <1>9 DEF Next

LEMMA VectorInvariance == Spec => []VInv
BY VectorInit, VectorStep, PTL DEF Spec

-----------------------------------------------------------------------------
(* However many threads grow the pool, and in whatever order their calls   *)
(* get the lock, nothing indexes outside the vector.                       *)
THEOREM VectorHolds == Spec => []WithinVector
<1>1. VInv => WithinVector
  BY DEF VInv, Shape, WithinVector
<1> QED BY <1>1, VectorInvariance, PTL

(* For any clock and any number of threads that stamp entries late, the    *)
(* scan of any vector finds an oldest one of the candidates that nobody    *)
(* stamped since they were compared.                                       *)
THEOREM OldestChosen == Spec => []ChosenIsOldest
<1>1. VInv => ChosenIsOldest
  BY DEF VInv, Oldest
<1> QED BY <1>1, VectorInvariance, PTL

(* Until a stale growth, what is removed is bound, and not to the piece    *)
(* being written.                                                          *)
THEOREM VictimChosen == Spec => []VictimIsCandidate
<1>1. VInv => VictimIsCandidate
  BY DEF VInv
<1> QED BY <1>1, VectorInvariance, PTL

-----------------------------------------------------------------------------
(* The refinement of the pool.  PoolPart is the vector as the pool sees it. *)
PoolPart == [b \in 0 .. buffer_size - 1 |-> pi[b]]

LEMMA RefinesInit == Init => Pool!PoolInit
BY DEF Init, Pool!PoolInit, Pool!NoBuffer, Pool!Buffers, Entries, NoBuffer

LEMMA GetRefines ==
  ASSUME VInv, ~stale, NEW p \in Pieces, GetBuffer(p)
  PROVE  Pool!Allocate(p)
<1>1. PICK b \in Free :
        /\ \A c \in Free : b <= c
        /\ pi' = [pi EXCEPT ![b] = p]
        /\ bi' = [bi EXCEPT ![p] = index[b]]
  BY DEF GetBuffer
<1>2. index[b] = b /\ Entries = 0 .. buffer_size - 1
  BY DEF VInv, Straight, Free, Entries
<1>3. Pool!FreeBuffers = Free
  BY DEF Pool!FreeBuffers, Pool!Buffers, Free
<1>4. PoolPart' = [PoolPart EXCEPT ![b] = p]
  BY <1>1, <1>2 DEF PoolPart, GetBuffer, sizeVars, VInv, Shape
<1>5. Pool!Assign(p)
  BY <1>1, <1>2, <1>3, <1>4 DEF Pool!Assign, Pool!Charge, GetBuffer, sizeVars, PoolPart
<1> QED
  BY <1>5 DEF Pool!Allocate, Pool!IsBuffered, Pool!NoBuffer, NoBuffer, GetBuffer

LEMMA RemoveRefines ==
  ASSUME VInv, ~stale, RemovePiece, NEW v, v = victim
  PROVE  v \in Pool!Buffers /\ Pool!Evict(v)
<1>1. v \in 0 .. buffer_size - 1 /\ pi[v] # NoPiece
  BY DEF VInv, Scan, Straight, VictimIsCandidate, RemovePiece, Entries
<1>2. Entries = 0 .. buffer_size - 1
  BY DEF VInv, Straight, Entries
<1>3. PoolPart' = [PoolPart EXCEPT ![v] = NoPiece] /\ PoolPart[v] = pi[v]
  BY <1>1, <1>2 DEF PoolPart, RemovePiece, sizeVars, VInv, Shape
<1>4. bi' = [bi EXCEPT ![PoolPart[v]] = NoBuffer]
  BY <1>3 DEF RemovePiece, VInv, Shape
<1>5. Pool!Unbind(v)
  BY <1>3, <1>4 DEF Pool!Unbind, Pool!NoBuffer, NoBuffer, RemovePiece, sizeVars, PoolPart
<1>6. capacity >= 0 /\ buffer_used >= buffer_size
  BY DEF VInv, Scan, RemovePiece
<1>7. Pool!Evict(v)
  BY <1>1, <1>3, <1>5, <1>6 DEF Pool!Evict, Pool!NeedsTrim, PoolPart
<1> QED BY <1>1, <1>7 DEF Pool!Buffers

LEMMA GrowthRefines ==
  ASSUME VInv, NEW s \in Setters, SetMemorySize(s), ~stale',
         NEW c, c = asked[s]
  PROVE  c \in Capacities /\ Pool!Grow(c)
<1>1. c \in Capacities /\ capacity \in Capacities
  BY DEF VInv, Shape, SetMemorySize
<1>2. ~stale /\ ~(c <= capacity)
  BY DEF SetMemorySize
<1>3. c > capacity
  BY <1>1, <1>2, CapacityIsInt
<1>4. VInv'
  BY GrowthKeeps
<1>5. Entries = 0 .. buffer_size - 1 /\ Entries' = 0 .. buffer_size' - 1
  BY <1>2, <1>4 DEF VInv, Straight, Entries
<1>6. pi' = [b \in Entries' |-> IF b \in Entries THEN pi[b] ELSE NoPiece]
  BY DEF SetMemorySize, PushBack
<1>7. PoolPart' = [b \in 0 .. buffer_size' - 1 |->
                    IF b \in 0 .. buffer_size - 1 THEN PoolPart[b] ELSE NoPiece]
  BY <1>5, <1>6 DEF PoolPart
<1>8. buffer_size' = Pool!SizeFor(c)
  BY DEF SetMemorySize
<1> QED
  BY <1>1, <1>3, <1>7, <1>8 DEF Pool!Grow, Pool!Resize, Pool!Buffers, PoolPart, SetMemorySize

(* Every step is one of the pool, or leaves what the pool sees alone.      *)
LEMMA RefinesStep == VInv /\ [Next]_vars => [stale' \/ Pool!PoolNext]_(Pool!poolVars)
<1> SUFFICES ASSUME VInv, [Next]_vars, ~stale'
             PROVE  Pool!PoolNext \/ UNCHANGED Pool!poolVars
  OBVIOUS
<1> DEFINE Same == UNCHANGED <<capacity, buffer_size, buffer_used, pi, bi>>
<1>1. Same => UNCHANGED Pool!poolVars
  BY DEF Pool!poolVars
<1>2. CASE \E s \in Setters : SetMemorySize(s)
  <2> PICK s \in Setters : SetMemorySize(s)
    BY <1>2
  <2> PICK c : c = asked[s]
    OBVIOUS
  <2> QED BY GrowthRefines DEF Pool!PoolNext
<1>3. CASE \E p \in Pieces : GetBuffer(p)
  <2> PICK p \in Pieces : GetBuffer(p)
    BY <1>3
  <2>1. ~stale
    BY DEF GetBuffer
  <2>2. Pool!Allocate(p)
    BY <2>1, GetRefines
  <2> QED BY <2>2 DEF Pool!PoolNext
<1>4. CASE RemovePiece
  <2> PICK v : v = victim
    OBVIOUS
  <2> QED BY <1>4, RemoveRefines DEF RemovePiece, Pool!PoolNext
<1>5. CASE \E s \in Setters, c \in Capacities : TestSize(s, c)
  BY <1>1, <1>5 DEF TestSize, sizeVars, boundVars
<1>6. CASE \/ \E p \in Pieces : Trim(p)
           \/ \E t \in Stampers : EndStamp(t) \/ \E p \in Pieces : BeginStamp(t, p)
  BY <1>1, <1>6 DEF BeginStamp, EndStamp, Trim, sizeVars, boundVars
<1>7. CASE Compare \/ Take \/ NothingFound \/ Tick
  BY <1>1, <1>7 DEF Compare, Take, NothingFound, Tick, sizeVars, boundVars
<1>8. CASE UNCHANGED vars
  BY <1>1, <1>8 DEF vars, sizeVars, boundVars
<1> QED BY <1>2, <1>3, <1>4, <1>5, <1>6, <1>7, <1>8 DEF Next

(* The vector implements the pool up to the first stale growth: what       *)
(* BufferPool_proofs proves of PoolSpec holds of it until then.            *)
THEOREM VectorIsPool == Spec => AsPool
BY RefinesInit, RefinesStep, VectorInvariance, PTL DEF Spec, AsPool

-----------------------------------------------------------------------------
(* What BufferPool_proofs proves, of the vector as the pool sees it.       *)
Proved == INSTANCE BufferPool_proofs WITH
  buffer_limit <- buffer_size, reserved_pieces <- {},
  pi <- [b \in 0 .. buffer_size - 1 |-> pi[b]]

LEMMA PoolAssumed == Proved!PoolAssumption
BY VectorAssumption
   DEF Proved!PoolAssumption, Proved!IsFiniteSet, IsFiniteSet, Proved!IsSize, Pool!IsSize,
       Proved!Truncated, Pool!Truncated, Proved!MaxInt, Pool!MaxInt

(* It is the same pool that Pool is.                                       *)
LEMMA SameState ==
  /\ Proved!poolVars = Pool!poolVars
  /\ Proved!FreeBuffers = Pool!FreeBuffers
  /\ Proved!NeedsTrim <=> Pool!NeedsTrim
  /\ Proved!Mapping <=> Pool!Mapping
BY DEF Proved!poolVars, Pool!poolVars, Proved!FreeBuffers, Pool!FreeBuffers,
       Proved!NeedsTrim, Pool!NeedsTrim, Proved!Mapping, Pool!Mapping, Proved!IsBuffered,
       Pool!IsBuffered, Proved!NoBuffer, Pool!NoBuffer, Proved!Buffers, Pool!Buffers,
       Proved!UsedBuffers, Pool!UsedBuffers

LEMMA SameSize == \A c : Proved!SizeFor(c) = Pool!SizeFor(c)
BY DEF Proved!SizeFor, Pool!SizeFor, Proved!Truncated, Pool!Truncated, Proved!piece_count,
       Pool!piece_count, Proved!Cardinality, Pool!Cardinality

LEMMA SameInit == Proved!PoolInit <=> Pool!PoolInit
BY SameSize
   DEF Proved!PoolInit, Pool!PoolInit, Proved!Buffers, Pool!Buffers, Proved!NoBuffer,
       Pool!NoBuffer

LEMMA SameStep == Proved!PoolNext <=> Pool!PoolNext
<1>1. \A p \in Pieces : Proved!Allocate(p) <=> Pool!Allocate(p)
  BY DEF Proved!Allocate, Pool!Allocate, Proved!IsBuffered, Pool!IsBuffered, Proved!NoBuffer,
         Pool!NoBuffer, Proved!Assign, Pool!Assign, Proved!FreeBuffers, Pool!FreeBuffers,
         Proved!Buffers, Pool!Buffers, Proved!Charge, Pool!Charge
<1>2. \A b : Proved!Evict(b) <=> Pool!Evict(b)
  BY DEF Proved!Evict, Pool!Evict, Proved!NeedsTrim, Pool!NeedsTrim, Proved!Unbind,
         Pool!Unbind, Proved!NoBuffer, Pool!NoBuffer
<1>3. \A s : Proved!Grow(s) <=> Pool!Grow(s)
  BY SameSize DEF Proved!Grow, Pool!Grow, Proved!Resize, Pool!Resize, Proved!Buffers,
         Pool!Buffers
<1>4. \A S : Proved!SetReserved(S) <=> Pool!SetReserved(S)
  BY DEF Proved!SetReserved, Pool!SetReserved
<1>5. Proved!Buffers = Pool!Buffers
  BY DEF Proved!Buffers, Pool!Buffers
<1> QED
  BY <1>1, <1>2, <1>3, <1>4, <1>5 DEF Proved!PoolNext, Pool!PoolNext

(* Until a stale growth the vector is an unreserved pool that keeps count. *)
Counts == stale \/ (Proved!PoolInv /\ Proved!Exact /\ Proved!Unreserved)

LEMMA CountsInit == Init => Counts
<1> SUFFICES ASSUME Init PROVE Counts
  OBVIOUS
<1>1. Proved!PoolInit
  BY RefinesInit, SameInit
<1>2. Proved!PoolInv /\ Proved!Exact
  BY <1>1, PoolAssumed, Proved!InitPoolInv DEF Proved!InitPoolInv
<1>3. Proved!Unreserved
  BY DEF Proved!Unreserved
<1> QED BY <1>2, <1>3 DEF Counts

LEMMA CountsKept == VInv /\ Counts /\ [Next]_vars => Counts'
<1> SUFFICES ASSUME VInv, Counts, [Next]_vars, ~stale'
             PROVE  Proved!PoolInv' /\ Proved!Exact' /\ Proved!Unreserved'
  BY DEF Counts
<1>1. ~stale
  BY DEF Next, SetMemorySize, TestSize, GetBuffer, BeginStamp, EndStamp, Trim, Compare, Take,
         NothingFound, RemovePiece, Tick, vars
<1>2. Proved!PoolInv /\ Proved!Exact /\ Proved!Unreserved
  BY <1>1 DEF Counts
<1>3. [Proved!PoolNext]_(Proved!poolVars)
  <2>1. Pool!PoolNext \/ UNCHANGED Pool!poolVars
    BY RefinesStep
  <2>2. UNCHANGED Pool!poolVars => UNCHANGED Proved!poolVars
    BY DEF Pool!poolVars, Proved!poolVars
  <2> QED BY <2>1, <2>2, SameStep
<1>4. Proved!PoolInv'
  BY <1>2, <1>3, PoolAssumed, Proved!NextPoolInv DEF Proved!NextPoolInv
<1>5. [Proved!PoolNext /\ UNCHANGED {}]_(Proved!poolVars)
  BY <1>3
<1>6. Proved!Exact' /\ Proved!Unreserved'
  BY <1>2, <1>5, PoolAssumed, Proved!UnreservedKept DEF Proved!UnreservedKept
<1> QED BY <1>4, <1>6

(* However many threads grow the pool, until a call that is overtaken by a *)
(* larger one comes through, buffers and pieces name each other and trim   *)
(* is called for exactly when no entry is free.                            *)
THEOREM VectorKeepsPromises == Spec => []KeepsPromises
<1>1. Counts => KeepsPromises
  <2> SUFFICES ASSUME Proved!PoolInv, Proved!Exact
               PROVE  Pool!Mapping /\ Pool!NoEarlyEviction /\ Pool!FullPoolTrims
    BY DEF Counts, KeepsPromises
  <2>1. Proved!Mapping
    BY DEF Proved!PoolInv
  <2>2. Proved!NoEarlyEviction
    BY PoolAssumed, Proved!FullWhenTrimming DEF Proved!FullWhenTrimming
  <2>3. Proved!FullPoolTrims
    BY PoolAssumed, Proved!ExactTrims DEF Proved!ExactTrims
  <2> QED
    BY <2>1, <2>2, <2>3, SameState
       DEF Proved!NoEarlyEviction, Pool!NoEarlyEviction, Proved!FullPoolTrims,
           Pool!FullPoolTrims
<1> QED BY <1>1, CountsInit, CountsKept, VectorInvariance, PTL DEF Spec

(* For any number of buffers and threads, one eviction is enough for trim  *)
(* until a stale growth.                                                   *)
THEOREM VectorTrimsOnce == Spec => OneVictimPerTrim
<1>1. VInv /\ Counts /\ [Next]_vars => [RemovePiece => stale \/ ~scanning']_vars
  <2> SUFFICES ASSUME VInv, Counts, RemovePiece, ~stale
               PROVE  ~scanning'
    OBVIOUS
  <2>1. Proved!PoolInv /\ Proved!Exact
    BY DEF Counts
  <2>2. /\ buffer_size \in Nat
        /\ Proved!Cardinality(Proved!UsedBuffers) \in 0 .. buffer_size
    <3>1. buffer_size \in Nat
      BY <2>1 DEF Proved!PoolInv, Proved!PoolTypeOK
    <3> QED
      BY <3>1, PoolAssumed, Proved!UsedFinite DEF Proved!UsedFinite
  <2>3. buffer_used \in Int /\ buffer_used <= buffer_size
    BY <2>1, <2>2 DEF Proved!Exact, Proved!PoolInv, Proved!PoolTypeOK
  <2>4. buffer_used' = buffer_used - 1
    BY DEF RemovePiece
  <2>5. ~(buffer_used' >= buffer_size)
    BY <2>2, <2>3, <2>4
  <2>6. TrimAgain
    BY DEF RemovePiece
  <2> QED
    BY <2>5, <2>6 DEF TrimAgain
<1> QED
  BY <1>1, CountsInit, CountsKept, VectorInvariance, PTL DEF Spec, OneVictimPerTrim
=============================================================================
