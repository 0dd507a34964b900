--------------------------- MODULE PieceBytes_proofs ---------------------------
(***************************************************************************)
(* For pieces and buffers of any length, any iovecs and any width of the   *)
(* unsigned type: where the copies stop, and why the size of a piece tells *)
(* read that all of it is there.                                           *)
(***************************************************************************)
EXTENDS PieceBytes, FiniteSetTheorems, WellFoundedInduction, TLAPS

CallTypes ==
  /\ op \in {"idle", "readv", "writev"}
  /\ offset \in Nat /\ file_offset \in Nat /\ n \in Nat /\ i \in Nat /\ size \in Nat
  /\ bufs \in Seq(Nat)

(* No copy goes past the limit of a call that started before it.           *)
Bounded == CopyInBounds

(* The bytes of a regular piece were counted one by one, the ones of the   *)
(* write under way in n.                                                   *)
Counted ==
  ~irregular =>
    /\ written \subseteq Range0(0, length)
    /\ Cardinality(written) = IF op = "writev" THEN size + n ELSE size

Served ==
  /\ op # "idle" => served = {}
  /\ ServesWritten
  /\ ClaimsWhatItCopied

(* After i of its iovecs a call has copied what they ask for, or all there  *)
(* is up to its limit, and goes on where that ends.                        *)
Paid ==
  op # "idle" /\ offset <= Limit =>
    /\ i <= Len(bufs)
    /\ n = IF Total(bufs)[i] < Limit - offset THEN Total(bufs)[i] ELSE Limit - offset
    /\ file_offset = offset + n

BInv == CallTypes /\ Bounded /\ Counted /\ Paid /\ Served

-----------------------------------------------------------------------------
(* Below the limit the unsigned subtraction is the subtraction.            *)
LEMMA MinusIsMinus ==
  ASSUME NEW a \in Nat, NEW b \in Nat, b <= a, a < Modulus
  PROVE  Minus(a, b) = a - b
BY BytesAssumption DEF Minus

(* What an iteration copies ends at the limit at the latest.               *)
LEMMA CopyEnds ==
  ASSUME BInv, CopyBuffer, file_offset <= Limit
  PROVE  /\ ToCopy \in Nat /\ file_offset + ToCopy <= Limit
         /\ Limit \in Nat /\ Limit <= piece_length
<1>1. Limit \in Nat /\ Limit <= piece_length /\ Limit < Modulus
  BY BytesAssumption DEF Limit
<1>2. file_offset \in Nat /\ bufs[i + 1] \in Nat
  BY DEF BInv, CallTypes, CopyBuffer
<1>3. Minus(Limit, file_offset) = Limit - file_offset
  BY <1>1, <1>2, MinusIsMinus
<1> QED BY <1>1, <1>2, <1>3 DEF ToCopy

(* Induction, for a set of numbers.                                        *)
LEMMA AllNumbers ==
  ASSUME NEW S \in SUBSET Nat, 0 \in S, \A k \in S : k + 1 \in S
  PROVE  S = Nat
<1> SUFFICES ASSUME Nat \ S # {} PROVE FALSE
  OBVIOUS
<1>1. PICK k \in Nat \ S : \A j \in Nat \ S : ~(<<j, k>> \in OpToRel(<, Nat))
  <2>1. Nat \ S \subseteq Nat
    OBVIOUS
  <2> QED BY <2>1, NatLessThanWellFounded, WFMin
<1>2. \A j \in Nat \ S : ~(j < k)
  BY <1>1 DEF OpToRel
<1>3. k - 1 \in S
  BY <1>2
<1> QED BY <1>3

(* A sum over the elements of a sequence, one by one, exists.              *)
LEMMA SumExists ==
  ASSUME NEW v \in Seq(Nat), NEW m \in Nat, m <= Len(v)
  PROVE  \E f : f = [k \in 0 .. m |-> IF k = 0 THEN 0 ELSE f[k - 1] + v[k]]
<1> DEFINE Sum(f, j) == f = [k \in 0 .. j |-> IF k = 0 THEN 0 ELSE f[k - 1] + v[k]]
           S == {j \in Nat : j <= Len(v) => \E f : Sum(f, j)}
<1>1. 0 \in S
  <2>1. Sum([k \in 0 .. 0 |-> 0], 0)
    OBVIOUS
  <2> QED BY <2>1
<1>2. ASSUME NEW j \in S, j + 1 <= Len(v)
      PROVE  \E f : Sum(f, j + 1)
  <2>1. j \in Nat /\ Len(v) \in Nat
    OBVIOUS
  <2>2. PICK g : Sum(g, j)
    BY <1>2, <2>1
  <2> DEFINE f == [k \in 0 .. j + 1 |-> IF k = j + 1 THEN g[j] + v[k] ELSE g[k]]
  <2>3. \A k \in 0 .. j : f[k] = g[k]
    BY <2>1
  <2>4. \A k \in 0 .. j : g[k] = IF k = 0 THEN 0 ELSE g[k - 1] + v[k]
    BY <2>2
  <2>5. ASSUME NEW k \in 0 .. j + 1
        PROVE  f[k] = IF k = 0 THEN 0 ELSE f[k - 1] + v[k]
    <3>1. CASE k = j + 1
      BY <2>1, <2>3, <3>1
    <3>2. CASE k # j + 1
      <4>1. k \in 0 .. j /\ (k # 0 => k - 1 \in 0 .. j)
        BY <2>1, <3>2
      <4> QED BY <2>3, <2>4, <4>1
    <3> QED BY <3>1, <3>2
  <2> HIDE DEF f
  <2>6. f = [k \in 0 .. j + 1 |-> f[k]]
    BY DEF f
  <2>7. Sum(f, j + 1)
    BY <2>5, <2>6
  <2> QED BY <2>7
<1> HIDE DEF Sum
<1>3. \A j \in S : j + 1 \in S
  BY <1>2
<1> HIDE DEF S
<1>4. S = Nat
  <2>1. S \subseteq Nat
    BY DEF S
  <2> QED BY <1>1, <1>3, <2>1, AllNumbers
<1> QED BY <1>4 DEF S, Sum

(* What the iovecs ask for, one at a time.                                 *)
LEMMA TotalAdds ==
  ASSUME NEW v \in Seq(Nat)
  PROVE  /\ Total(v)[0] = 0
         /\ \A k \in 1 .. Len(v) : Total(v)[k] = Total(v)[k - 1] + v[k]
         /\ \A k \in 0 .. Len(v) : Total(v)[k] \in Nat
<1> DEFINE f == Total(v)
<1>0. Len(v) \in Nat
  OBVIOUS
<1>1. f = [k \in 0 .. Len(v) |-> IF k = 0 THEN 0 ELSE f[k - 1] + v[k]]
  <2>1. \E g : g = [k \in 0 .. Len(v) |-> IF k = 0 THEN 0 ELSE g[k - 1] + v[k]]
    BY <1>0, SumExists
  <2> QED BY <2>1 DEF Total
<1> HIDE DEF f
<1>2. \A k \in 0 .. Len(v) : f[k] = IF k = 0 THEN 0 ELSE f[k - 1] + v[k]
  BY <1>1
<1>3. f[0] = 0 /\ \A k \in 1 .. Len(v) : f[k] = f[k - 1] + v[k]
  BY <1>0, <1>2
<1> DEFINE S == {k \in Nat : k <= Len(v) => f[k] \in Nat}
<1>4. S = Nat
  <2>1. 0 \in S
    BY <1>3
  <2>2. ASSUME NEW k \in S, k + 1 <= Len(v)
        PROVE  f[k + 1] \in Nat
    <3>1. k \in Nat /\ f[k] \in Nat /\ k + 1 \in 1 .. Len(v)
      BY <1>0, <2>2
    <3>2. v[k + 1] \in Nat
      BY <3>1
    <3>3. f[k + 1] = f[k] + v[k + 1]
      BY <1>3, <3>1
    <3> QED BY <3>1, <3>2, <3>3
  <2>3. \A k \in S : k + 1 \in S
    BY <2>2
  <2> HIDE DEF S
  <2>4. S \subseteq Nat
    BY DEF S
  <2> QED BY <2>1, <2>3, <2>4, AllNumbers
<1>5. \A k \in 0 .. Len(v) : f[k] \in Nat
  BY <1>0, <1>4
<1> QED BY <1>3, <1>5 DEF f

(* The bytes of a window are as many as it is long.                        *)
LEMMA RangeCounts ==
  ASSUME NEW first \in Nat, NEW many \in Nat
  PROVE  IsFiniteSet(Range0(first, many)) /\ Cardinality(Range0(first, many)) = many
BY FS_Interval DEF Range0

(* A piece all of whose bytes were counted has them all.                   *)
LEMMA AllCounted ==
  ASSUME NEW S \in SUBSET Range0(0, length), Cardinality(S) >= length
  PROVE  S = Range0(0, length)
<1>1. IsFiniteSet(Range0(0, length)) /\ Cardinality(Range0(0, length)) = length
  BY RangeCounts, BytesAssumption
<1> QED BY <1>1, FS_Subset, FS_CardinalityType, BytesAssumption

-----------------------------------------------------------------------------
LEMMA BytesInit == Init => BInv
<1> SUFFICES ASSUME Init PROVE BInv
  OBVIOUS
<1>1. CallTypes
  BY DEF Init, CallTypes
<1>2. Cardinality({}) = 0
  BY FS_EmptySet
<1> QED
  BY <1>1, <1>2 DEF Init, BInv, Bounded, CopyInBounds, Counted, Paid, Served, ServesWritten,
    ClaimsWhatItCopied

(* A call starts at its offset, with nothing counted.                      *)
LEMMA CallKeeps ==
  ASSUME BInv, ~overrun, NEW o \in Offsets, NEW v \in Vectors, Writev(o, v) \/ Readv(o, v)
  PROVE  BInv'
<1>1. o \in Nat /\ v \in Seq(Nat)
  BY BytesAssumption
<1>2. CallTypes'
  BY <1>1 DEF BInv, CallTypes, Writev, Readv, Call
<1>3. Bounded'
  BY DEF Bounded, CopyInBounds, Writev, Readv, Call
<1>4. Counted'
  BY DEF BInv, CallTypes, Counted, Writev, Readv, Call
<1>5. Served'
  BY DEF Served, ServesWritten, ClaimsWhatItCopied, Writev, Readv, Call
<1>6. Paid'
  <2>1. i' = 0 /\ n' = 0 /\ file_offset' = o /\ offset' = o /\ bufs' = v
    BY DEF Writev, Readv, Call
  <2>2. Total(v)[0] = 0 /\ Len(v) \in Nat
    BY <1>1, TotalAdds
  <2>3. PICK limit \in Nat : Limit' = limit
    BY BytesAssumption DEF Limit
  <2>4. ASSUME o <= limit
        PROVE  0 = IF Total(v)[0] < limit - o THEN Total(v)[0] ELSE limit - o
    BY <1>1, <2>2, <2>4
  <2> QED BY <1>1, <2>1, <2>2, <2>3, <2>4 DEF Paid
<1> QED BY <1>2, <1>3, <1>4, <1>5, <1>6 DEF BInv

(* A copy counts every byte it adds to a regular piece exactly once.       *)
LEMMA CopyKeeps ==
  ASSUME BInv, CopyBuffer
  PROVE  BInv'
<1> DEFINE bytes == Range0(file_offset, ToCopy)
<1>0. ToCopy \in Nat
  <2>1. bufs[i + 1] \in Nat
    BY DEF BInv, CallTypes, CopyBuffer
  <2>2. Limit \in Int /\ file_offset \in Int
    BY BytesAssumption DEF Limit, BInv, CallTypes
  <2>3. Minus(Limit, file_offset) \in Nat
    BY <2>2, BytesAssumption DEF Minus
  <2> QED BY <2>1, <2>3 DEF ToCopy
<1>1. CallTypes'
  BY <1>0 DEF BInv, CallTypes, CopyBuffer, Advance
<1>2. Bounded'
  <2> SUFFICES ASSUME offset <= Limit PROVE ~overrun' /\ file_offset' <= Limit
    BY DEF Bounded, CopyInBounds, CopyBuffer, Limit
  <2>1. file_offset <= Limit
    BY DEF BInv, Bounded, CopyInBounds, CopyBuffer
  <2>2. file_offset + ToCopy <= Limit /\ Limit \in Nat /\ Limit <= piece_length
    BY <2>1, CopyEnds
  <2>3. ~(ToCopy > 0 /\ file_offset + ToCopy > piece_length)
    BY <1>0, <2>2, BytesAssumption DEF BInv, CallTypes
  <2> QED BY <2>2, <2>3 DEF CopyBuffer, Advance
<1>3. Counted'
  <2>1. CASE op = "writev"
    <3> SUFFICES ASSUME ~irregular'
                 PROVE  /\ written' \subseteq Range0(0, length)
                        /\ Cardinality(written') = size + n'
      BY <2>1 DEF Counted, CopyBuffer
    <3>1. ~irregular /\ bytes \cap written = {} /\ ~(offset > length)
      BY <2>1 DEF CopyBuffer
    <3>2. file_offset <= Limit /\ Limit = length
      BY <2>1, <3>1, BytesAssumption DEF BInv, CallTypes, Bounded, CopyInBounds, Limit
    <3>3. file_offset + ToCopy <= length /\ length <= piece_length
      BY <3>2, CopyEnds
    <3>4. bytes \subseteq Range0(0, length) /\ bytes \subseteq Range0(0, piece_length)
      BY <1>0, <3>3, BytesAssumption DEF Range0, BInv, CallTypes
    <3>5. written' = written \cup bytes
      BY <2>1, <3>4 DEF CopyBuffer
    <3>6. written \subseteq Range0(0, length) /\ Cardinality(written) = size + n
      BY <2>1, <3>1 DEF BInv, Counted
    <3>7. IsFiniteSet(Range0(0, length))
      BY RangeCounts, BytesAssumption
    <3>8. IsFiniteSet(written)
      BY <3>6, <3>7, FS_Subset
    <3>9. IsFiniteSet(bytes) /\ Cardinality(bytes) = ToCopy
      BY <1>0, RangeCounts DEF BInv, CallTypes
    <3> HIDE DEF bytes
    <3>10. Cardinality(written \cup bytes) = Cardinality(written) + Cardinality(bytes)
      <4>1. Cardinality(written \cup bytes) =
              Cardinality(written) + Cardinality(bytes) - Cardinality(written \cap bytes)
        BY <3>8, <3>9, FS_Union
      <4>2. Cardinality(written \cap bytes) = 0
        <5>1. written \cap bytes = {}
          BY <3>1
        <5> QED BY <5>1, FS_EmptySet
      <4>3. Cardinality(written) \in Nat /\ Cardinality(bytes) \in Nat
        BY <3>8, <3>9, FS_CardinalityType
      <4> QED BY <4>1, <4>2, <4>3
    <3>11. n' = n + ToCopy
      BY DEF CopyBuffer, Advance
    <3> QED BY <1>0, <3>4, <3>5, <3>6, <3>9, <3>10, <3>11 DEF BInv, CallTypes
  <2>2. CASE op # "writev"
    BY <2>2 DEF BInv, Counted, CopyBuffer
  <2> QED BY <2>1, <2>2
<1>4. Served'
  BY DEF BInv, Served, ServesWritten, ClaimsWhatItCopied, CopyBuffer
<1>5. Paid'
  <2> SUFFICES ASSUME offset <= Limit
               PROVE  /\ i' <= Len(bufs)
                      /\ n' = IF Total(bufs)[i'] < Limit - offset THEN Total(bufs)[i']
                              ELSE Limit - offset
                      /\ file_offset' = offset + n'
    BY DEF Paid, CopyBuffer, Limit
  <2> DEFINE asked == Total(bufs)[i]  more == bufs[i + 1]
  <2>1. /\ i < Len(bufs) /\ file_offset = offset + n
        /\ n = IF asked < Limit - offset THEN asked ELSE Limit - offset
    BY DEF BInv, Paid, CopyBuffer
  <2>2. /\ Total(bufs)[i + 1] = asked + more
        /\ asked \in Nat /\ more \in Nat /\ offset \in Nat /\ Len(bufs) \in Nat /\ i \in Nat
    <3>1. i + 1 \in 1 .. Len(bufs) /\ i \in 0 .. Len(bufs) /\ bufs \in Seq(Nat)
      BY <2>1 DEF BInv, CallTypes
    <3> QED BY <3>1, TotalAdds DEF BInv, CallTypes
  <2>3. Limit \in Nat /\ Limit < Modulus
    BY BytesAssumption DEF Limit
  <2>4. Minus(Limit, file_offset) = Limit - file_offset
    BY <2>1, <2>2, <2>3, MinusIsMinus
  <2>5. ToCopy = IF more < Limit - file_offset THEN more ELSE Limit - file_offset
    BY <2>4 DEF ToCopy
  <2>6. i' = i + 1 /\ n' = n + ToCopy /\ file_offset' = file_offset + ToCopy
    BY DEF CopyBuffer, Advance
  <2> HIDE DEF asked, more
  <2> QED BY <2>1, <2>2, <2>3, <2>5, <2>6
<1> QED BY <1>1, <1>2, <1>3, <1>4, <1>5 DEF BInv

LEMMA ReturnKeeps ==
  ASSUME BInv, Return
  PROVE  BInv'
<1>1. CallTypes'
  BY DEF BInv, CallTypes, Return
<1>2. Bounded'
  BY DEF Bounded, CopyInBounds, Return
<1>3. Counted'
  BY DEF BInv, Counted, Return
<1>4. Served'
  BY DEF BInv, Served, ServesWritten, ClaimsWhatItCopied, Return
<1> QED BY <1>1, <1>2, <1>3, <1>4 DEF BInv, Paid, Return

(* The window of a read ends at the end of the buffer at the latest, and   *)
(* is shorter than what was asked for only then.                           *)
LEMMA WindowInBuffer ==
  ASSUME NEW o \in Offsets, NEW many \in Sizes, Read(o, many), served' = Window(o, many),
         served' # {}
  PROVE  /\ served' \subseteq Range0(0, piece_length) /\ offset' = o
         /\ served' = Range0(o, result') \/ o + result' > piece_length
<1>1. o \in Nat /\ many \in Nat /\ piece_length \in Nat
  BY BytesAssumption
<1>2. result' = many
  <2>1. CASE Available(o) <= 0
    <3>1. Window(o, many) = {}
      BY <1>1, <2>1 DEF Window, Range0, Available
    <3> QED BY <3>1
  <2>2. CASE ~(Available(o) <= 0)
    BY <2>2 DEF Read
  <2> QED BY <2>1, <2>2
<1> QED BY <1>1, <1>2 DEF Read, Window, Range0, Available

(* A read of a regular piece that is as large as it is long serves from    *)
(* what was written: all of it was.                                        *)
LEMMA ReadKeeps ==
  ASSUME BInv, NEW o \in Offsets, NEW many \in Sizes, Read(o, many)
  PROVE  BInv'
<1>1. CallTypes'
  BY BytesAssumption DEF BInv, CallTypes, Read, pieceVars
<1>2. Bounded'
  BY DEF Bounded, CopyInBounds, Read
<1>3. Counted'
  BY DEF BInv, Counted, Read, pieceVars
<1>4. Served'
  <2>1. CASE served' = {}
    BY <2>1 DEF Served, ServesWritten, ClaimsWhatItCopied, Read
  <2>2. CASE size >= length /\ served' = Window(o, many)
    <3>1. ServesWritten'
      <4>1. ~irregular => written = Range0(0, length)
        BY <2>2, AllCounted DEF BInv, Counted, Read
      <4> QED BY <4>1 DEF ServesWritten, Read, pieceVars
    <3>2. ClaimsWhatItCopied'
      BY <2>2, WindowInBuffer DEF ClaimsWhatItCopied, Read
    <3> QED BY <3>1, <3>2 DEF Served, Read
  <2> QED BY <2>1, <2>2 DEF Read
<1> QED BY <1>1, <1>2, <1>3, <1>4 DEF BInv, Paid, Read

LEMMA EvictionKeeps ==
  ASSUME BInv, RemovePiece
  PROVE  BInv'
<1>1. CallTypes'
  BY DEF BInv, CallTypes, RemovePiece, ResetBuffer, ResetPiece, callVars
<1>2. Bounded'
  BY DEF Bounded, CopyInBounds, RemovePiece, callVars
<1>3. Cardinality({}) = 0
  BY FS_EmptySet
<1>4. Counted' /\ Served'
  BY <1>3 DEF Counted, Served, ServesWritten, ClaimsWhatItCopied, RemovePiece, ResetBuffer, ResetPiece, callVars
<1> QED BY <1>1, <1>2, <1>4 DEF BInv, Paid, RemovePiece, callVars

LEMMA BytesStep == BInv /\ [Next]_vars => BInv'
<1> SUFFICES ASSUME BInv, [Next]_vars PROVE BInv'
  OBVIOUS
<1>1. CASE UNCHANGED vars
  BY <1>1 DEF vars, pieceVars, callVars, BInv, CallTypes, Bounded, CopyInBounds, Limit, Counted,
    Paid, Served, ServesWritten, ClaimsWhatItCopied
<1>2. CASE Next
  BY <1>2, CallKeeps, CopyKeeps, ReturnKeeps, ReadKeeps, EvictionKeeps DEF Next
<1> QED BY <1>1, <1>2

LEMMA BytesInvariance == Spec => []BInv
BY BytesInit, BytesStep, PTL DEF Spec

-----------------------------------------------------------------------------
(* Whatever the iovecs of a call add up to, and however wide the unsigned  *)
(* type is, a call that starts inside its piece stays inside its buffer.   *)
THEOREM CopiesInBounds == Spec => []CopyInBounds
<1>1. BInv => CopyInBounds
  BY DEF BInv, Bounded
<1> QED BY <1>1, BytesInvariance, PTL

(* However many iovecs a call has, what it returns is what they ask for    *)
(* together, or all there is from the offset to the end.                   *)
THEOREM CountIsExact == Spec => []CountsCopied
<1>1. BInv => CountsCopied
  BY DEF BInv, Paid, CountsCopied, Asked
<1> QED BY <1>1, BytesInvariance, PTL

(* A piece of any length whose size has reached its length serves only     *)
(* bytes that were written, as long as none was written twice.             *)
THEOREM ServedWasWritten == Spec => []ServesWritten
<1>1. BInv => ServesWritten
  BY DEF BInv, Served
<1> QED BY <1>1, BytesInvariance, PTL

(* read never copies from outside its buffer, and promises more than it    *)
(* copied only at the buffer's end.                                        *)
THEOREM ClaimsAreCopied == Spec => []ClaimsWhatItCopied
<1>1. BInv => ClaimsWhatItCopied
  BY DEF BInv, Served
<1> QED BY <1>1, BytesInvariance, PTL

-----------------------------------------------------------------------------
(* A piece without a buffer has no bytes, and no call works on one.        *)
NothingLeft ==
  /\ buffered \in BOOLEAN /\ written \subseteq Blocks
  /\ ~buffered => op = "idle" /\ written = {}

LEMMA MemoryStep ==
  ASSUME NothingLeft, [Next]_vars
  PROVE  NothingLeft' /\ [Store!StoreNext]_(Store!storeVars)
<1>1. ASSUME UNCHANGED <<buffered, written>>
      PROVE  [Store!StoreNext]_(Store!storeVars)
  BY <1>1 DEF Store!storeVars
<1>2. ASSUME NEW o \in Offsets, NEW v \in Vectors, Writev(o, v)
      PROVE  NothingLeft' /\ [Store!StoreNext]_(Store!storeVars)
  <2>1. buffered' /\ UNCHANGED written /\ NothingLeft'
    BY <1>2 DEF Writev, Call, NothingLeft
  <2>2. CASE buffered
    <3>1. UNCHANGED <<buffered, written>>
      BY <2>1, <2>2 DEF NothingLeft
    <3> QED BY <1>1, <2>1, <3>1
  <2>3. CASE ~buffered
    <3>1. [p \in Pieces |-> written]' = [[p \in Pieces |-> written] EXCEPT ![0] = {}]
      BY <2>1, <2>3 DEF NothingLeft, Pieces
    <3>2. Store!Cardinality({}) = 0
      BY FS_EmptySet DEF Store!Cardinality, Cardinality
    <3>3. Store!Bind(0)
      BY <2>1, <2>3, <3>1, <3>2 DEF Store!Bind, Pieces
    <3> QED BY <2>1, <3>3 DEF Store!StoreNext, Pieces
  <2> QED BY <2>2, <2>3 DEF NothingLeft
<1>3. ASSUME CopyBuffer
      PROVE  NothingLeft' /\ [Store!StoreNext]_(Store!storeVars)
  <2>1. PICK K \in SUBSET Blocks : written' = written \cup K
    <3>1. CASE op = "writev"
      BY <1>3, <3>1 DEF CopyBuffer, Blocks
    <3>2. CASE op # "writev"
      <4>1. written' = written \cup {}
        BY <1>3, <3>2 DEF CopyBuffer
      <4> QED BY <4>1
    <3> QED BY <3>1, <3>2
  <2>2. buffered /\ UNCHANGED buffered
    BY <1>3 DEF CopyBuffer, NothingLeft
  <2>3. NothingLeft'
    BY <2>1, <2>2 DEF NothingLeft, Blocks
  <2>4. [p \in Pieces |-> written]' = [[p \in Pieces |-> written] EXCEPT ![0] = @ \cup K]
    BY <2>1 DEF Pieces
  <2>5. Store!Write(0)
    BY <2>2, <2>4 DEF Store!Write, Pieces
  <2> QED BY <2>3, <2>5 DEF Store!StoreNext, Pieces
<1>4. ASSUME RemovePiece
      PROVE  NothingLeft' /\ [Store!StoreNext]_(Store!storeVars)
  <2>1. buffered /\ ~buffered' /\ written' = {} /\ NothingLeft'
    BY <1>4 DEF RemovePiece, ResetBuffer, ResetPiece, callVars, NothingLeft
  <2>2. Store!Drop(Pieces)
    BY <2>1 DEF Store!Drop
  <2> QED BY <2>1, <2>2 DEF Store!StoreNext
<1>5. CASE UNCHANGED vars
  BY <1>1, <1>5 DEF vars, pieceVars, callVars, NothingLeft, Blocks
<1>6. ASSUME \/ \E o \in Offsets, v \in Vectors : Readv(o, v)
             \/ Return
             \/ \E o \in Offsets, many \in Sizes : Read(o, many)
      PROVE  NothingLeft' /\ UNCHANGED <<buffered, written>>
  BY <1>6 DEF Readv, Call, Return, Read, pieceVars, NothingLeft, Blocks
<1> QED
  BY <1>1, <1>2, <1>3, <1>4, <1>5, <1>6 DEF Next

(* Whatever the calls on a piece are, its bytes are those of one piece of  *)
(* a store: only a removal takes any, and it takes them all.               *)
THEOREM PieceOfStore == Spec => IsStore
<1>1. Init => NothingLeft /\ Store!StoreInit
  BY DEF Init, NothingLeft, Store!StoreInit
<1>2. NothingLeft /\ [Next]_vars => NothingLeft' /\ [Store!StoreNext]_(Store!storeVars)
  BY MemoryStep
<1> QED BY <1>1, <1>2, PTL DEF Spec, IsStore, Store!StoreSpec
=============================================================================
