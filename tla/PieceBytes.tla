------------------------------ MODULE PieceBytes ------------------------------
(***************************************************************************)
(* The bytes of one piece (src/memory_storage.hpp): the loops over the     *)
(* iovecs in readv and writev with their unsigned arithmetic, the window   *)
(* that read copies, and the size by which read tells a piece complete.    *)
(* One thread; the piece may be the last one, shorter than its buffer.     *)
(***************************************************************************)
EXTENDS Integers, Sequences, FiniteSets

CONSTANTS
  piece_length,  \* bytes of a buffer
  length,        \* bytes of the piece
  Modulus,       \* size_t is unsigned: its values are 0 .. Modulus - 1
  Offsets,       \* where calls start
  Vectors,       \* the iovecs of a call: sequences of lengths
  Sizes,         \* how many bytes the player asks read for
  MaxSize        \* bound: no write starts once size is this large

ASSUME BytesAssumption ==
  /\ length \in Nat \ {0} /\ piece_length \in Nat /\ length <= piece_length
  /\ Modulus \in Nat /\ piece_length < Modulus
  /\ Offsets \subseteq Nat /\ \A o \in Offsets : o < Modulus
  /\ Vectors \subseteq Seq(Nat)
  /\ Sizes \subseteq Nat /\ MaxSize \in Nat

VARIABLES
  buffered, size,  \* pieces[p].bi # -1, pieces[p].size
  written,         \* the bytes of the buffer that writev has filled
  op,              \* "idle", "readv" or "writev"
  offset, bufs,    \* its arguments
  i, file_offset, n,
  served, result,  \* the bytes that the last read copied, and what the last call returned
  irregular,       \* history: since the piece got its buffer, a byte was written twice or
                   \* a write started past the end
  overrun          \* a copy reached outside of the buffer

pieceVars == <<buffered, size, written, irregular>>
callVars  == <<op, offset, bufs, i, file_offset, n>>
vars == <<pieceVars, callVars, served, result, overrun>>

Init ==
  /\ buffered = FALSE /\ size = 0 /\ written = {}
  /\ op = "idle" /\ offset = 0 /\ bufs = <<>> /\ i = 0 /\ file_offset = 0 /\ n = 0
  /\ served = {} /\ result = 0
  /\ irregular = FALSE /\ overrun = FALSE

Range0(first, many) == first .. first + many - 1

(* size_t(a) - b.                                                          *)
Minus(a, b) == (a - b) % Modulus

(* Where the copy stops: writev at the end of the piece, readv at that of  *)
(* the buffer.                                                             *)
Limit == IF op = "writev" THEN length ELSE piece_length

-----------------------------------------------------------------------------
Call(name, o, v) ==
  /\ op = "idle"
  /\ op' = name /\ offset' = o /\ bufs' = v
  /\ i' = 0 /\ file_offset' = o /\ n' = 0
  /\ served' = {}
  /\ UNCHANGED <<size, written, irregular, result, overrun>>

(* get_write_buffer has bound the piece, get_read_buffer found it bound.   *)
Writev(o, v) == size < MaxSize /\ Call("writev", o, v) /\ buffered' = TRUE

Readv(o, v) == buffered /\ Call("readv", o, v) /\ UNCHANGED buffered

(* A fault, in the code as a comment: the whole iovec is copied.           *)
WholeBuffer == bufs[i + 1]

ToCopy ==
  LET left == Minus(Limit, file_offset)
  IN  IF bufs[i + 1] < left THEN bufs[i + 1] ELSE left

(* A fault: every iovec is copied from and to the same place.              *)
StayAt(copied) == UNCHANGED file_offset /\ n' = n + copied

Advance(copied) == file_offset' = file_offset + copied /\ n' = n + copied

CopyBuffer ==
  LET bytes == Range0(file_offset, ToCopy)
  IN  /\ op # "idle" /\ i < Len(bufs)
      /\ i' = i + 1
      /\ Advance(ToCopy)
      /\ overrun' = (ToCopy > 0 /\ file_offset + ToCopy > piece_length)
      /\ IF op = "writev"
         THEN /\ written' = written \cup (bytes \cap Range0(0, piece_length))
              /\ irregular' = (irregular \/ bytes \cap written # {} \/ offset > length)
         ELSE UNCHANGED <<written, irregular>>
      /\ UNCHANGED <<buffered, size, op, offset, bufs, served, result>>

(* pieces[piece].size += n.  is_completed is never set, so is_read is not. *)
Return ==
  /\ op # "idle" /\ i = Len(bufs)
  /\ size' = IF op = "writev" THEN size + n ELSE size
  /\ result' = n
  /\ op' = "idle"
  /\ UNCHANGED <<buffered, written, irregular, offset, bufs, i, file_offset, n, served, overrun>>

(* A fault: available leaves the offset out.                               *)
AvailableFromStart(o) == piece_length

Available(o) == piece_length - o

(* What read copies: available, cut down to the request.                   *)
Window(o, many) == Range0(o, IF many > Available(o) THEN Available(o) ELSE many)

(* read: nothing of a piece it takes for incomplete, nothing past the end  *)
(* of the buffer; and the size asked for is returned whatever was copied.  *)
Read(o, many) ==
  /\ op = "idle"
  /\ \/ /\ ~buffered \/ size < length
        /\ result' = -1 /\ served' = {}
     \/ /\ buffered /\ size >= length
        /\ served' = Window(o, many)
        /\ result' = IF Available(o) <= 0 THEN 0 ELSE many
  /\ offset' = o
  /\ UNCHANGED <<pieceVars, op, bufs, i, file_offset, n, overrun>>

(* A fault: the size of the piece is not reset.                            *)
ResetPieceNotSize == buffered' = FALSE /\ UNCHANGED size

ResetPiece == buffered' = FALSE /\ size' = 0

(* A fault: the bytes of the piece stay in the buffer.                     *)
KeepBuffer == UNCHANGED written

(* The buffer is filled with zeros.                                        *)
ResetBuffer == written' = {}

(* remove_piece, called by the trim of a write to another piece.           *)
RemovePiece ==
  /\ op = "idle" /\ buffered
  /\ ResetBuffer /\ ResetPiece
  /\ irregular' = FALSE /\ served' = {}
  /\ UNCHANGED <<callVars, result, overrun>>

Next ==
  /\ ~overrun
  /\ \/ \E o \in Offsets, v \in Vectors : Writev(o, v) \/ Readv(o, v)
     \/ CopyBuffer \/ Return
     \/ \E o \in Offsets, many \in Sizes : Read(o, many)
     \/ RemovePiece

Spec == Init /\ [][Next]_vars

-----------------------------------------------------------------------------
(* No call that starts inside the piece copies a byte outside the buffer,  *)
(* whatever its iovecs add up to; the subtraction from the length wraps    *)
(* around only for one that starts past the end.                           *)
CopyInBounds == op # "idle" /\ offset <= Limit => ~overrun /\ file_offset <= Limit

(* What readv and writev return is what they were asked for, or all there  *)
(* is from the offset to the end.  Total(v)[k] is what the first k iovecs  *)
(* ask for.                                                                *)
Total(v) ==
  LET upTo[k \in 0 .. Len(v)] == IF k = 0 THEN 0 ELSE upTo[k - 1] + v[k]
  IN  upTo

Asked == Total(bufs)[Len(bufs)]

CountsCopied ==
  op # "idle" /\ offset <= Limit /\ i = Len(bufs) =>
    n = IF Asked < Limit - offset THEN Asked ELSE Limit - offset

(* read serves only bytes that were written, although it knows no more of  *)
(* them than their number, as long as no byte was written twice: after a   *)
(* failed hash, or a restore_piece, size counts the same bytes again.      *)
ServesWritten ==
  ~irregular => served \cap Range0(0, length) \subseteq written

(* The piece is one of a PieceStore: its bytes stay until it is removed,   *)
(* all of them go at once, and a call copies only while there is a buffer. *)
Pieces == {0}
Blocks == Range0(0, piece_length)

Store == INSTANCE PieceStore WITH
  bound  <- IF buffered THEN Pieces ELSE {},
  stored <- [p \in Pieces |-> written],
  room   <- 1

IsStore == Store!StoreSpec

(* read copies nothing from outside the buffer, and claims more bytes than *)
(* it copied only for a request that runs past the end of the buffer.      *)
ClaimsWhatItCopied ==
  op = "idle" =>
    /\ served \subseteq Range0(0, piece_length)
    /\ served = {} \/ served = Range0(offset, result) \/ offset + result > piece_length
=============================================================================
