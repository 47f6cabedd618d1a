---------------------------- MODULE LimitedReader ----------------------------
(***************************************************************************)
(* A LimitReader (io/limit_reader.rs) over each kind of Reader:            *)
(*   "slice"      &[u8] (io/slice.rs): a failed call changes nothing       *)
(*   "mut_slice"  &mut [u8] (io/slice.rs): a failed call has taken the     *)
(*                slice out of the reader and leaves it empty              *)
(*   "cursor"     Cursor over bytes (io/cursor.rs, io/std_read.rs): may    *)
(*                stand past the end                                       *)
(*   "stream"     ReadAdapter and BufReader (io/std_read.rs): a failed     *)
(*                call may have consumed bytes; no windows of its own      *)
(* Bytes are identified by their offset in the source.  The decoder on top *)
(* reads bytes and sequences of `count` elements of `size` bytes, for      *)
(* which it opens a trusted window; it may fail at any element.            *)
(***************************************************************************)
EXTENDS Integers

CONSTANTS
  SrcLen,       (* bytes in the source                                     *)
  Limit,        (* the limit given to LimitReader::new                     *)
  MaxUsize,     (* usize::MAX                                              *)
  MaxCall,      (* bound: the longest single read, count and element size  *)
  MaxStart      (* bound: the furthest position a cursor starts at         *)

Kinds == {"slice", "mut_slice", "cursor", "stream"}

ASSUME ReaderAssumption ==
  /\ SrcLen \in Nat /\ Limit \in Nat /\ MaxUsize \in Nat
  /\ MaxCall \in Nat /\ MaxStart \in Nat
  /\ SrcLen <= MaxUsize /\ Limit <= MaxUsize

VARIABLES
  kind,         (* the reader underneath                                   *)
  next,         (* the next byte the inner reader would give               *)
  emptied,      (* the mutable slice was taken and not put back            *)
  remaining,    (* LimitReader::remaining                                  *)
  open,         (* a trusted window is in use                              *)
  at,           (* the next byte of the window                             *)
  edge,         (* the end of the memory behind the window                 *)
  left,         (* bytes its holder may still take from it                 *)
  got,          (* <<from, to>>: the bytes last delivered                  *)
  clean,        (* history: no call failed and no window was abandoned     *)
  result        (* outcome of the last call                                *)

vars == <<kind, next, emptied, remaining, open, at, edge, left, got, clean, result>>
window == <<open, at, edge, left>>

Results == {"ok", "limit", "overflow", "io", "unsupported"}

TypeOK ==
  /\ kind \in Kinds
  /\ next \in Nat /\ emptied \in BOOLEAN
  /\ remaining \in 0 .. Limit
  /\ open \in BOOLEAN /\ at \in Nat /\ edge \in Nat /\ left \in Nat
  /\ got \in Nat \X Nat
  /\ clean \in BOOLEAN
  /\ result \in Results

Init ==
  /\ kind \in Kinds
  /\ next \in (IF kind = "cursor" THEN 0 .. MaxStart ELSE {0})
  /\ emptied = FALSE
  /\ remaining = Limit
  /\ open = FALSE /\ at = 0 /\ edge = 0 /\ left = 0
  /\ got = <<next, next>>
  /\ clean = TRUE
  /\ result = "ok"

-----------------------------------------------------------------------------
(* Bytes the inner reader can still give: the position of a cursor is      *)
(* clamped to the source, an emptied slice has none.                       *)
Avail == IF emptied \/ next > SrcLen THEN 0 ELSE SrcLen - next

(* Mutant: the limit is not compared. *)
ReserveUnchecked(n) == remaining' = remaining - n

(* Mutant: a failed read gives its reservation back. *)
ReserveRefunded(n) ==
  /\ n <= remaining
  /\ remaining' = IF n <= Avail THEN remaining - n ELSE remaining

(* reserve_limit: paid before the inner reader is asked, whatever comes of it. *)
Reserve(n) ==
  /\ n <= remaining
  /\ remaining' = remaining - n

(* What a failed inner call leaves behind. *)
FailInner(n) ==
  /\ emptied' = (emptied \/ kind = "mut_slice")
  /\ IF kind = "stream"
     THEN \E k \in 0 .. n - 1 : k <= Avail /\ next' = next + k
     ELSE UNCHANGED next
  /\ clean' = FALSE
  /\ UNCHANGED got

Fetch(n) ==
  /\ n <= Avail
  /\ got' = <<next, next + n>>
  /\ next' = next + n

Take(n) ==
  /\ ~open
  /\ Reserve(n)
  /\ Fetch(n)
  /\ result' = "ok"
  /\ UNCHANGED <<kind, emptied, clean, window>>

(* The limit refuses the call: nothing is reserved, the inner reader is    *)
(* not asked.                                                              *)
OverLimit(n) ==
  /\ ~open
  /\ n > remaining
  /\ result' = "limit"
  /\ clean' = FALSE
  /\ UNCHANGED <<kind, next, emptied, remaining, got, window>>

Starve(n) ==
  /\ ~open
  /\ n > Avail
  /\ Reserve(n)
  /\ FailInner(n)
  /\ result' = "limit"
  /\ UNCHANGED <<kind, window>>

(* read_exact reports an error of the operating system. *)
IoError(n) ==
  /\ ~open
  /\ kind = "stream" /\ n > 0
  /\ Reserve(n)
  /\ FailInner(n)
  /\ result' = "io"
  /\ UNCHANGED <<kind, window>>

(* A borrow the inner reader cannot give (take_borrowed_mut of a slice,    *)
(* take_borrowed of a cursor, any of a stream): refused after the limit    *)
(* was charged.                                                            *)
BorrowRefused(n) ==
  /\ ~open
  /\ kind # "mut_slice"
  /\ Reserve(n)
  /\ result' = "unsupported"
  /\ clean' = FALSE
  /\ UNCHANGED <<kind, next, emptied, got, window>>

-----------------------------------------------------------------------------
(* as_trusted_for_seq(count, size).                                        *)

(* Mutant: the window's length is computed with wrapping multiplication. *)
WindowSizeWrapping(count, size) == (count * size) % (MaxUsize + 1)

WindowSize(count, size) == count * size

Overflow(count, size) ==
  /\ ~open
  /\ WindowSize(count, size) > MaxUsize
  /\ result' = "overflow"
  /\ clean' = FALSE
  /\ UNCHANGED <<kind, next, emptied, remaining, got, window>>

WindowOverLimit(count, size) ==
  /\ WindowSize(count, size) <= MaxUsize
  /\ OverLimit(WindowSize(count, size))

WindowStarved(count, size) ==
  /\ WindowSize(count, size) <= MaxUsize
  /\ kind # "stream"
  /\ Starve(WindowSize(count, size))

(* Mutant: the parent is not moved behind the window. *)
AdvanceForgotten(n) == next' = next

(* Readers over memory hand out the next n bytes and move behind them; a   *)
(* stream hands out itself.                                                *)
Advance(n) == next' = IF kind = "stream" THEN next ELSE next + n

OpenWindow(count, size) ==
  LET n == WindowSize(count, size)
  IN  /\ ~open
      /\ n <= MaxUsize
      /\ kind # "stream" => n <= Avail
      /\ Reserve(n)
      /\ Advance(n)
      /\ open' = TRUE
      /\ at' = next
      /\ edge' = next + n
      /\ left' = count * size
      /\ result' = "ok"
      /\ UNCHANGED <<kind, emptied, got, clean>>

(* The unchecked readers take without looking at the edge.  A stream       *)
(* checks as ever, and no longer passes the limit.                         *)
WindowTake(n) ==
  /\ open /\ n <= left
  /\ IF kind = "stream"
     THEN Fetch(n) /\ UNCHANGED at
     ELSE got' = <<at, at + n>> /\ at' = at + n /\ UNCHANGED next
  /\ left' = left - n
  /\ result' = "ok"
  /\ UNCHANGED <<kind, emptied, remaining, open, edge, clean>>

WindowFails(n) ==
  /\ open /\ n <= left /\ n > 0
  /\ kind = "stream"
  /\ FailInner(n)
  /\ result' \in (IF n > Avail THEN {"limit", "io"} ELSE {"io"})
  /\ open' = FALSE /\ left' = 0
  /\ UNCHANGED <<kind, remaining, at, edge>>

(* Every element was read, or one did not decode and the rest is given up. *)
CloseWindow ==
  /\ open
  /\ open' = FALSE /\ left' = 0
  /\ clean' = (clean /\ left = 0)
  /\ UNCHANGED <<kind, next, emptied, remaining, at, edge, got, result>>

Next ==
  \/ \E n \in 0 .. MaxCall :
       \/ Take(n) \/ OverLimit(n) \/ Starve(n) \/ IoError(n) \/ BorrowRefused(n)
       \/ WindowTake(n) \/ WindowFails(n)
  \/ \E count, size \in 0 .. MaxCall :
       \/ Overflow(count, size) \/ WindowOverLimit(count, size)
       \/ WindowStarved(count, size) \/ OpenWindow(count, size)
  \/ CloseWindow

Spec == Init /\ [][Next]_vars

-----------------------------------------------------------------------------
(* Properties.                                                             *)

(* Whatever its holder still may take, the memory behind a window has it:  *)
(* no unchecked read leaves the window, no window leaves the source        *)
(* (`unsafe fn as_trusted_for`, including count * size near usize::MAX).   *)
WindowInside ==
  open /\ kind # "stream" => at + left <= edge /\ edge <= next /\ (left > 0 => edge <= SrcLen)

(* Bytes are delivered in the order of the source and never twice; as long *)
(* as nothing failed and no window was given up, none is skipped either,   *)
(* however reads and windows alternate.                                    *)
Forward ==
  got' # got => got'[1] >= got[2] /\ (clean => got'[1] = got[2])

DeliversInOrder == [][Forward]_<<got, clean>>

Source == INSTANCE BoundedSource WITH
  place  <- IF open /\ kind # "stream" THEN at ELSE next,
  budget <- remaining + (IF open THEN left ELSE 0)

(* Windows, reader kinds and partial reads do not show: every byte that is *)
(* consumed, delivered or lost, was paid for (the retained reservation of  *)
(* LimitReader, and the limit as a bound on what an inner reader consumes). *)
ImplementsBoundedSource == Source!Spec
=============================================================================
