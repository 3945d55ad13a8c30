---------------------------- MODULE OutputStream ----------------------------
(***************************************************************************)
(* What extendable output promises: one stream of bytes for a root node,   *)
(* of which every read returns the bytes at the position, and moves it,    *)
(* and every read at an explicit position returns the bytes from there.    *)
(***************************************************************************)
EXTENDS Integers, Sequences

CONSTANTS BlockLen,      \* bytes of an output block, 64 in the code
          MaxPosition,   \* u64::MAX in the code
          MaxRead,       \* bound on the length of a read
          SeekPositions, \* targets of the seeks from the start
          SeekOffsets    \* offsets of the seeks from the position

VARIABLES position,   \* of the reader
          returned    \* what the last call returned and the caller has not used

vars == <<position, returned>>

\* Byte p of the stream: the compression it comes from, named by its block
\* counter, and its place in the block.
StreamByte(p) == <<p \div BlockLen, p % BlockLen>>
StreamBytes(p, n) == [i \in 1 .. n |-> StreamByte(p + i - 1)]

Nothing == <<>>

Init == position = 0 /\ returned = Nothing

Read(n) ==
  /\ returned = Nothing
  /\ position + n <= MaxPosition
  /\ returned' = StreamBytes(position, n)
  /\ position' = position + n

ReadAt(p, n) ==
  /\ returned = Nothing
  /\ p + n <= MaxPosition
  /\ returned' = StreamBytes(p, n)
  /\ UNCHANGED position

\* Seeking past the last position goes there, seeking before the first one is
\* refused.
Seek(target) ==
  /\ returned = Nothing
  /\ UNCHANGED returned
  /\ position' = IF target < 0 THEN position
                 ELSE IF target > MaxPosition THEN MaxPosition ELSE target

\* The caller uses the bytes of the last call.
Use == returned' = Nothing /\ UNCHANGED position

Next ==
  \/ Use
  \/ \E p \in SeekPositions : Seek(p)
  \/ \E d \in SeekOffsets : Seek(position + d)
  \/ \E n \in 0 .. MaxRead : Read(n)
  \/ \E p \in 0 .. MaxPosition, n \in 0 .. MaxRead : ReadAt(p, n)

Spec == Init /\ [][Next]_vars
=============================================================================
