-------------------------------- MODULE Arena --------------------------------
(***************************************************************************)
(* The arena (Arena.cpp) from which the emitter, the sequences of          *)
(* parameters and the grids take their memory, and which frees it all at   *)
(* once.  An arena is the sizes of its chunks in the order in which they   *)
(* were made, the position in the last one, and, as history, the blocks it *)
(* handed out.  A chunk of a size holds its header, chunkReserved, and     *)
(* then data.                                                              *)
(***************************************************************************)
EXTENDS Integers, Sequences

CONSTANTS
    chunkSize,      \* 32 * 1024 in the code
    chunkReserved   \* the header of a chunk: its size and the next one

ASSUME ArenaAssumption ==
    chunkSize \in Nat /\ chunkReserved \in Nat /\ chunkReserved < chunkSize

NoChunks == [chunks |-> <<>>, allocPos |-> 0, blocks |-> {}]

Grow(a, size) ==
    [chunks |-> Append(a.chunks, IF size < chunkSize THEN chunkSize ELSE size),
     allocPos |-> 0, blocks |-> a.blocks]
ForgetsHeader(a, size) ==    \* a variation
    IF a.chunks = <<>> \/ a.allocPos + size > a.chunks[Len(a.chunks)] THEN Grow(a, size) ELSE a
EnsureSpace(a, size) ==
    IF a.chunks = <<>> \/ chunkReserved + a.allocPos + size > a.chunks[Len(a.chunks)]
    THEN Grow(a, size) ELSE a
Taken(a, size) ==
    [chunks |-> a.chunks, allocPos |-> a.allocPos + size,
     blocks |-> a.blocks \cup {[chunk |-> Len(a.chunks), at |-> a.allocPos, size |-> size]}]
Malloc(a, size) == Taken(EnsureSpace(a, size), size)

\* The chunks go, the newest first; allocPos stays until the next one is made.
Release(a) == [chunks |-> <<>>, allocPos |-> a.allocPos, blocks |-> {}]
-----------------------------------------------------------------------------
Arenas ==
    [chunks : Seq(Nat), allocPos : Nat, blocks : SUBSET [chunk : Nat, at : Nat, size : Nat]]

\* A block lies inside the data of its chunk, in the last one below allocPos.
InsideChunk(a, b) ==
    /\ b.chunk \in 1..Len(a.chunks)
    /\ chunkReserved + b.at + b.size <= a.chunks[b.chunk]
    /\ b.chunk = Len(a.chunks) => b.at + b.size <= a.allocPos
Apart(b, c) == b.chunk # c.chunk \/ b.at + b.size <= c.at \/ c.at + c.size <= b.at
BlocksApart(a) ==
    /\ \A b \in a.blocks : InsideChunk(a, b)
    /\ \A b, c \in a.blocks : b # c => Apart(b, c)

(* No byte is handed out twice or outside its chunk, as long as no request  *)
(* is larger than the data of a chunk of the usual size: Grow makes room    *)
(* for the request, but not for the header in front of it.                  *)
Fits(size) == chunkReserved + size <= chunkSize
=============================================================================
