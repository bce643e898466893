-------------------------------- MODULE Arena --------------------------------
(***************************************************************************)
(* leveldb's Arena: the memory of a memtable.  Entries are allocated as     *)
(* they come, skip list nodes aligned; a block is cut up from its start,    *)
(* and a large piece gets a block of its own while the current one goes on. *)
(***************************************************************************)
EXTENDS Integers, Sequences, FiniteSets, SequencesExt

CONSTANTS ArenaBlock,    \* kBlockSize
          Align,         \* 8 in the code
          PieceSizes,    \* bytes asked for
          MaxPieces      \* bound: pieces allocated

VARIABLES
    arena,      \* blocks (their sizes), the block and offset of alloc_ptr_, remaining, memory_usage_
    pieces      \* history: what was handed out

arenavars == <<arena, pieces>>

\* new char[n] is aligned for every type
AllocateNewBlock(a, bytes) ==
    [a EXCEPT !.blocks = Append(@, bytes), !.usage = @ + bytes + 1]

Hand(bytes, block, at, aligned) ==
    pieces' = Append(pieces, [block |-> block, at |-> at, bytes |-> bytes, aligned |-> aligned])

\* the large piece takes over the current block
AllocateFallbackMoves(bytes, aligned) ==
    LET a == AllocateNewBlock(arena, IF bytes > ArenaBlock \div 4 THEN bytes ELSE ArenaBlock)
    IN /\ arena' = [a EXCEPT !.block = Len(a.blocks), !.at = bytes, !.remaining = ArenaBlock - bytes]
       /\ Hand(bytes, Len(a.blocks), 0, aligned)

\* more than a quarter of a block: a block of its own; else the rest of the
\* current block is wasted
AllocateFallback(bytes, aligned) ==
    LET own == bytes > ArenaBlock \div 4
        a == AllocateNewBlock(arena, IF own THEN bytes ELSE ArenaBlock)
    IN /\ arena' = IF own THEN a
                   ELSE [a EXCEPT !.block = Len(a.blocks), !.at = bytes, !.remaining = ArenaBlock - bytes]
       /\ Hand(bytes, Len(a.blocks), 0, aligned)

Cut(bytes, slop, aligned) ==
    /\ arena' = [arena EXCEPT !.at = @ + slop + bytes, !.remaining = @ - slop - bytes]
    /\ Hand(bytes, arena.block, arena.at + slop, aligned)

Allocate(bytes) ==
    /\ Len(pieces) < MaxPieces
    /\ IF bytes <= arena.remaining THEN Cut(bytes, 0, FALSE) ELSE AllocateFallback(bytes, FALSE)

Slop == (Align - (arena.at % Align)) % Align

AllocateAligned(bytes) ==
    /\ Len(pieces) < MaxPieces
    /\ IF bytes + Slop <= arena.remaining THEN Cut(bytes, Slop, TRUE) ELSE AllocateFallback(bytes, TRUE)

-----------------------------------------------------------------------------
Init ==
    /\ arena = [blocks |-> << >>, block |-> 0, at |-> 0, remaining |-> 0, usage |-> 0]
    /\ pieces = << >>

Next == \E bytes \in PieceSizes : Allocate(bytes) \/ AllocateAligned(bytes)

Spec == Init /\ [][Next]_arenavars

-----------------------------------------------------------------------------
\* Arena: the blocks it has, and alloc_ptr_ in one of them with what remains of it.
IsArena(a) ==
    /\ a.block \in 0 .. Len(a.blocks) /\ a.remaining \in 0 .. ArenaBlock
    /\ a.block # 0 => a.at + a.remaining = a.blocks[a.block]

TypeOK == IsArena(arena)

(* Pieces lie inside their blocks, no two overlap, and the ones for nodes   *)
(* are aligned; memory_usage_, by which the memtable is judged full, counts *)
(* every block.                                                             *)
PiecesApart ==
    /\ \A i \in 1 .. Len(pieces) :
          LET p == pieces[i]
          IN /\ p.at + p.bytes <= arena.blocks[p.block]
             /\ p.aligned => p.at % Align = 0
             /\ \A j \in 1 .. i - 1 : pieces[j].block = p.block =>
                   pieces[j].at + pieces[j].bytes <= p.at \/ p.at + p.bytes <= pieces[j].at
    /\ arena.usage = FoldLeft(LAMBDA n, size : n + size + 1, 0, arena.blocks)
=============================================================================
