---------------------------- MODULE MatrixBlocks ----------------------------
(***************************************************************************)
(* Submatrix and matrix_t::get_submatrix_data: a block of a matrix, and    *)
(* its copy into a message.  A matrix is one array, row after row; a copy  *)
(* is described by the index each of its elements was read at.             *)
(***************************************************************************)
EXTENDS Integers

CONSTANT HalfRange   \* an int is in -HalfRange..HalfRange - 1; 2^31 in the code

ASSUME HalfRangeAssumption == HalfRange \in Nat \ {0}

(* A size_t that is assigned to an int.                                    *)
AsInt(x) == ((x + HalfRange) % (2 * HalfRange)) - HalfRange

Submatrix(row, col, s, parent_s) ==
    [row_start |-> row, col_start |-> col, size |-> s, original_size |-> parent_s]

Positions(b) == 0..(b.size * b.size - 1)

IsWhole(b) == b.row_start = 0 /\ b.col_start = 0 /\ b.size = b.original_size

(* Wrong versions of definitions below.                                    *)
OwnRowLength(b) == b.size

RowLength(b) == b.original_size

SourceOffset(b, i) == AsInt(AsInt(b.row_start + i) * RowLength(b) + b.col_start)

(* The whole at once, or row by row.                                       *)
GetSubmatrixData(b) ==
    IF IsWhole(b) THEN [d \in Positions(b) |-> d]
    ELSE [d \in Positions(b) |-> SourceOffset(b, d \div b.size) + (d % b.size)]

(* What a block of a matrix is.                                            *)
Block(b) == [d \in Positions(b) |->
                (b.row_start + (d \div b.size)) * b.original_size + b.col_start + (d % b.size)]
=============================================================================
