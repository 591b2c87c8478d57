----------------------------- MODULE GameBoard -----------------------------
(***************************************************************************)
(* The board of src/server/game_board.c as it is kept: one bit for each    *)
(* pixel, eight to a byte, row after row.  A byte is the set of the places *)
(* of its bits that are 1.  Module Game has the set of the pixels.         *)
(***************************************************************************)
EXTENDS Integers

CONSTANTS Width, Height

Pixels == (0 .. Width - 1) \X (0 .. Height - 1)

board_size ==
    ((Width * Height) \div 8) + (IF (Width * Height) % 8 # 0 THEN 1 ELSE 0)

Board == [0 .. board_size - 1 -> SUBSET (0 .. 7)]

index(pixel) == Width * pixel[2] + pixel[1]

game_board_create == [cell \in 0 .. board_size - 1 |-> {}]

game_board_set(data, pixel) ==
    [data EXCEPT ![index(pixel) \div 8] = @ \cup {index(pixel) % 8}]

game_board_get(data, pixel) == index(pixel) % 8 \in data[index(pixel) \div 8]

-----------------------------------------------------------------------------
\* The pixels a board holds.
PixelsOf(data) == { pixel \in Pixels : game_board_get(data, pixel) }
=============================================================================
