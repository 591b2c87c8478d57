-------------------------- MODULE GameBoardProofs --------------------------
(***************************************************************************)
(* The bits are a set of pixels, on a board of any width and height: what  *)
(* is set is set, nothing else is, and no access leaves the block.         *)
(***************************************************************************)
EXTENDS GameBoard, TLAPS

\* A row that starts later starts at least a width further.
LEMMA RowsAreApart ==
    ASSUME NEW w \in Nat, NEW a \in Nat, NEW b \in Nat, a < b
    PROVE  w * a + w <= w * b
<1>1. PICK d \in Nat : b = a + 1 + d
    <2>1. b - a - 1 \in Nat /\ b = a + 1 + (b - a - 1)
        OBVIOUS
    <2> QED BY <2>1
<1>2. w * b = w * a + w + w * d
    BY <1>1
<1>3. w * d \in Nat /\ w * a \in Nat
    BY <1>1
<1> QED BY <1>2, <1>3

\* The index of a pixel is less than the number of pixels.
LEMMA IndexInBounds ==
    ASSUME Width \in Nat, Height \in Nat, NEW pixel \in Pixels
    PROVE  index(pixel) \in Nat /\ index(pixel) < Width * Height
<1>1. /\ pixel[1] \in Nat /\ pixel[1] < Width
      /\ pixel[2] \in Nat /\ pixel[2] < Height
    BY DEF Pixels
<1>2. Width * pixel[2] + Width <= Width * Height
    BY <1>1, RowsAreApart
<1>3. Width * pixel[2] \in Nat /\ Width * Height \in Nat
    BY <1>1
<1> QED BY <1>1, <1>2, <1>3 DEF index

\* Two pixels have two indices.
LEMMA IndexIsInjective ==
    ASSUME Width \in Nat, Height \in Nat,
           NEW p \in Pixels, NEW q \in Pixels, index(p) = index(q)
    PROVE  p = q
<1>1. /\ p[1] \in Nat /\ p[1] < Width /\ p[2] \in Nat
      /\ q[1] \in Nat /\ q[1] < Width /\ q[2] \in Nat
      /\ p = <<p[1], p[2]>> /\ q = <<q[1], q[2]>>
    BY DEF Pixels
<1>2. Width * p[2] \in Nat /\ Width * q[2] \in Nat
    BY <1>1
<1>3. ~(p[2] < q[2])
    <2>1. p[2] < q[2] => Width * p[2] + Width <= Width * q[2]
        BY <1>1, RowsAreApart
    <2> QED BY <1>1, <1>2, <2>1 DEF index
<1>4. ~(q[2] < p[2])
    <2>1. q[2] < p[2] => Width * q[2] + Width <= Width * p[2]
        BY <1>1, RowsAreApart
    <2> QED BY <1>1, <1>2, <2>1 DEF index
<1>5. p[2] = q[2]
    BY <1>1, <1>3, <1>4
<1>6. p[1] = q[1]
    BY <1>1, <1>2, <1>5 DEF index
<1> QED BY <1>1, <1>5, <1>6

\* The block has a bit for each pixel: no access leaves it.
LEMMA CellInBounds ==
    ASSUME Width \in Nat, Height \in Nat, NEW pixel \in Pixels
    PROVE  /\ index(pixel) \div 8 \in 0 .. board_size - 1
           /\ index(pixel) % 8 \in 0 .. 7
<1>1. index(pixel) \in Nat /\ index(pixel) < Width * Height
    BY IndexInBounds
<1> DEFINE n == Width * Height
<1>2. n \in Nat
    OBVIOUS
<1>3. board_size = n \div 8 + (IF n % 8 # 0 THEN 1 ELSE 0)
    BY DEF board_size
<1> HIDE DEF n
<1>4. index(pixel) < n
    BY <1>1 DEF n
<1> QED BY <1>1, <1>2, <1>3, <1>4

\* game_board_create makes an empty board.
THEOREM CreateIsEmpty ==
    ASSUME Width \in Nat, Height \in Nat
    PROVE  game_board_create \in Board /\ PixelsOf(game_board_create) = {}
<1>1. game_board_create \in Board
    BY DEF game_board_create, Board
<1>2. ASSUME NEW pixel \in Pixels PROVE ~game_board_get(game_board_create, pixel)
    BY CellInBounds DEF game_board_get, game_board_create
<1> QED BY <1>1, <1>2 DEF PixelsOf

\* game_board_set adds the pixel it is given and changes no other, whatever the
\* width and the height: the packing in bits is a set of pixels.
THEOREM SetAddsOne ==
    ASSUME Width \in Nat, Height \in Nat,
           NEW data \in Board, NEW pixel \in Pixels
    PROVE  /\ game_board_set(data, pixel) \in Board
           /\ PixelsOf(game_board_set(data, pixel)) = PixelsOf(data) \cup {pixel}
<1> DEFINE after == game_board_set(data, pixel)
           c(p) == index(p) \div 8
           b(p) == index(p) % 8
<1>1. \A p \in Pixels : c(p) \in 0 .. board_size - 1 /\ b(p) \in 0 .. 7
    BY CellInBounds
<1>2. after \in Board
    BY <1>1 DEF game_board_set, Board
<1>3. \A p \in Pixels : index(p) \in Nat
    BY IndexInBounds
<1>4. \A p \in Pixels : c(p) = c(pixel) /\ b(p) = b(pixel) => p = pixel
    <2>1. TAKE p \in Pixels
    <2>2. HAVE c(p) = c(pixel) /\ b(p) = b(pixel)
    <2>3. index(p) = index(pixel)
        BY <1>3, <2>2
    <2> QED BY <2>3, IndexIsInjective
<1>5. ASSUME NEW p \in Pixels
      PROVE  game_board_get(after, p) <=> game_board_get(data, p) \/ p = pixel
    <2>1. c(p) \in DOMAIN data /\ c(pixel) \in DOMAIN data
        BY <1>1, <1>5 DEF Board
    <2>2. after[c(p)] = IF c(p) = c(pixel) THEN data[c(p)] \cup {b(pixel)} ELSE data[c(p)]
        BY <2>1 DEF game_board_set
    <2>3. b(p) \in after[c(p)] <=> b(p) \in data[c(p)] \/ (c(p) = c(pixel) /\ b(p) = b(pixel))
        BY <2>2
    <2> QED BY <2>3, <1>4, <1>5 DEF game_board_get
<1>6. PixelsOf(after) = PixelsOf(data) \cup {pixel}
    BY <1>5 DEF PixelsOf
<1> QED BY <1>2, <1>6
=============================================================================
