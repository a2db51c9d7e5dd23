---------------------------- MODULE AddressesProofs ---------------------------
(***************************************************************************)
(* Theorems about Addresses, for every address of the heap, every block,     *)
(* every size of a small object and every width of size_t.                   *)
(***************************************************************************)
EXTENDS Addresses, TLAPS

\* Block k of the heap.
Block(heap, k) == heap + k * BLOCK_SIZE

-------------------------------------------------------------------------------

LEMMA DivMod ==
  ASSUME NEW n \in Nat, n > 0, NEW i \in Nat, NEW d \in Nat, d < n
  PROVE  (i * n + d) \div n = i /\ (i * n + d) % n = d
OBVIOUS

LEMMA DivModOf ==
  ASSUME NEW n \in Nat, n > 0, NEW x \in Nat
  PROVE  /\ x \div n \in Nat /\ x % n \in Nat /\ x % n < n
         /\ x = n * (x \div n) + (x % n)
OBVIOUS

LEMMA AlignedSize ==
  ASSUME NEW size \in Nat
  PROVE  /\ Aligned(size) \in Nat
         /\ Aligned(size) % 8 = 0
         /\ size <= Aligned(size) /\ Aligned(size) < size + 8
BY DEF Aligned

\* A small object stays one when its size is rounded up.
LEMMA AlignedSmall ==
  ASSUME NEW size \in 1 .. MAX_OBJECT_SIZE
  PROVE  /\ size \in Nat /\ size > 0
         /\ Aligned(size) \in Nat
         /\ Aligned(size) >= 8 /\ Aligned(size) > 0
         /\ Aligned(size) <= MAX_OBJECT_SIZE
<1>1. size \in Nat /\ size > 0 /\ size <= 2008
  BY DEF MAX_OBJECT_SIZE
<1> QED
  BY <1>1, AlignedSize DEF Aligned, MAX_OBJECT_SIZE

LEMMA AlignedMonotone ==
  ASSUME NEW s \in Nat, NEW t \in Nat, s <= t
  PROVE  Aligned(s) <= Aligned(t)
BY DEF Aligned

LEMMA BlockOf ==
  ASSUME NEW heap \in Nat, NEW k \in Nat, NEW x \in Nat, x < BLOCK_SIZE
  PROVE  BlockAddr(heap, Block(heap, k) + x) = Block(heap, k)
BY DEF Block, BlockAddr, BLOCK_SIZE

\* get_object() of an address behind the header.
LEMMA LookupBehindHeader ==
  ASSUME NEW heap \in Nat, NEW k \in Nat, NEW size \in 1 .. MAX_OBJECT_SIZE,
         NEW y \in Nat, y < BLOCK_SIZE - BLOCK_HEADER_SIZE
  PROVE  LET a == Block(heap, k) + BLOCK_HEADER_SIZE + y
         IN  /\ GetObject(heap, a, size) = a - (y % Aligned(size))
             /\ ObjectIndex(heap, a, size) = y \div Aligned(size)
<1> DEFINE b == Block(heap, k)
           a == b + BLOCK_HEADER_SIZE + y
<1>1. b \in Nat
  BY DEF Block, BLOCK_SIZE
<1>2. BLOCK_HEADER_SIZE + y \in Nat /\ BLOCK_HEADER_SIZE + y < BLOCK_SIZE
  BY DEF BLOCK_HEADER_SIZE, BLOCK_SIZE
<1>3. a = b + (BLOCK_HEADER_SIZE + y)
  BY <1>1 DEF BLOCK_HEADER_SIZE
<1>4. BlockAddr(heap, a) = b
  BY <1>2, <1>3, BlockOf
<1>5. a \in Nat /\ a - b = BLOCK_HEADER_SIZE + y /\ a - (b + BLOCK_HEADER_SIZE) = y
  BY <1>1 DEF BLOCK_HEADER_SIZE
<1>6. ~(size <= 0) /\ ~(Aligned(size) > MAX_OBJECT_SIZE)
  <2>1. size \in Nat /\ size > 0 /\ Aligned(size) \in Nat /\ Aligned(size) <= MAX_OBJECT_SIZE
    BY AlignedSmall
  <2>2. MAX_OBJECT_SIZE \in Nat
    BY DEF MAX_OBJECT_SIZE
  <2> QED
    BY <2>1, <2>2
<1> HIDE DEF a, b
<1>7. GetObject(heap, a, size) = a - (y % Aligned(size))
  <2> DEFINE inBlock == a - BlockAddr(heap, a)
  <2>1. inBlock = BLOCK_HEADER_SIZE + y
    BY <1>4, <1>5
  <2> HIDE DEF inBlock
  <2>2. ~(inBlock < BLOCK_HEADER_SIZE) /\ inBlock - BLOCK_HEADER_SIZE = y
    BY <2>1 DEF BLOCK_HEADER_SIZE
  <2>3. GetObject(heap, a, size) =
          IF inBlock < BLOCK_HEADER_SIZE \/ size <= 0 \/ Aligned(size) > MAX_OBJECT_SIZE
          THEN INVALID_ADDRESS
          ELSE a - ((inBlock - BLOCK_HEADER_SIZE) % Aligned(size))
    BY DEF GetObject, inBlock
  <2> QED
    BY <1>6, <2>2, <2>3
<1>8. ObjectIndex(heap, a, size) = y \div Aligned(size)
  BY <1>4, <1>5 DEF ObjectIndex
<1> QED
  BY <1>7, <1>8 DEF a, b

-------------------------------------------------------------------------------

(***************************************************************************)
(* Every word that points into an object handed out leads get_object() to    *)
(* the start of that object, and its bit is the one that the slider looks at *)
(* (object.c, 47-69; small-allocator.c, 183-194).                            *)
(***************************************************************************)
THEOREM LookupFindsTheObject ==
  ASSUME NEW heap \in Nat, NEW k \in Nat, NEW size \in 1 .. MAX_OBJECT_SIZE,
         NEW i \in Nat, FitsInBlock(Block(heap, k), size, i),
         NEW d \in Nat, d < Aligned(size)
  PROVE  LET slot == SlotAddr(Block(heap, k), size, i)
         IN  /\ GetObject(heap, slot + d, size) = slot
             /\ ObjectIndex(heap, slot + d, size) = i
<1> DEFINE n == Aligned(size)
           b == Block(heap, k)
           y == i * n + d
<1>1. n \in Nat /\ n > 0
  BY AlignedSmall
<1>2. b \in Nat
  BY DEF Block, BLOCK_SIZE
<1>3. i * n \in Nat
  BY <1>1
<1>4. b + 80 + i * n + n <= b + 4096
  BY DEF FitsInBlock, SlotAddr, BLOCK_SIZE, BLOCK_HEADER_SIZE
<1>5. y \in Nat /\ y < BLOCK_SIZE - BLOCK_HEADER_SIZE
  BY <1>1, <1>2, <1>3, <1>4 DEF BLOCK_SIZE, BLOCK_HEADER_SIZE
<1>6. y % n = d /\ y \div n = i
  BY <1>1, DivMod
<1>7. SlotAddr(b, size, i) + d = b + BLOCK_HEADER_SIZE + y
  BY <1>2, <1>3 DEF SlotAddr, BLOCK_HEADER_SIZE
<1>8. SlotAddr(b, size, i) \in Nat
  BY <1>2, <1>3 DEF SlotAddr, BLOCK_HEADER_SIZE
<1> HIDE DEF y
<1>9. GetObject(heap, b + BLOCK_HEADER_SIZE + y, size) = (b + BLOCK_HEADER_SIZE + y) - (y % n)
  BY <1>5, LookupBehindHeader
<1>10. ObjectIndex(heap, b + BLOCK_HEADER_SIZE + y, size) = y \div n
  BY <1>5, LookupBehindHeader
<1> HIDE DEF n, b
<1>11. GetObject(heap, SlotAddr(b, size, i) + d, size) = (SlotAddr(b, size, i) + d) - d
  BY <1>6, <1>7, <1>9
<1>12. ObjectIndex(heap, SlotAddr(b, size, i) + d, size) = i
  BY <1>6, <1>7, <1>10
<1> QED
  BY <1>8, <1>11, <1>12 DEF b

(***************************************************************************)
(* A word that points behind the header of a block, whatever it is, resolves *)
(* to a slot that begins in the block.  The slot ends in it as well, unless  *)
(* the word points into the rest; scan() then reads past the block, by less  *)
(* than the size of an object (object.c, 57-68; marking.c, 48-55).           *)
(***************************************************************************)
THEOREM LookupFindsASlot ==
  ASSUME NEW heap \in Nat, NEW k \in Nat, NEW size \in 1 .. MAX_OBJECT_SIZE,
         NEW y \in Nat, y < BLOCK_SIZE - BLOCK_HEADER_SIZE
  PROVE  LET b == Block(heap, k)
             a == b + BLOCK_HEADER_SIZE + y
         IN  \E i \in Nat :
               /\ GetObject(heap, a, size) = SlotAddr(b, size, i)
               /\ SlotAddr(b, size, i) <= a /\ a < SlotAddr(b, size, i) + Aligned(size)
               /\ SlotAddr(b, size, i) + Aligned(size) < b + BLOCK_SIZE + MAX_OBJECT_SIZE
<1> DEFINE n == Aligned(size)
           b == Block(heap, k)
           a == b + BLOCK_HEADER_SIZE + y
           i == y \div n
<1>1. n \in Nat /\ n > 0 /\ n <= MAX_OBJECT_SIZE
  BY AlignedSmall
<1>2. b \in Nat
  BY DEF Block, BLOCK_SIZE
<1>3. i \in Nat /\ y % n \in Nat /\ y % n < n /\ y = n * i + (y % n)
  BY <1>1, DivModOf
<1>5. GetObject(heap, a, size) = a - (y % n)
  BY LookupBehindHeader
<1> HIDE DEF n, b, i
<1>4. n * i \in Nat /\ n * i = i * n
  BY <1>1, <1>3
<1>6. a - (y % n) = b + BLOCK_HEADER_SIZE + i * n
  BY <1>2, <1>3, <1>4 DEF BLOCK_HEADER_SIZE
<1>7. SlotAddr(b, size, i) = b + BLOCK_HEADER_SIZE + i * n
  BY DEF SlotAddr, n
<1>8. /\ b + BLOCK_HEADER_SIZE + i * n <= a /\ a < b + BLOCK_HEADER_SIZE + i * n + n
      /\ b + BLOCK_HEADER_SIZE + i * n + n < b + BLOCK_SIZE + MAX_OBJECT_SIZE
  BY <1>1, <1>2, <1>3, <1>4 DEF BLOCK_HEADER_SIZE, BLOCK_SIZE, MAX_OBJECT_SIZE
<1>9. /\ GetObject(heap, a, size) = SlotAddr(b, size, i)
      /\ SlotAddr(b, size, i) <= a /\ a < SlotAddr(b, size, i) + n
      /\ SlotAddr(b, size, i) + n < b + BLOCK_SIZE + MAX_OBJECT_SIZE
  BY <1>5, <1>6, <1>7, <1>8
<1> QED
  BY <1>3, <1>9 DEF n, b

(***************************************************************************)
(* mark_object() never writes outside the bitmap, also for a word that       *)
(* points into the rest of a block: 64 bytes are enough for every size       *)
(* (bitmap.c, 28-47; bitmap.h, 4).                                          *)
(***************************************************************************)
THEOREM BitsLieInTheBitmap ==
  ASSUME NEW heap \in Nat, NEW k \in Nat, NEW size \in 1 .. MAX_OBJECT_SIZE,
         NEW y \in Nat, y < BLOCK_SIZE - BLOCK_HEADER_SIZE
  PROVE  LET b == Block(heap, k)
             bit == BitAddress(heap, b + BLOCK_HEADER_SIZE + y, size)
         IN  /\ bit[1] \in BitmapAddr(b) .. (BitmapAddr(b) + BITMAP_BYTES_COUNT - 1)
             /\ bit[1] < b + BLOCK_HEADER_SIZE
<1> DEFINE n == Aligned(size)
           b == Block(heap, k)
           a == b + BLOCK_HEADER_SIZE + y
           i == y \div n
<1>1. n \in Nat /\ n >= 8
  BY AlignedSmall
<1>2. b \in Nat
  BY DEF Block, BLOCK_SIZE
<1> HIDE DEF n
<1>3. i \in Nat /\ y % n \in Nat /\ y = n * i + (y % n)
  BY <1>1, DivModOf
<1> USE DEF n
<1>4. ObjectIndex(heap, a, size) = i
  BY LookupBehindHeader
<1>5. BlockAddr(heap, a) = b
  <2>1. BLOCK_HEADER_SIZE + y \in Nat /\ BLOCK_HEADER_SIZE + y < BLOCK_SIZE
    BY DEF BLOCK_HEADER_SIZE, BLOCK_SIZE
  <2>2. a = b + (BLOCK_HEADER_SIZE + y)
    BY <1>2 DEF BLOCK_HEADER_SIZE
  <2> QED
    BY <2>1, <2>2, BlockOf
<1> HIDE DEF n, b, i, a
<1>6. 8 * i <= n * i
  BY <1>1, <1>3
<1>7. 8 * i < 4016
  BY <1>1, <1>3, <1>6 DEF BLOCK_SIZE, BLOCK_HEADER_SIZE
<1>8. i \div 8 \in 0 .. 63
  BY <1>3, <1>7
<1>9. BitAddress(heap, a, size)[1] = b + 16 + i \div 8
  BY <1>4, <1>5 DEF BitAddress, BitmapAddr
<1>10. /\ BitAddress(heap, a, size)[1] \in BitmapAddr(b) .. (BitmapAddr(b) + BITMAP_BYTES_COUNT - 1)
       /\ BitAddress(heap, a, size)[1] < b + BLOCK_HEADER_SIZE
  BY <1>2, <1>8, <1>9 DEF BitmapAddr, BITMAP_BYTES_COUNT, BLOCK_HEADER_SIZE
<1> QED
  BY <1>10 DEF a, b

(***************************************************************************)
(* No two objects share a bit: neither two slots of a block nor slots of two *)
(* blocks (bitmap.c, 8-48).                                                 *)
(***************************************************************************)
THEOREM BitsAreApart ==
  ASSUME NEW heap \in Nat, NEW k \in Nat, NEW size \in 1 .. MAX_OBJECT_SIZE,
         NEW i \in Nat, FitsInBlock(Block(heap, k), size, i),
         NEW j \in Nat, FitsInBlock(Block(heap, k), size, j),
         BitAddress(heap, SlotAddr(Block(heap, k), size, i), size) =
           BitAddress(heap, SlotAddr(Block(heap, k), size, j), size)
  PROVE  i = j
<1> DEFINE b == Block(heap, k)
<1>1. ASSUME NEW m \in Nat, FitsInBlock(b, size, m)
      PROVE  BitAddress(heap, SlotAddr(b, size, m), size) = <<b + 16 + m \div 8, m % 8>>
  <2> DEFINE n == Aligned(size)
  <2>1. n \in Nat /\ n > 0
    BY AlignedSmall
  <2>2. b \in Nat /\ m * n \in Nat
    BY <2>1 DEF Block, BLOCK_SIZE
  <2>3. b + 80 + m * n + n <= b + 4096
    BY <1>1 DEF FitsInBlock, SlotAddr, BLOCK_SIZE, BLOCK_HEADER_SIZE
  <2>4. BLOCK_HEADER_SIZE + m * n \in Nat /\ BLOCK_HEADER_SIZE + m * n < BLOCK_SIZE
    BY <2>1, <2>2, <2>3 DEF BLOCK_SIZE, BLOCK_HEADER_SIZE
  <2>5. SlotAddr(b, size, m) = b + (BLOCK_HEADER_SIZE + m * n)
    BY <2>2 DEF SlotAddr, BLOCK_HEADER_SIZE
  <2>6. BlockAddr(heap, SlotAddr(b, size, m)) = b
    BY <2>4, <2>5, BlockOf
  <2>7. ObjectIndex(heap, SlotAddr(b, size, m) + 0, size) = m
    BY <1>1, <2>1, LookupFindsTheObject
  <2>8. SlotAddr(b, size, m) + 0 = SlotAddr(b, size, m)
    BY <2>2, <2>5 DEF BLOCK_HEADER_SIZE
  <2> QED
    BY <2>6, <2>7, <2>8 DEF BitAddress, BitmapAddr
<1>2. b \in Nat
  BY DEF Block, BLOCK_SIZE
<1>3. b + 16 + i \div 8 = b + 16 + j \div 8 /\ i % 8 = j % 8
  BY <1>1
<1> HIDE DEF b
<1> QED
  BY <1>2, <1>3

(***************************************************************************)
(* gc_calloc() gives up exactly when the product does not fit into a size_t, *)
(* and asks gc_malloc() for no less than it clears and the program uses      *)
(* (gc.c, 24-36).                                                           *)
(***************************************************************************)
THEOREM CallocDoesNotWrap ==
  ASSUME NEW width \in Nat, width > 0, NEW nelem \in 0 .. (width - 1), NEW elsize \in 0 .. (width - 1)
  PROVE  /\ GivesUp(nelem, elsize, width) <=> nelem * elsize >= width
         /\ ~GivesUp(nelem, elsize, width) =>
              /\ Product(nelem, elsize, width) = nelem * elsize
              /\ BytesWritten(Product(nelem, elsize, width)) = nelem * elsize
<1>1. ASSUME ~GivesUp(nelem, elsize, width)
      PROVE  nelem * elsize < width
  BY <1>1 DEF GivesUp
<1>2. ASSUME GivesUp(nelem, elsize, width)
      PROVE  nelem * elsize >= width
  <2> DEFINE q == (width - 1) \div nelem
  <2>1. nelem \in Nat /\ nelem > 0 /\ elsize \in Nat
    BY <1>2 DEF GivesUp
  <2>2. q \in Nat /\ width - 1 < nelem * q + nelem
    BY <2>1, DivModOf
  <2>3. elsize >= q + 1
    BY <1>2, <2>1, <2>2 DEF GivesUp
  <2> HIDE DEF q
  <2>4. nelem * elsize >= nelem * (q + 1) /\ nelem * (q + 1) = nelem * q + nelem
    BY <2>1, <2>2, <2>3
  <2>5. nelem * elsize \in Nat /\ nelem * q \in Nat
    BY <2>1, <2>2
  <2> QED
    BY <2>1, <2>2, <2>4, <2>5
<1>3. nelem * elsize \in Nat
  OBVIOUS
<1>4. ASSUME ~GivesUp(nelem, elsize, width)
      PROVE  Product(nelem, elsize, width) = nelem * elsize
  <2> DEFINE p == nelem * elsize
  <2>1. p \in Nat /\ p < width
    BY <1>1, <1>3, <1>4
  <2> HIDE DEF p
  <2>2. p % width = p
    BY <2>1
  <2> QED
    BY <2>2 DEF p, Product
<1>5. \A p \in Nat : BytesWritten(p) = p
  BY DEF BytesWritten
<1> QED
  BY <1>1, <1>2, <1>3, <1>4, <1>5

(***************************************************************************)
(* gc_realloc() of a small object to a size that is not smaller copies no    *)
(* more than the new slot holds, though it copies what the old slot held,    *)
(* padding included (gc.c, 48-51; object.c, 19-21; gc_mem.c, 19-35).         *)
(***************************************************************************)
THEOREM ReallocStaysInItsSlot ==
  ASSUME NEW size \in 1 .. MAX_OBJECT_SIZE, NEW newSize \in size .. MAX_OBJECT_SIZE
  PROVE  /\ BytesWritten(Aligned(size)) >= size
         /\ BytesWritten(Aligned(size)) <= Aligned(newSize)
<1>1. size \in Nat /\ newSize \in Nat /\ size <= newSize
  BY DEF MAX_OBJECT_SIZE
<1>2. \A p \in Nat : BytesWritten(p) = p
  BY DEF BytesWritten
<1>3. Aligned(size) \in Nat /\ size <= Aligned(size)
  BY <1>1, AlignedSize
<1>4. Aligned(size) <= Aligned(newSize)
  BY <1>1, AlignedMonotone
<1> QED
  BY <1>2, <1>3, <1>4

===============================================================================
