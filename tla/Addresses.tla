------------------------------ MODULE Addresses -------------------------------
(***************************************************************************)
(* The arithmetic of sizes and addresses: blocks of the small heap, their    *)
(* slots and the bits of a bitmap (allocator.h, small-allocator.h, object.c, *)
(* bitmap.c), the product in gc_calloc() and the bytes that gc_realloc()     *)
(* copies (gc.c, gc_mem.c).                                                 *)
(*                                                                          *)
(* Pure definitions; heap is the address of the small heap and width the     *)
(* number of values of a size_t.                                            *)
(***************************************************************************)
EXTENDS Integers

BLOCK_SIZE == 4096
BLOCK_HEADER_SIZE == 80
BITMAP_BYTES_COUNT == 64
MAX_OBJECT_SIZE == 2008

\* GET_BITMAP_ADDR
BitmapAddr(block) == block + 16

\* GET_SIZE_WITH_ALIGNMENT
Aligned(size) == (IF size % 8 = 0 THEN 0 ELSE 8 - (size % 8)) + size

\* get_block_addr()
BlockAddr(heap, a) == a - ((a - heap) % BLOCK_SIZE)

\* get_object() for an address of the small heap: what it puts into *object, or
\* INVALID_ADDRESS.  size is what the header of the block says.
INVALID_ADDRESS == -1

GetObject(heap, a, size) ==
  LET inBlock == a - BlockAddr(heap, a)
  IN  IF inBlock < BLOCK_HEADER_SIZE \/ size <= 0 \/ Aligned(size) > MAX_OBJECT_SIZE
      THEN INVALID_ADDRESS
      ELSE a - ((inBlock - BLOCK_HEADER_SIZE) % Aligned(size))

\* get_bit_by_address() and set_bit_by_address(): the byte and the bit in it.
ObjectIndex(heap, a, size) ==
  (a - (BlockAddr(heap, a) + BLOCK_HEADER_SIZE)) \div Aligned(size)

BitAddress(heap, a, size) ==
  LET index == ObjectIndex(heap, a, size)
  IN  <<BitmapAddr(BlockAddr(heap, a)) + index \div 8, index % 8>>

\* allocate_small_object() hands out slots that end in their block.
SlotAddr(block, size, i) == block + BLOCK_HEADER_SIZE + i * Aligned(size)
FitsInBlock(block, size, i) == SlotAddr(block, size, i) + Aligned(size) <= block + BLOCK_SIZE

\* gc_calloc(): it gives up, or asks for the product of its arguments.
GivesUp(nelem, elsize, width) == nelem # 0 /\ elsize > (width - 1) \div nelem
Product(nelem, elsize, width) == (nelem * elsize) % width

\* gc_memset() and gc_memcpy(): bytes written, chunks of 16 as long as they fit
\* and the rest one by one.
BytesWritten(n) == (16 * (n \div 16)) + (n - (16 * (n \div 16)))

===============================================================================
