----------------------------- MODULE ChunkRanges -----------------------------
(***************************************************************************)
(* The free list of a memory chunk (src/libs/vkd3d/memory.c,               *)
(* struct vkd3d_memory_chunk): an array of [offset, length], sorted by     *)
(* offset, in which two ranges never touch.                                *)
(***************************************************************************)
EXTENDS Naturals, Sequences

end(range) == range.offset + range.length

align(offset, alignment) == ((offset + alignment - 1) \div alignment) * alignment

insert_range(ranges, index, range) ==
  [i \in 1..(Len(ranges) + 1) |->
     IF i < index THEN ranges[i] ELSE IF i = index THEN range ELSE ranges[i - 1]]

remove_range(ranges, index) ==
  [i \in 1..(Len(ranges) - 1) |-> IF i < index THEN ranges[i] ELSE ranges[i + 1]]

-----------------------------------------------------------------------------
(* vkd3d_memory_chunk_allocate_range.                                      *)

Fits(range, size, alignment) ==
  align(range.offset, alignment) + size <= end(range)

Fitting(ranges, size, alignment) ==
  {i \in 1..Len(ranges) : Fits(ranges[i], size, alignment)}

\* The first range that fits exactly, or else the first of the largest.
pick_range(ranges, size, alignment) ==
  LET fitting == Fitting(ranges, size, alignment)
      exact == {i \in fitting : ranges[i].length = size}
      largest == {i \in fitting : \A j \in fitting : ranges[j].length <= ranges[i].length}
      candidates == IF exact # {} THEN exact ELSE largest
  IN CHOOSE i \in candidates : \A j \in candidates : i <= j

\* What stays free when [offset, offset + size) is taken out of one range.
take_range(ranges, index, offset, size) ==
  LET range == ranges[index]
      l_length == offset - range.offset
      r_length == end(range) - offset - size
      left == [range EXCEPT !.length = l_length]
      right == [offset |-> offset + size, length |-> r_length]
  IN CASE l_length > 0 /\ r_length > 0 ->
            insert_range([ranges EXCEPT ![index] = left], index + 1, right)
       [] l_length > 0 /\ r_length = 0 -> [ranges EXCEPT ![index] = left]
       [] l_length = 0 /\ r_length > 0 -> [ranges EXCEPT ![index] = right]
       [] OTHER -> remove_range(ranges, index)

-----------------------------------------------------------------------------
(* vkd3d_memory_chunk_free_range.                                          *)

\* The binary search: the first range behind the offset, or one past the last.
find_range(ranges, offset) ==
  CHOOSE i \in 1..(Len(ranges) + 1) :
    /\ \A j \in 1..(i - 1) : ranges[j].offset <= offset
    /\ \A j \in i..Len(ranges) : ranges[j].offset > offset

\* Mutant: only one neighbour is joined.
free_range_left_only(ranges, offset, size) ==
  LET index == find_range(ranges, offset)
      adjacent_l == index > 1 /\ end(ranges[index - 1]) = offset
  IN IF adjacent_l THEN [ranges EXCEPT ![index - 1].length = @ + size]
     ELSE insert_range(ranges, index, [offset |-> offset, length |-> size])

free_range(ranges, offset, size) ==
  LET index == find_range(ranges, offset)
      adjacent_l == index > 1 /\ end(ranges[index - 1]) = offset
      adjacent_r == index <= Len(ranges) /\ ranges[index].offset = offset + size
  IN CASE adjacent_l /\ adjacent_r ->
            remove_range([ranges EXCEPT ![index - 1].length =
                                          @ + size + ranges[index].length], index)
       [] adjacent_l /\ ~adjacent_r -> [ranges EXCEPT ![index - 1].length = @ + size]
       [] ~adjacent_l /\ adjacent_r ->
            [ranges EXCEPT ![index] = [offset |-> offset, length |-> @.length + size]]
       [] OTHER -> insert_range(ranges, index, [offset |-> offset, length |-> size])

\* vkd3d_memory_chunk_is_free.
is_free(ranges, size) == Len(ranges) = 1 /\ ranges[1].length = size
=============================================================================
