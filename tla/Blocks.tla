------------------------------- MODULE Blocks -------------------------------
(***************************************************************************)
(* ByteToBlock, which cuts a content into blocks, and BlockYToByte, which   *)
(* joins them again: what the chunks of Sharing are in bytes.  A byte of a  *)
(* content is its position in it, so that a byte that is lost, repeated or  *)
(* moved shows.                                                             *)
(***************************************************************************)
EXTENDS Sharing, SequencesExt

CONSTANT BlockSize

ASSUME SizeAssumption == BlockSize \in Nat \ {0}

Data(size) == [n \in 1 .. size |-> n]

\* Variant of blockNum: the last, partial block is forgotten.
blockNumFloor(size) == size \div BlockSize

blockNum(size) == (size + BlockSize - 1) \div BlockSize

BlockEnd(start, size) == IF start + BlockSize > size THEN size ELSE start + BlockSize

\* Round i of the loop makes the block data[start:end].
ByteToBlock(data) ==
    LET size == Len(data)
        Round(i) == LET start == (i - 1) * BlockSize
                    IN  SubSeq(data, start + 1, BlockEnd(start, size))
    IN  [i \in 1 .. blockNum(size) |-> Round(i)]

\* Nothing for a size of zero, otherwise the blocks, cut at totalSize.
BlockYToByte(list, totalSize) ==
    IF totalSize <= 0 \/ list = <<>> THEN <<>>
    ELSE LET joined == FlattenSeq(list)
         IN  IF Len(joined) > totalSize THEN SubSeq(joined, 1, totalSize) ELSE joined

\* The blocks a file in the store lists stand for its bytes: every content that fits
\* into so many blocks, empty, a multiple of the block size or with a partial last
\* block, is cut so that the blocks, joined in order as LoadFile joins them, give
\* every byte once and in order; all are full but the last, and none is empty.
\* BlockYToByte gives the content back too, whole or cut at any smaller size.
CutAndJoined ==
    \A i \in Id : inode[i] # None =>
        \A size \in 0 .. BlockSize * Len(inode[i].plain) :
            LET blocks == ByteToBlock(Data(size))
            IN  /\ Len(blocks) <= Len(inode[i].plain)
                /\ \A n \in 1 .. Len(blocks) :
                      /\ Len(blocks[n]) \in 1 .. BlockSize
                      /\ n < Len(blocks) => Len(blocks[n]) = BlockSize
                /\ FlattenSeq(blocks) = Data(size)
                /\ \A t \in 0 .. size : BlockYToByte(blocks, t) = SubSeq(Data(size), 1, t)
=============================================================================
