-------------------------------- MODULE Initrd --------------------------------
(***************************************************************************)
(* The data of one file of the initial RAM disk, fs/initrd.c: initrd_read, *)
(* initrd_write and the truncation in initrd_open, through several file    *)
(* descriptors.  read_fs, write_fs and open_fs hold the lock of the node,  *)
(* so each call is one action.                                             *)
(*                                                                         *)
(* A file is empty at first or lies in a boot module, where other files    *)
(* follow it.  data is the first array of pointers to blocks; files are    *)
(* short enough not to need the next one, which initrd_write appends, too. *)
(* text is what the file should contain.                                   *)
(***************************************************************************)
EXTENDS Integers, Sequences, FiniteSets, FiniteSetsExt

CONSTANTS
  Fds,               \* file descriptors of the file
  MAX_DATAENTRIES,   \* the bytes of a block
  BLOCKS,            \* bounds the blocks of the file, at most MAX_DATABLOCKS
  MAX_LENGTH,        \* bounds the length of the file
  MAX_SIZE,          \* bounds the bytes of one read or write
  Bytes,             \* the bytes written
  Truncate,          \* whether files are opened with O_TRUNC
  AllocMayFail,      \* whether kmalloc may fail
  WriteModule        \* whether a file in a boot module is written

ASSUME InitrdAssumption ==
  /\ {MAX_DATAENTRIES, BLOCKS, MAX_LENGTH, MAX_SIZE} \subseteq Nat \ {0}
  /\ Bytes \subseteq Nat \ {0} /\ {Truncate, AllocMayFail, WriteModule} \subseteq BOOLEAN

VARIABLES
  data,         \* block_list_t.data: 0 is NULL, ModuleBlock the module
  content,      \* what the memory of each block holds
  freed,        \* the blocks that have been given to kfree
  block_size,   \* vfs_node_t.block_size: the length of the file
  fd,           \* fildes_t: access, append and offset; access is NONE if closed
  text,         \* what the file should contain
  got, want,    \* what the last read returned, and what it should return at most
  fault         \* a division by zero, or an access through NULL

initrdVars == <<data, content, freed, block_size, fd, text, got, want, fault>>

ModuleBlock == BLOCKS + 1
Blocks == 1..ModuleBlock
Width == MAX_LENGTH + MAX_DATAENTRIES   \* bounds blocks and offsets
IsModule == data[1] = ModuleBlock

\* Beyond the end of a block is unrelated memory.
JUNK == -1
ByteAt(b, k) == IF b # ModuleBlock /\ k >= MAX_DATAENTRIES THEN JUNK ELSE content[b][k]

Closed == [access |-> "NONE", append |-> FALSE, offset |-> 0]

InitrdTypeOK ==
  /\ data \in [1..BLOCKS -> 0..ModuleBlock] /\ freed \subseteq Blocks
  /\ content \in [Blocks -> [0..(Width - 1) -> Bytes \cup {0}]]
  /\ block_size \in 0..MAX_LENGTH /\ text \in Seq(Bytes \cup {0}) /\ fault \in BOOLEAN
  /\ fd \in [Fds -> [access : {"NONE", "O_RDONLY", "O_WRONLY", "O_RDWR"},
                     append : BOOLEAN, offset : 0..Width]]
  /\ got \in Seq(Bytes \cup {0, JUNK}) /\ want \in Seq(Bytes \cup {0})

\* A new file, or one of the given length in a module.
InitrdInit ==
  /\ \E length \in 0..MAX_LENGTH, v \in Bytes :
       /\ data = [i \in 1..BLOCKS |-> IF length > 0 /\ i = 1 THEN ModuleBlock ELSE 0]
       /\ block_size = length /\ text = [k \in 1..length |-> v]
       /\ content = [b \in Blocks |-> [k \in 0..(Width - 1) |->
                       IF b = ModuleBlock /\ k < length THEN v ELSE 0]]
  /\ freed = {} /\ fd = [f \in Fds |-> Closed]
  /\ got = <<>> /\ want = <<>> /\ fault = FALSE

NothingRead == got' = <<>> /\ want' = <<>> /\ fault' = FALSE

-----------------------------------------------------------------------------
\* Opening the existing file, as open_fs does.  O_TRUNC frees the blocks, and
\* the pointers in the first array remain.
initrd_open(f, access, append, truncate) ==
  /\ fd[f].access = "NONE" /\ (truncate => Truncate)
  /\ fd' = [fd EXCEPT ![f] = [access |-> access, append |-> append, offset |-> 0]]
  /\ IF truncate
     THEN /\ freed' = freed \cup {data[i] : i \in {k \in 1..BLOCKS : data[k] # 0}}
          /\ block_size' = 0 /\ text' = <<>>
     ELSE UNCHANGED <<freed, block_size, text>>
  /\ NothingRead /\ UNCHANGED <<data, content>>

\* close_fs, and the end of the descriptor; initrd_close does not exist.
close_fs(f) ==
  /\ fd[f].access # "NONE"
  /\ fd' = [fd EXCEPT ![f] = Closed]
  /\ NothingRead /\ UNCHANGED <<data, content, freed, block_size, text>>

\* load_task moves to the headers and segments of a program it has begun to read.
seek(f, offset) ==
  /\ fd[f].access # "NONE" /\ block_size > 0 /\ offset <= block_size
  /\ fd' = [fd EXCEPT ![f].offset = offset]
  /\ NothingRead /\ UNCHANGED <<data, content, freed, block_size, text>>

-----------------------------------------------------------------------------
\* Whether initrd_read divides the offset by the length.
Divides(offset) == offset # 0

\* How many bytes are copied from the given offset in a block.
Copies(offset, size) == IF offset + size >= block_size THEN block_size - offset ELSE size

\* initrd_read: the block is found by dividing by the length of the file, counting
\* the pointers that are not NULL.
initrd_read(f, size) ==
  LET offset == fd[f].offset
      zero == Divides(offset) /\ block_size = 0
      pos == IF offset = 0 THEN 0 ELSE offset \div block_size
      off == IF offset = 0 THEN 0 ELSE offset % block_size
      found == {i \in 1..BLOCKS : data[i] # 0 /\ Cardinality({k \in 1..i : data[k] # 0}) > pos}
      n == IF zero \/ found = {} THEN 0 ELSE Copies(off, size)
  IN  /\ fd[f].access \in {"O_RDONLY", "O_RDWR"} /\ offset + n <= Width
      /\ got' = [k \in 1..n |-> ByteAt(data[Min(found)], off + k - 1)]
      /\ want' = SubSeq(text, offset + 1, Min({offset + size, Len(text)}))
      /\ fault' = zero
      /\ fd' = [fd EXCEPT ![f].offset = @ + n]
      /\ UNCHANGED <<data, content, freed, block_size, text>>

-----------------------------------------------------------------------------
\* The offset in a block of a byte of the file.
BlockOffset(offset) == offset % MAX_DATAENTRIES

\* Faulty variant: the length is the end of what was written last.
GrownSet(end) == end

\* The length of the file after a write that ends there.
Grown(end) == IF block_size < end THEN end ELSE block_size

\* initrd_write of one byte value.  It allocates all blocks up to the one it needs,
\* except those for which kmalloc fails, and takes the first that exists.  The
\* test for O_RDONLY, which is zero, never refuses a write.
initrd_write(f, size, v, failed) ==
  LET offset == IF fd[f].append THEN block_size ELSE fd[f].offset
      pos == offset \div MAX_DATAENTRIES
      off == BlockOffset(offset)
      n == Min({size, MAX_DATAENTRIES - off})
      usable == {i \in (pos + 1)..BLOCKS : data[i] # 0 \/ i \notin failed}
      unused == {b \in 1..BLOCKS : \A i \in 1..BLOCKS : data[i] # b}
      block(i) == CHOOSE b \in unused : Cardinality({c \in unused : c < b}) =
                    Cardinality({k \in 1..(i - 1) : data[k] = 0 /\ k \notin failed})
      new == [i \in 1..BLOCKS |-> IF data[i] = 0 /\ i \notin failed /\ i <= Min(usable)
                                  THEN block(i) ELSE data[i]]
  IN  /\ fd[f].access # "NONE" /\ n > 0 /\ offset + n <= MAX_LENGTH /\ usable # {}
      /\ IsModule => WriteModule
      /\ failed \subseteq IF AllocMayFail THEN {i \in 1..BLOCKS : data[i] = 0} ELSE {}
      /\ data' = new
      /\ content' = [content EXCEPT ![new[Min(usable)]] =
           [k \in 0..(Width - 1) |-> IF k \in off..(off + n - 1) THEN v ELSE @[k]]]
      /\ block_size' = Grown(offset + n)
      /\ fd' = [fd EXCEPT ![f].offset = offset + n]
      /\ text' = [k \in 1..Max({Len(text), offset + n}) |->
           IF k \in (offset + 1)..(offset + n) THEN v ELSE IF k <= Len(text) THEN text[k] ELSE 0]
      /\ NothingRead /\ UNCHANGED freed

InitrdNext == \E f \in Fds :
  \/ \E a \in {"O_RDONLY", "O_WRONLY", "O_RDWR"}, app, trunc \in BOOLEAN :
       initrd_open(f, a, app, trunc)
  \/ close_fs(f)
  \/ \E o \in 0..MAX_LENGTH : seek(f, o)
  \/ \E n \in 1..MAX_SIZE : initrd_read(f, n)
  \/ \E n \in 1..MAX_SIZE, v \in Bytes, failed \in SUBSET (1..BLOCKS) :
       initrd_write(f, n, v, failed)

InitrdSpec == InitrdInit /\ [][InitrdNext]_initrdVars

-----------------------------------------------------------------------------
(***************************************************************************)
(* Properties.                                                             *)
(***************************************************************************)

\* A read returns a part of what the file contains at the offset, and nothing
\* only at the end of the file: "we copy only the rest of the current block".
ReadRight ==
  /\ Len(got) <= Len(want) /\ got = SubSeq(want, 1, Len(got))
  /\ got = <<>> => want = <<>>

\* This holds for files in one piece: in a module or in one block.
ReadRightInOnePiece == IsModule \/ Len(text) <= MAX_DATAENTRIES => ReadRight

\* Whatever the writes, appends and seeks of several descriptors, each byte of the
\* file is where a write would put it, and block_size is the length.
Stored ==
  /\ block_size = Len(text)
  /\ ~IsModule => \A k \in 1..Len(text) :
       LET b == data[(k - 1) \div MAX_DATAENTRIES + 1]
       IN  b # 0 /\ content[b][(k - 1) % MAX_DATAENTRIES] = text[k]

\* No call divides by zero: it returns "number of bytes copied (size)" or "0 on
\* error".
NoFault == ~fault

\* A truncated file does not use the blocks that have been freed ("in the case of
\* O_TRUNC kfree all the nodes").
FreedUntouched == [][\A b \in freed : content'[b] = content[b]]_initrdVars

\* A write to a file in a module stays within the file ("if the data block is not
\* large enough, we copy only the rest of the current block").
NeighboursIntact ==
  [][\A k \in block_size..(Width - 1) : content'[ModuleBlock][k] = content[ModuleBlock][k]]_initrdVars

\* The bytes are where they belong, files in one piece are read right, and no call
\* fails.
FileRight == InitrdTypeOK /\ Stored /\ ReadRightInOnePiece /\ NoFault
=============================================================================
