------------------------------ MODULE FileSys ------------------------------
(***************************************************************************)
(* The file system (fs/fs.c) over its block cache (fs/bc.c) and the disk.   *)
(* The file server is the only environment that runs this code, so an       *)
(* operation is one step in memory; the block writes it makes reach the     *)
(* disk one at a time, in order, and a crash may come before any of them.   *)
(* All but what is on the disk is then lost, and the server starts again.   *)
(*                                                                         *)
(* A cached block that is not dirty equals the disk's, so memory holds a    *)
(* value for every block, paged in or not. Blocks hold BLKSIZE units; one   *)
(* entry of a directory block is one struct File. The root is the only      *)
(* directory: no request creates another.                                   *)
(***************************************************************************)
EXTENDS Integers, Sequences, SequencesExt, FiniteSets

CONSTANTS Names, NoName, Garbage,
          NBLOCKS,           \* s_nblocks
          BLKSIZE, BLKFILES, NDIRECT, NINDIRECT,
          NPAD,              \* the words of f_pad, behind f_indirect
          Vals,              \* what a unit of a file may hold; 0 is cleared
          MaxSize,           \* bound: the size of a file
          MaxCrash           \* bound: the number of crashes

ASSUME FileSysAssumption ==
    /\ {NoName, Garbage} \cap Names = {} /\ NoName # Garbage
    /\ NBLOCKS \in Nat \ 0 .. 4
    /\ {BLKSIZE, BLKFILES, NDIRECT, NINDIRECT} \subseteq Nat \ {0}
    /\ NPAD \in Nat /\ MaxSize \in Nat /\ MaxCrash \in Nat
    /\ 0 \in Vals /\ Vals \subseteq Nat
    /\ MaxSize <= (NDIRECT + 1 + NPAD) * BLKSIZE

SUPER == 1
BITMAP == 2
Blocks == 3 .. NBLOCKS - 1
Reserved == {0, SUPER, BITMAP}

\* struct File. The block pointers are the words f_direct, f_indirect, f_pad,
\* which are contiguous: f_ptr[NDIRECT] is f_indirect.
Ptrs == 0 .. NDIRECT + NPAD
NoPtrs == [i \in Ptrs |-> 0]
EmptyFile == [f_name |-> NoName, f_size |-> 0, f_ptr |-> NoPtrs]

\* A block, read as data and read as directory entries. The bytes of a file
\* may be anything as a struct File: here, one that names the root's block.
Leftover == [f_name |-> Garbage, f_size |-> BLKSIZE, f_ptr |-> [NoPtrs EXCEPT ![0] = 3]]
NoData == [k \in 0 .. BLKSIZE - 1 |-> 0]
DataBlock(d) == [data |-> d,
                 ents |-> [j \in 0 .. BLKFILES - 1 |->
                             IF d = NoData THEN EmptyFile ELSE Leftover]]
Cleared == DataBlock(NoData)

VARIABLES disk,      \* [super: [magic, root], free: set of blocks, blk: [Blocks -> block]]
          mem,       \* the same, as the file server sees it
          dirty,     \* the blocks with PTE_D set
          wq,        \* the block writes of the operation in progress
          flushing,  \* the files whose flush is in progress
          phase,     \* "off", "boot", "up", or "panic"
          crashes

vars == <<disk, mem, dirty, wq, flushing, phase, crashes>>

\* fsformat's image: the root directory has one block, with room for BLKFILES.
Init ==
    /\ disk = [super |-> [magic |-> TRUE,
                          root |-> [EmptyFile EXCEPT !.f_size = BLKSIZE, !.f_ptr[0] = 3]],
               free |-> 4 .. NBLOCKS - 1,
               blk |-> [b \in Blocks |-> Cleared]]
    /\ mem = disk /\ dirty = {}
    /\ wq = <<>> /\ flushing = {} /\ phase = "off" /\ crashes = 0

(***************************************************************************)
(* The state of a running operation: memory, dirty blocks, the writes so    *)
(* far, the result r, and a block number and a struct File it has found.    *)
(***************************************************************************)
Call == [mem |-> mem, dirty |-> dirty, w |-> <<>>, r |-> "ok", b |-> 0, f |-> <<0, 0>>]
Fail(c, r) == [c EXCEPT !.r = r]

\* What the code goes on with when a call returned r; it hands any other
\* result on.
On(c, r, Op(_)) == IF c.r = r THEN Op(Fail(c, "ok")) ELSE c
Then(c, Op(_)) == On(c, "ok", Op)

BlockOf(m, b) == CASE b = SUPER -> m.super [] b = BITMAP -> m.free [] OTHER -> m.blk[b]

flush_block(c, b) ==
    IF b \notin c.dirty THEN c
    ELSE [c EXCEPT !.w = Append(@, [b |-> b, image |-> BlockOf(c.mem, b)]),
                   !.dirty = @ \ {b}]

\* A struct File is named by its block and its index there; the root is in
\* the super block.
Root == <<SUPER, 0>>
File(m, f) == IF f = Root THEN m.super.root ELSE m.blk[f[1]].ents[f[2]]
SetFile(c, f, file) ==
    IF f = Root THEN [c EXCEPT !.mem.super.root = file, !.dirty = @ \cup {SUPER}]
    ELSE [c EXCEPT !.mem.blk[f[1]].ents[f[2]] = file, !.dirty = @ \cup {f[1]}]

NBlocks(size) == (size + BLKSIZE - 1) \div BLKSIZE

(***************************************************************************)
(* Blocks                                                                   *)
(***************************************************************************)
free_block(c, b) == [c EXCEPT !.mem.free = @ \cup {b}, !.dirty = @ \cup {BITMAP}]

TakeBlock(c, b) == [c EXCEPT !.mem.free = @ \ {b}, !.dirty = @ \cup {BITMAP}, !.b = b]

\* Mutant: the bitmap is left to a later sync.
alloc_blockNoFlush(c) ==
    IF c.mem.free = {} THEN Fail(c, "no_disk") ELSE TakeBlock(c, Min(c.mem.free))

alloc_block(c) ==
    IF c.mem.free = {} THEN Fail(c, "no_disk")
    ELSE flush_block(TakeBlock(c, Min(c.mem.free)), BITMAP)

\* The slot of block n of a file is its pointer n, behind f_indirect too.
file_block_walk(c, f, n, alloc) ==
    IF n < NDIRECT THEN c
    ELSE IF n >= NDIRECT + NINDIRECT THEN Fail(c, "inval")
    ELSE IF File(c.mem, f).f_ptr[NDIRECT] # 0 THEN c
    ELSE IF ~ alloc THEN Fail(c, "not_found")
    ELSE Then(alloc_block(c), LAMBDA a :
             SetFile([a EXCEPT !.mem.blk[a.b] = Cleared, !.dirty = @ \cup {a.b}],
                     f, [File(a.mem, f) EXCEPT !.f_ptr[NDIRECT] = a.b]))

file_get_block(c, f, n) ==
    Then(file_block_walk(c, f, n, TRUE), LAMBDA s :
        IF File(s.mem, f).f_ptr[n] # 0 THEN [s EXCEPT !.b = File(s.mem, f).f_ptr[n]]
        ELSE Then(alloc_block(s), LAMBDA a :
                 SetFile(a, f, [File(a.mem, f) EXCEPT !.f_ptr[n] = a.b])))

\* The body of a loop over block numbers, which an error ends.
Loop(Body(_, _), c, first, last) ==
    FoldLeft(LAMBDA d, n : Then(d, LAMBDA e : Body(e, n)), c,
             [i \in 1 .. last - first + 1 |-> first + i - 1])

(***************************************************************************)
(* Files                                                                    *)
(***************************************************************************)
\* Mutant: the slot is not cleared.
file_free_blockKept(c, f, n) ==
    LET p == File(c.mem, f).f_ptr[n]
    IN IF p = 0 THEN c ELSE free_block(c, p)

\* Mutant: the block is not given back.
file_free_blockLost(c, f, n) == SetFile(c, f, [File(c.mem, f) EXCEPT !.f_ptr[n] = 0])

file_free_block(c, f, n) ==
    LET s == file_block_walk(c, f, n, FALSE)
        p == File(c.mem, f).f_ptr[n]
    IN IF s.r # "ok" \/ p = 0 THEN c
       ELSE SetFile(free_block(c, p), f, [File(c.mem, f) EXCEPT !.f_ptr[n] = 0])

file_truncate_blocks(c, f, newsize) ==
    Then(Loop(LAMBDA e, n : file_free_block(e, f, n), c,
              NBlocks(newsize), NBlocks(File(c.mem, f).f_size) - 1), LAMBDA d :
        LET i == File(d.mem, f).f_ptr[NDIRECT]
        IN IF NBlocks(newsize) <= NDIRECT /\ i # 0
           THEN SetFile(free_block(d, i), f, [File(d.mem, f) EXCEPT !.f_ptr[NDIRECT] = 0])
           ELSE d)

file_set_size(c, f, newsize) ==
    Then(IF File(c.mem, f).f_size > newsize THEN file_truncate_blocks(c, f, newsize) ELSE c,
         LAMBDA d : flush_block(SetFile(d, f, [File(d.mem, f) EXCEPT !.f_size = newsize]), f[1]))

file_read(c, f, count, offset) ==
    LET size == File(c.mem, f).f_size
        end  == IF offset + count > size THEN size ELSE offset + count
    IN IF offset >= size \/ end = offset THEN c
       ELSE Loop(LAMBDA d, n : file_get_block(d, f, n), c,
                 offset \div BLKSIZE, (end - 1) \div BLKSIZE)

Fill(c, f, n, from, to, v) ==
    LET written(k) == n * BLKSIZE + k \in from .. to
    IN Then(file_get_block(c, f, n), LAMBDA d :
           [d EXCEPT !.mem.blk[d.b] = DataBlock([k \in DOMAIN NoData |->
                                                   IF written(k) THEN v ELSE @.data[k]]),
                     !.dirty = @ \cup {d.b}])

file_write(c, f, v, count, offset) ==
    LET end == offset + count
    IN Then(IF end > File(c.mem, f).f_size THEN file_set_size(c, f, end) ELSE c, LAMBDA d :
           IF count = 0 THEN d
           ELSE Loop(LAMBDA e, n : Fill(e, f, n, offset, end - 1, v), d,
                     offset \div BLKSIZE, (end - 1) \div BLKSIZE))

FlushNth(c, f, n) ==
    LET s == file_block_walk(c, f, n, FALSE)
        p == File(c.mem, f).f_ptr[n]
    IN IF s.r # "ok" \/ p = 0 THEN c ELSE flush_block(c, p)

\* Mutant: the last block is left out.
file_flushShort(c, f) ==
    flush_block(Loop(LAMBDA e, n : FlushNth(e, f, n), c, 0, NBlocks(File(c.mem, f).f_size) - 2), f[1])

file_flush(c, f) ==
    LET size == File(c.mem, f).f_size
        i == File(c.mem, f).f_ptr[NDIRECT]
    IN Then(Loop(LAMBDA e, n : FlushNth(e, f, n), c, 0, NBlocks(size) - 1), LAMBDA d :
           IF i # 0 THEN flush_block(flush_block(d, f[1]), i) ELSE flush_block(d, f[1]))

fs_sync(c) == Loop(LAMBDA d, b : flush_block(d, b), c, SUPER, NBLOCKS - 1)

(***************************************************************************)
(* The root directory                                                       *)
(***************************************************************************)
\* One block of a search for an entry with this name; r is "found" then.
SearchBlock(c, n, name) ==
    Then(file_get_block(c, Root, n), LAMBDA d :
        LET J == {j \in 0 .. BLKFILES - 1 : d.mem.blk[d.b].ents[j].f_name = name}
        IN IF J = {} THEN d ELSE [d EXCEPT !.r = "found", !.f = <<d.b, Min(J)>>])

Search(c, name) ==
    Loop(LAMBDA d, n : SearchBlock(d, n, name), c, 0, File(c.mem, Root).f_size \div BLKSIZE - 1)

\* The search ended with the entry in hand.
Found(c) == On(c, "found", LAMBDA d : d)

dir_lookup(c, name) ==
    Found(Then(Search(c, name), LAMBDA d : Fail(d, "not_found")))

dir_alloc_file(c) ==
    LET size == File(c.mem, Root).f_size
    IN Found(Then(Search(c, NoName), LAMBDA d :
           Then(file_get_block(SetFile(d, Root, [File(d.mem, Root) EXCEPT !.f_size = size + BLKSIZE]),
                               Root, size \div BLKSIZE),
                LAMBDA e : [e EXCEPT !.f = <<e.b, 0>>])))

file_create(c, name) ==
    On(Then(dir_lookup(c, name), LAMBDA d : Fail(d, "exists")), "not_found", LAMBDA d :
        Then(dir_alloc_file(d), LAMBDA e :
            file_flush(SetFile(e, e.f, [File(e.mem, e.f) EXCEPT !.f_name = name]), Root)))

(***************************************************************************)
(* Operations, as the server calls them; an open file stays where it is.    *)
(***************************************************************************)
DirBlocks(m) == {File(m, Root).f_ptr[n] : n \in 0 .. File(m, Root).f_size \div BLKSIZE - 1} \ {0}
Entries(m) == DirBlocks(m) \X (0 .. BLKFILES - 1)
Exists(m, name) == \E f \in Entries(m) : File(m, f).f_name = name
Entry(m, name) == CHOOSE f \in Entries(m) : File(m, f).f_name = name

Begin(c) ==
    /\ phase = "up" /\ wq = <<>> /\ flushing = {}
    /\ mem' = c.mem /\ dirty' = c.dirty /\ wq' = c.w
    /\ UNCHANGED <<disk, phase, crashes>>

Create(name) ==
    /\ Begin(file_create(Call, name))
    /\ UNCHANGED flushing

Open(name) ==
    /\ Begin(dir_lookup(Call, name))
    /\ UNCHANGED flushing

SetSize(name, size) ==
    /\ Exists(mem, name)
    /\ Begin(file_set_size(Call, Entry(mem, name), size))
    /\ UNCHANGED flushing

Read(name, count, offset) ==
    /\ Exists(mem, name)
    /\ Begin(file_read(Call, Entry(mem, name), count, offset))
    /\ UNCHANGED flushing

Write(name, v, count, offset) ==
    /\ Exists(mem, name) /\ offset + count <= MaxSize
    /\ Begin(file_write(Call, Entry(mem, name), v, count, offset))
    /\ UNCHANGED flushing

Flush(name) ==
    /\ Exists(mem, name)
    /\ Begin(file_flush(Call, Entry(mem, name)))
    /\ flushing' = {name}

Sync ==
    /\ Begin(fs_sync(Call))
    /\ flushing' = Names

\* ide_write of one block.
DiskWrite ==
    /\ wq # <<>>
    /\ LET b == Head(wq).b
           i == Head(wq).image
       IN disk' = CASE b = SUPER  -> [disk EXCEPT !.super = i]
                    [] b = BITMAP -> [disk EXCEPT !.free = i]
                    [] OTHER      -> [disk EXCEPT !.blk[b] = i]
    /\ wq' = Tail(wq)
    /\ UNCHANGED <<mem, dirty, flushing, phase, crashes>>

\* The reply to a flush or a sync, once its writes are done.
Flushed ==
    /\ flushing # {} /\ wq = <<>>
    /\ flushing' = {}
    /\ UNCHANGED <<disk, mem, dirty, wq, phase, crashes>>

(***************************************************************************)
(* Start, and crash                                                         *)
(***************************************************************************)
\* bc_init: check_bc smashes the super block on the disk and puts it back.
check_bc ==
    /\ phase = "off"
    /\ phase' = "boot"
    /\ wq' = <<[b |-> SUPER, image |-> [disk.super EXCEPT !.magic = FALSE]],
               [b |-> SUPER, image |-> disk.super]>>
    /\ UNCHANGED <<disk, mem, dirty, flushing, crashes>>

\* check_super and check_bitmap.
fs_init ==
    /\ phase = "boot" /\ wq = <<>>
    /\ phase' = IF disk.super.magic /\ disk.free \cap Reserved = {} THEN "up" ELSE "panic"
    /\ UNCHANGED <<disk, mem, dirty, wq, flushing, crashes>>

Crash ==
    /\ crashes < MaxCrash
    /\ mem' = disk /\ dirty' = {} /\ wq' = <<>> /\ flushing' = {}
    /\ phase' = "off"
    /\ crashes' = crashes + 1
    /\ UNCHANGED disk

\* What one request may span. A write is less than a page and may lie across
\* two blocks; cat reads two pages, the second of which serve_read puts behind
\* the request page, into the cache of block 0, which nothing else uses.
MaxCount == 2 * BLKSIZE

Next ==
    \/ \E name \in Names :
         \/ Create(name) \/ Open(name) \/ Flush(name)
         \/ \E size \in 0 .. MaxSize : SetSize(name, size)
         \/ \E offset \in 0 .. MaxSize, count \in 1 .. MaxCount :
              \/ Read(name, count, offset)
              \/ \E v \in Vals \ {0} : Write(name, v, count, offset)
    \/ Sync \/ DiskWrite \/ Flushed
    \/ check_bc \/ fs_init \/ Crash

Spec == Init /\ [][Next]_vars

(***************************************************************************)
(* Properties                                                               *)
(***************************************************************************)
FileType(file) ==
    /\ file.f_name \in Names \cup {NoName, Garbage}
    /\ file.f_size \in 0 .. (NDIRECT + 1 + NPAD) * BLKSIZE
    /\ file.f_ptr \in [Ptrs -> Blocks \cup {0}]

ImageType(m) ==
    /\ m.super.magic \in BOOLEAN /\ FileType(m.super.root)
    /\ m.free \subseteq Blocks
    /\ \A b \in Blocks :
         /\ m.blk[b].data \in [0 .. BLKSIZE - 1 -> Vals]
         /\ \A j \in 0 .. BLKFILES - 1 : FileType(m.blk[b].ents[j])

\* Type correctness of the cached and of the on-disk file system (fs/fs.h):
\* sizes stay within the pointers, pointers within the disk, and the reserved
\* blocks are never free (the assertions of check_bitmap and free_block).
TypeOK ==
    /\ ImageType(disk) /\ ImageType(mem)
    /\ dirty \subseteq 1 .. NBLOCKS - 1
    /\ flushing \subseteq Names
    /\ phase \in {"off", "boot", "up", "panic"} /\ crashes \in 0 .. MaxCrash

\* The pointers of the files of an image, the root included.
Files(m) == {Root} \cup {f \in Entries(m) : File(m, f).f_name # NoName}
Pointers(m) == {x \in Files(m) \X Ptrs : File(m, x[1]).f_ptr[x[2]] # 0}
Owned(m) == {File(m, x[1]).f_ptr[x[2]] : x \in Pointers(m)}
OwnedOnce(m) == Cardinality(Owned(m)) = Cardinality(Pointers(m))

\* At every moment, in the middle of any operation, a crash would leave on the
\* disk a file system in which no block has two owners and no owned block is
\* free: alloc_block flushes the bitmap before a pointer to the block can be
\* flushed, and file_set_size flushes the cleared pointers before anything
\* flushes the bitmap.
DiskSound == OwnedOnce(disk) /\ Owned(disk) \cap disk.free = {}

\* In memory, every block has at most one owner, none that is free, and each
\* block of a file is beyond neither its size nor the super block's reach
\* (file_get_block, file_truncate_blocks).
MemSound ==
    /\ OwnedOnce(mem) /\ Owned(mem) \cap mem.free = {}
    /\ \A x \in Pointers(mem) :
         x[2] < NBlocks(File(mem, x[1]).f_size) \/ x[2] = NDIRECT

\* Until the first crash no block is lost: a block is free or owned.
NoLeak == crashes = 0 => Blocks \subseteq Owned(mem) \cup mem.free

View(m) ==
    LET E == Entries(m)
        at(file, p) == LET b == file.f_ptr[p \div BLKSIZE]
                       IN IF b = 0 THEN -1 ELSE m.blk[b].data[p % BLKSIZE]
        view(file) == [exists |-> TRUE, at |-> [p \in 0 .. file.f_size - 1 |-> at(file, p)]]
    IN [name \in Names |->
          IF \E f \in E : File(m, f).f_name = name
          THEN view(File(m, CHOOSE f \in E : File(m, f).f_name = name))
          ELSE [exists |-> FALSE, at |-> <<>>]]

Store == INSTANCE FileStore WITH
    content <- View(mem), saved <- View(disk)

\* The file system implements the abstract store: reads and writes touch the
\* positions they should of the file they name and no other, what a flush or a
\* sync has answered for is on the disk, and no later block write or crash
\* loses it (file_write, file_set_size, file_flush, fs_sync).
IsFileStore == Store!Spec

\* The file system can be started after every crash (check_super's panic).
NoPanic == phase # "panic"
=============================================================================
