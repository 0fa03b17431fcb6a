-------------------------------- MODULE Fat --------------------------------
(***************************************************************************)
(* The FAT16 file system (fat/fat.c): the root directory and the blocks on *)
(* the card, the cluster table that fat_init read into memory and nothing  *)
(* writes back, and the table of open files with their copies of directory *)
(* entries.  The kernel runs one file call at a time; a write is one step  *)
(* per block, every other call one step.                                   *)
(*                                                                         *)
(* A name is a model value: fat_convert_file_name accepted it.  A byte is  *)
(* its number in the order of writing.  Left out: the geometry checks of   *)
(* fat_init, attributes and time stamps, reads the card fails, and reads   *)
(* and writes through a descriptor that is not open.                       *)
(***************************************************************************)
EXTENDS Integers, Sequences

CONSTANTS
    Name, NoName,            \* NoName: name[0] = 0, a free directory entry
    SLOTS,                   \* entries of the root directory
    MAX_OPEN_FILES,
    EMMC_BLOCK_SIZE, sectors_per_cluster, data_base_sector,
    CLUSTERS,                \* clusters the data area has
    ENTRIES,                 \* entries the cluster table has
    OpenFlags,               \* the flags programs open files with
    CARD_FAILS,              \* the card may fail to write a block
    MAX_LEN,                 \* bound: bytes of a call
    MAX_WRITTEN,             \* bound: bytes written in a behaviour
    MAX_OFFSET               \* bound: where a seek may lead

ASSUME FatAssumption ==
    /\ NoName \notin Name
    /\ SLOTS \in Nat /\ MAX_OPEN_FILES \in Nat
    /\ EMMC_BLOCK_SIZE \in Nat \ {0} /\ sectors_per_cluster \in Nat \ {0}
    /\ data_base_sector \in Nat /\ CLUSTERS \in Nat
    /\ ENTRIES \in Nat /\ 1 < ENTRIES /\ ENTRIES < 65535
    /\ OpenFlags \subseteq SUBSET {"O_WRONLY", "O_RDWR", "O_CREAT", "O_EXCL", "O_APPEND"}
    /\ CARD_FAILS \in BOOLEAN
    /\ MAX_LEN \in Nat /\ MAX_WRITTEN \in Nat /\ MAX_OFFSET \in Nat

VARIABLES
    dir,         \* the root directory on the card
    data,        \* the blocks of the data area on the card
    table,       \* fat.sectors, the cluster table in memory
    inode,       \* system_inode_table
    call,        \* fat_write_file between two blocks
    written,     \* bytes handed to fat_write_file
    reply,       \* the result of the last call
    strayed      \* clusters outside the data area, or the table, that were written to

disk == <<dir, data, table, strayed>>
vars == <<disk, inode, call, written, reply>>

Slot == 1 .. SLOTS
Fd == 3 .. MAX_OPEN_FILES - 1
END == 65535             \* 0xffff: in use, and no cluster follows
Bad == -1                \* fat_get_absolute_cluster failed
B == EMMC_BLOCK_SIZE
S == sectors_per_cluster

Entry == [name : Name \cup {NoName}, first : 0 .. ENTRIES - 1, size : Nat]
NoEntry == [name |-> NoName, first |-> 0, size |-> 0]
Block == [0 .. B - 1 -> Nat]
Blank == [k \in 0 .. B - 1 |-> 0]     \* no byte written by a program
Inode == [flags : OpenFlags \cup {{}}, offset : Nat, name : Name \cup {NoName}, entry : Entry]

Idle == [fd |-> 0, len |-> 0, i |-> 0, from |-> 0, size |-> 0, base |-> 0]
Call == [fd : Fd \cup {0}, len : Nat, i : Nat, from : Nat, size : Nat, base : Nat]
OK == [ok |-> TRUE, bytes |-> <<>>]
ERR == [ok |-> FALSE, bytes |-> <<>>]

TypeOK ==
    /\ dir \in [Slot -> Entry]
    /\ data \in [0 .. CLUSTERS * S - 1 -> Block]
    /\ table \in [0 .. ENTRIES - 1 -> 0 .. ENTRIES - 1 \cup {END}]
    /\ inode \in [Fd -> Inode]
    /\ call \in Call
    /\ written \in Nat
    /\ reply \in [ok : BOOLEAN, bytes : Seq(Nat)]
    /\ strayed \subseteq Nat

\* After fat_init has read a freshly formatted card.
Init ==
    /\ dir = [s \in Slot |-> NoEntry]
    /\ data = [b \in 0 .. CLUSTERS * S - 1 |-> Blank]
    /\ table = [c \in 0 .. ENTRIES - 1 |-> IF c < 2 THEN END ELSE 0]
    /\ inode = [fd \in Fd |-> [flags |-> {}, offset |-> 0, name |-> NoName, entry |-> NoEntry]]
    /\ call = Idle /\ written = 0 /\ reply = OK /\ strayed = {}

----------------------------------------------------------------------------
(* The cluster table. *)

\* The cluster n links behind the first one.  One link past the last cluster
\* is END, and no failure.
Absolute(t, first, n) ==
    LET at[k \in 0 .. n] == IF k = 0 THEN first
                            ELSE IF at[k - 1] \in DOMAIN t THEN t[at[k - 1]] ELSE Bad
    IN at[n]

\* Mutant: one link too many.
BeforeNone(n) == n

\* n - 1 links, unsigned: 2^32 - 1 links lead out of every chain.
Before(n) == IF n = 0 THEN ENTRIES + 1 ELSE n - 1

\* Mutant: an entry is free if nothing follows it.
FreeOrLast(t) == {c \in DOMAIN t : t[c] \in {0, END}}

Free(t) == {c \in DOMAIN t : t[c] = 0}

Lowest(set, x) == x \in set /\ \A y \in set : x <= y

\* fat_find_free_cluster: the lowest, if there is one.
FreeCluster == IF Free(table) = {} THEN {Bad} ELSE {c \in DOMAIN table : Lowest(Free(table), c)}

Sector(cluster, n) == (cluster - 2) * S + (n % S)
Contents(d, sector) == IF sector \in DOMAIN d THEN d[sector] ELSE Blank

----------------------------------------------------------------------------
(* Opening and closing. *)

IsOpen(fd) == inode[fd].entry.name # NoName
FreeFd(fd) == Lowest({f \in Fd : ~ IsOpen(f)}, fd)
FreeSlot(s) == Lowest({t \in Slot : dir[t].name = NoName}, s)
Found(name, s) == Lowest({t \in Slot : dir[t].name = name}, s)

\* Mutant: only the first entry is looked at.
ExistsFirst(name) == dir[1].name = name

Exists(name) == \E s \in Slot : dir[s].name = name

CardOutcome == IF CARD_FAILS THEN BOOLEAN ELSE {TRUE}

\* What a failed fat_open_file leaves in the slot it had picked.
Opened(flags, offset, name, entry) ==
    [flags |-> flags, offset |-> offset, name |-> name, entry |-> entry]

OpenExisting(name, flags) ==
    \E fd \in Fd, s \in Slot :
        /\ call = Idle /\ FreeFd(fd) /\ Found(name, s)
        /\ "O_EXCL" \notin flags
        /\ inode' = [inode EXCEPT ![fd] =
                        Opened(flags, IF "O_APPEND" \in flags THEN dir[s].size ELSE 0, name, dir[s])]
        /\ reply' = OK
        /\ UNCHANGED <<disk, call, written>>

\* Mutant: the new cluster is not marked as used.
ClusterUnmarked(t, c) == t

\* Mutant: it is marked with the end of a FAT12 chain.
ClusterMarked12(t, c) == [t EXCEPT ![c] = 4095]

ClusterMarked(t, c) == [t EXCEPT ![c] = END]

\* fat_create_file; the cluster stays taken when the card fails.
OpenCreates(name, flags) ==
    \E fd \in Fd, s \in Slot, c \in FreeCluster :
        /\ call = Idle /\ FreeFd(fd) /\ ~ Exists(name)
        /\ "O_CREAT" \in flags
        /\ FreeSlot(s) /\ c # Bad
        /\ table' = ClusterMarked(table, c)
        /\ LET entry == [name |-> name, first |-> c, size |-> 0]
           IN \E card \in CardOutcome :
                \/ /\ card
                   /\ dir' = [dir EXCEPT ![s] = entry]
                   /\ inode' = [inode EXCEPT ![fd] = Opened(flags, 0, name, entry)]
                   /\ reply' = OK
                \/ /\ ~ card
                   /\ inode' = [inode EXCEPT ![fd] = Opened(flags, 0, name, NoEntry)]
                   /\ reply' = ERR
                   /\ UNCHANGED dir
        /\ UNCHANGED <<data, strayed, call, written>>

\* No descriptor, no such file, an unwanted one, or no room for a new one.
OpenFails(name, flags) ==
    /\ call = Idle
    /\ \/ /\ \A fd \in Fd : IsOpen(fd)
          /\ UNCHANGED inode
       \/ \E fd \in Fd :
            /\ FreeFd(fd)
            /\ \/ Exists(name) /\ "O_EXCL" \in flags
               \/ ~ Exists(name) /\ "O_CREAT" \notin flags
               \/ ~ Exists(name) /\ ~ \E s \in Slot : FreeSlot(s)
               \/ ~ Exists(name) /\ Free(table) = {}
            /\ inode' = [inode EXCEPT ![fd] = Opened(flags, 0, name, NoEntry)]
    /\ reply' = ERR
    /\ UNCHANGED <<disk, call, written>>

\* fat_set_dir_entry: the entry of that name takes what the descriptor holds,
\* whether the descriptor is open or not; a card that fails goes unnoticed.
Close(fd) ==
    /\ call = Idle
    /\ \/ \E s \in Slot, card \in CardOutcome :
            /\ inode[fd].name # NoName /\ Found(inode[fd].name, s)
            /\ dir' = IF card THEN [dir EXCEPT ![s] = inode[fd].entry] ELSE dir
            /\ inode' = [inode EXCEPT ![fd].entry = NoEntry]
            /\ reply' = OK
       \/ /\ inode[fd].name = NoName \/ ~ Exists(inode[fd].name)
          /\ reply' = ERR
          /\ UNCHANGED <<dir, inode>>
    /\ UNCHANGED <<data, table, strayed, call, written>>

----------------------------------------------------------------------------
(* Writing.  The operators below return what the card and the cluster table *)
(* become, and whether they succeeded.                                      *)

State(t, d, s, ok) == [table |-> t, data |-> d, strayed |-> s, ok |-> ok]

\* fat_write_block: block n of a file.
WriteBlock(t, s, first, n, block, card) ==
    LET cluster == Absolute(t, first, n \div S)
        sector == Sector(cluster, n)
    IN IF cluster = Bad \/ ~ card THEN State(t, data, s, FALSE)
       ELSE IF sector \in DOMAIN data
       THEN State(t, [data EXCEPT ![sector] = block], s, TRUE)
       ELSE State(t, data, s \cup {cluster}, TRUE)

\* The cluster a new one is linked to.
LinkFrom(t, first, size) == Absolute(t, first, Before((size \div B) \div S))

\* fat_append_cluster, which found c free.
Linked(t, s, first, size, c) ==
    LET marked == ClusterMarked(t, c)
        last == LinkFrom(marked, first, size)
    IN IF c = Bad THEN State(t, data, s, FALSE)
       ELSE IF last = Bad THEN State(marked, data, s, FALSE)
       ELSE IF last \in DOMAIN t THEN State([marked EXCEPT ![last] = c], data, s, TRUE)
       ELSE State(marked, data, s \cup {last}, TRUE)

BlocksOf(size) == (size + B - 1) \div B

\* fat_append_block: in a new cluster, c, when the last one is full.
AppendBlock(first, size, block, card, c) ==
    LET n == BlocksOf(size)
        linked == IF n % S = 0 THEN Linked(table, strayed, first, size, c)
                  ELSE State(table, data, strayed, TRUE)
    IN IF linked.ok THEN WriteBlock(linked.table, linked.strayed, first, n, block, card)
       ELSE linked

\* The blocks of a call after its first.
More(offset, len) ==
    len \div B + (IF (len % B) + (offset % B) > B THEN 1 ELSE 0)

InFirst(offset, len) == IF len < B - (offset % B) THEN len ELSE B - (offset % B)

\* Mutant: the size is set before the block is written.
WroteAnyway(fd, result, offset, size) ==
    /\ table' = result.table /\ data' = result.data /\ strayed' = result.strayed
    /\ inode' = [inode EXCEPT ![fd].offset = offset, ![fd].entry.size = size]
    /\ UNCHANGED dir

\* What a block written leaves behind: its descriptor advances in any case.
Wrote(fd, result, offset, size) ==
    /\ table' = result.table /\ data' = result.data /\ strayed' = result.strayed
    /\ inode' = [inode EXCEPT ![fd].offset = offset,
                             ![fd].entry.size = IF result.ok THEN size ELSE @]
    /\ UNCHANGED dir

\* ... and the call goes on, or returns.
Continue(next, result, last) ==
    IF result.ok /\ ~ last THEN call' = next /\ UNCHANGED reply
    ELSE call' = Idle /\ reply' = [ok |-> result.ok, bytes |-> <<>>]

Writable(fd) == inode[fd].flags \cap {"O_WRONLY", "O_RDWR"} # {}

\* A call that is refused, or whose first block is past the end of the chain.
WriteFails(fd) ==
    /\ call = Idle /\ IsOpen(fd)
    /\ \/ ~ Writable(fd)
       \/ Absolute(table, inode[fd].entry.first, (inode[fd].offset \div B) \div S) = Bad
    /\ reply' = ERR
    /\ UNCHANGED <<disk, inode, call, written>>

\* The first block: read, changed and written back, or appended.
WriteFile(fd, len) ==
    LET entry == inode[fd].entry
        offset == inode[fd].offset
        n == offset \div B
        cluster == Absolute(table, entry.first, n \div S)
        end == offset + InFirst(offset, len)
        old == Contents(data, Sector(cluster, n))
        block == [k \in 0 .. B - 1 |-> LET place == n * B + k
                                       IN IF offset <= place /\ place < end
                                          THEN written + place - offset + 1 ELSE old[k]]
        overwrites == entry.size = 0 \/ end <= entry.size \/ offset % B > 0
    IN /\ call = Idle /\ IsOpen(fd) /\ Writable(fd)
       /\ cluster # Bad
       /\ written + len <= MAX_WRITTEN
       /\ written' = written + len
       /\ \E card \in CardOutcome, c \in FreeCluster :
            LET result == IF overwrites
                          THEN WriteBlock(table, strayed, entry.first, n, block, card)
                          ELSE AppendBlock(entry.first, entry.size, block, card, c)
            IN /\ Wrote(fd, result, end,
                        IF overwrites /\ end <= entry.size THEN entry.size ELSE end)
               /\ Continue([fd |-> fd, len |-> len, i |-> 1, from |-> offset,
                            size |-> entry.size, base |-> written],
                           result, More(offset, len) = 0)

\* One more block, written over or appended as a whole.
WriteOn ==
    LET fd == call.fd
        entry == inode[fd].entry
        last == call.i = More(call.from, call.len)
        n == call.from \div B + call.i
        end == IF last THEN call.from + call.len ELSE (n + 1) * B
        block == [k \in 0 .. B - 1 |-> IF n * B + k < end
                                       THEN call.base + n * B + k - call.from + 1 ELSE 0]
    IN /\ call # Idle
       /\ \E card \in CardOutcome, c \in FreeCluster :
            LET result == IF end < entry.size
                          THEN WriteBlock(table, strayed, entry.first, n, block, card)
                          ELSE AppendBlock(entry.first, entry.size, block, card, c)
            IN /\ Wrote(fd, result, end, IF end < entry.size THEN entry.size ELSE end)
               /\ Continue([call EXCEPT !.i = @ + 1], result, last)
       /\ UNCHANGED written

----------------------------------------------------------------------------
(* Reading and seeking. *)

\* How much fat_read_block reads of a run that starts at a sector and spans so
\* many clusters, of a request for n blocks from an offset in a cluster.
RunLength(clusters, offset, n, from) ==
    clusters * S - (offset - ((n - (S - ((data_base_sector + from) % S))) % S))

\* The sectors it reads for n blocks of a file from block start on, run after
\* run; the clusters of earlier runs keep counting.
Transfer(first, start, n) ==
    LET offset == start % S
        Begin == Sector(Absolute(table, first, start \div S), start)
        Count(from, clusters) == RunLength(clusters, offset, n, from)
        Run(from, length) == [k \in 1 .. length |-> from + k - 1]
        at[i \in 0 .. (n + offset - 1) \div S] ==
            IF i = 0
            THEN [cluster |-> Absolute(table, first, start \div S), from |-> Begin,
                  clusters |-> 1, out |-> <<>>]
            ELSE LET prev == at[i - 1]
                     next == IF prev.cluster \in DOMAIN table THEN table[prev.cluster] ELSE END
                 IN IF prev.cluster + 1 = next
                    THEN [prev EXCEPT !.cluster = next, !.clusters = @ + 1]
                    ELSE [prev EXCEPT !.cluster = next, !.from = Sector(next, 0),
                                      !.out = @ \o Run(prev.from, Count(prev.from, prev.clusters))]
        end == at[(n + offset - 1) \div S]
    IN IF n + offset <= S THEN Run(Begin, n)
       ELSE end.out \o Run(end.from, Count(end.from, end.clusters))

\* Mutant: the offset in the first block is forgotten.
LastShort(offset, len) == len % B

\* The bytes the last block of a call contributes.
InLast(offset, len) ==
    IF (len % B) + (offset % B) > B THEN (len % B) - (B - (offset % B)) ELSE (len % B) + (offset % B)

\* The caller's buffer after fat_read_file: the first block, the blocks read
\* straight into it, and the last block over what they left.
ReadBuffer(first, offset, len) ==
    LET n == offset \div B
        more == More(offset, len)
        head == InFirst(offset, len)
        Byte(sector, k) == Contents(data, sector)[k]
        One(block) == Transfer(first, block, 1)[1]
        middle == IF more > 1 THEN Transfer(first, n + 1, more - 1) ELSE <<>>
        behind == head + B * (IF more > 1 THEN more - 1 ELSE 0)
    IN [p \in 1 .. len |->
          LET k == p - 1
          IN IF k < head THEN Byte(One(n), (offset % B) + k)
             ELSE IF more > 0 /\ behind <= k /\ k < behind + InLast(offset, len)
             THEN Byte(One(n + more), k - behind)
             ELSE IF (k - head) \div B < Len(middle)
             THEN Byte(middle[(k - head) \div B + 1], (k - head) % B)
             ELSE 0]

Readable(fd) == "O_WRONLY" \notin inode[fd].flags

TooLong(fd, len) == len > inode[fd].offset + inode[fd].entry.size

InFile(fd, len) == inode[fd].offset + len <= inode[fd].entry.size

\* The chain leads to every block of the read that it is asked for.
Reached(fd, len) ==
    LET n == inode[fd].offset \div B
    IN \A k \in {0, 1, More(inode[fd].offset, len)} :
          k <= More(inode[fd].offset, len) =>
              Absolute(table, inode[fd].entry.first, (n + k) \div S) # Bad

ReadFails(fd, len) ==
    /\ call = Idle /\ IsOpen(fd)
    /\ ~ Readable(fd) \/ TooLong(fd, len) \/ ~ Reached(fd, len)
    /\ reply' = ERR
    /\ UNCHANGED <<disk, inode, call, written>>

ReadFile(fd, len) ==
    LET offset == inode[fd].offset
    IN /\ call = Idle /\ IsOpen(fd) /\ Readable(fd)
       /\ ~ TooLong(fd, len) /\ Reached(fd, len) /\ InFile(fd, len)
       /\ reply' = [ok |-> TRUE, bytes |-> ReadBuffer(inode[fd].entry.first, offset, len)]
       /\ inode' = [inode EXCEPT ![fd].offset = offset + len]
       /\ UNCHANGED <<disk, call, written>>

\* Past the end of the file, where the check still lets it go: whatever is in
\* the blocks there, or a failure at the end of the chain.
ReadPastEnd(fd, len) ==
    /\ call = Idle /\ IsOpen(fd) /\ Readable(fd)
    /\ ~ TooLong(fd, len) /\ Reached(fd, len) /\ ~ InFile(fd, len)
    /\ inode[fd].offset + len <= MAX_OFFSET
    /\ \/ /\ reply' = [ok |-> TRUE, bytes |-> [k \in 1 .. len |-> 0]]
          /\ inode' = [inode EXCEPT ![fd].offset = @ + len]
       \/ reply' = ERR /\ UNCHANGED inode
    /\ UNCHANGED <<disk, call, written>>

\* SEEK_SET and SEEK_CUR lead anywhere, SEEK_END to the end of the file.
Seek(fd, offset) ==
    /\ call = Idle /\ IsOpen(fd)
    /\ inode' = [inode EXCEPT ![fd].offset = offset]
    /\ reply' = OK
    /\ UNCHANGED <<disk, call, written>>

----------------------------------------------------------------------------
(* What programs do: anything, or ... *)

Next ==
    \/ \E name \in Name, flags \in OpenFlags :
         OpenExisting(name, flags) \/ OpenCreates(name, flags) \/ OpenFails(name, flags)
    \/ \E fd \in Fd : Close(fd) \/ WriteFails(fd)
    \/ \E fd \in Fd, len \in 0 .. MAX_LEN :
         WriteFile(fd, len) \/ ReadFails(fd, len) \/ ReadFile(fd, len) \/ ReadPastEnd(fd, len)
    \/ WriteOn
    \/ \E fd \in Fd, offset \in 0 .. MAX_OFFSET : Seek(fd, offset)

Spec == Init /\ [][Next]_vars

\* ... with care: one descriptor at a time for a file and one call of close
\* for a descriptor, no seek or read past the end of the file, and writes of a
\* byte or more, at its end or inside one block.
IsOpenAs(name) == \E fd \in Fd : IsOpen(fd) /\ inode[fd].name = name

CarefulWrite(fd, len) ==
    LET offset == inode[fd].offset
        size == inode[fd].entry.size
    IN len > 0 /\
       \/ offset = size
       \/ /\ offset < size /\ More(offset, len) = 0
          /\ offset + len <= size \/ offset % B > 0

CarefulNext ==
    \/ \E name \in Name, flags \in OpenFlags :
         /\ ~ IsOpenAs(name)
         /\ OpenExisting(name, flags) \/ OpenCreates(name, flags) \/ OpenFails(name, flags)
    \/ \E fd \in Fd : (IsOpen(fd) /\ Close(fd)) \/ WriteFails(fd)
    \/ \E fd \in Fd, len \in 0 .. MAX_LEN :
         \/ CarefulWrite(fd, len) /\ WriteFile(fd, len)
         \/ ReadFails(fd, len) \/ ReadFile(fd, len)
    \/ WriteOn
    \/ \E fd \in Fd, offset \in 0 .. MAX_OFFSET :
         offset <= inode[fd].entry.size /\ Seek(fd, offset)

CarefulSpec == Init /\ [][CarefulNext]_vars
============================================================================
