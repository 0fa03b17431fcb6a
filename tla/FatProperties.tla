--------------------------- MODULE FatProperties ---------------------------
(***************************************************************************)
(* What the file system promises.                                          *)
(***************************************************************************)
EXTENDS Fat, FiniteSets

\* The bytes of a file.
FileBytes(t, d, first, size) ==
    [p \in 1 .. size |->
        LET n == (p - 1) \div B
        IN Contents(d, Sector(Absolute(t, first, n \div S), n))[(p - 1) % B]]

\* The directory entries there are: on the card and in the table of open files.
Entries == {dir[s] : s \in Slot} \cup {inode[fd].entry : fd \in Fd}
Files == {entry \in Entries : entry.name # NoName}

Chain(first) == {Absolute(table, first, k) : k \in 0 .. ENTRIES} \cap DOMAIN table

----------------------------------------------------------------------------
(* Whatever programs do. *)

\* No cluster belongs to two files, or twice to one: at most one cluster leads
\* to it, none to the first cluster of a file, and no file leads to a free one,
\* however a file is opened twice, closed twice or sought (fat_find_free_cluster,
\* fat_append_cluster, fat_close_file).
OneLink == \A c, d \in DOMAIN table : table[c] = table[d] /\ table[c] \notin {0, END} => c = d
OneFirst == \A f, g \in Files : f.first = g.first => f.name = g.name
FirstIsFirst == \A f \in Files, c \in DOMAIN table : table[c] # f.first
NoneFree ==
    /\ \A f \in Files : table[f.first] # 0
    /\ \A c \in DOMAIN table : table[c] \notin {0, END} => table[table[c]] # 0
NoCrossLinks == OneLink /\ OneFirst /\ FirstIsFirst /\ NoneFree

\* A write through one descriptor never changes what another file on the card
\* holds, not even when it starts past the end of its own.
FilesApart ==
    [][\A s \in Slot :
          LET f == dir[s]
          IN f.name # NoName
             /\ FileBytes(table, data, f.first, f.size) # FileBytes(table', data', f.first, f.size)
             => \E fd \in Fd : /\ inode[fd].name = f.name
                               /\ fd = call.fd \/ \E len \in 0 .. MAX_LEN : WriteFile(fd, len)]_<<table, data>>

\* A name never has two directory entries, although close finds the entry by
\* name and open looks for a free one separately (fat_set_dir_entry,
\* fat_create_file).
NamesUnique == \A s, t \in Slot : dir[s].name = dir[t].name /\ dir[s].name # NoName => s = t

----------------------------------------------------------------------------
(* For careful programs. *)

HeldBy(name) == {fd \in Fd : IsOpen(fd) /\ inode[fd].name = name}
SizeNow(fd) == IF call # Idle /\ call.fd = fd THEN call.size ELSE inode[fd].entry.size

\* The files and descriptors of the abstract store; a write has happened when
\* it returns.
NoFile == <<Bad>>
Closed == [name |-> NoName, readable |-> FALSE, writable |-> FALSE, offset |-> 0]

StoreContent ==
    [name \in Name |->
        IF HeldBy(name) # {}
        THEN LET fd == CHOOSE fd \in HeldBy(name) : TRUE
             IN FileBytes(table, data, inode[fd].entry.first, SizeNow(fd))
        ELSE IF Exists(name)
        THEN LET s == CHOOSE s \in Slot : Found(name, s)
             IN FileBytes(table, data, dir[s].first, dir[s].size)
        ELSE NoFile]

StoreHandle ==
    [fd \in Fd |->
        IF IsOpen(fd)
        THEN [name |-> inode[fd].name, readable |-> Readable(fd), writable |-> Writable(fd),
              offset |-> IF call # Idle /\ call.fd = fd THEN call.from ELSE inode[fd].offset]
        ELSE Closed]

StoreWritten == IF call # Idle THEN call.base ELSE written

Store == INSTANCE FileStore WITH
    content <- StoreContent, handle <- StoreHandle, written <- StoreWritten

\* The whole blocks of a read lie in clusters that follow one another on the
\* card: fat_read_block counts the clusters of earlier runs again.
OneRun(fd, len) ==
    LET next == inode[fd].offset \div B + 1
        last == inode[fd].offset \div B + More(inode[fd].offset, len) - 1
    IN \A k \in next \div S .. (last \div S) - 1 :
          Absolute(table, inode[fd].entry.first, k + 1)
            = Absolute(table, inode[fd].entry.first, k) + 1

\* A step that is not a read of several runs, while no block has been written
\* behind the data area.
Promised ==
    /\ strayed' = {}
    /\ \A fd \in Fd, len \in 0 .. MAX_LEN : ReadFile(fd, len) => OneRun(fd, len)

\* For such programs the file system is the abstract store, but for those steps:
\* reads return what was written, in order, across blocks and clusters and after
\* closing, and a call that fails spoils nothing (fat_read_file, fat_write_file).
StoreKept == Store!Init /\ [][Promised => Store!Next]_(Store!vars)

\* The chain of a file has room for all its bytes (fat_append_cluster).
SizeBacked == \A f \in Files : f.size <= Cardinality(Chain(f.first)) * S * B

\* A block goes outside the data area only where the table has a cluster that
\* the card has not, although fat_get_absolute_cluster lets a write go to
\* cluster 0xffff.
StraysOnlyBehind == strayed \subseteq CLUSTERS + 2 .. ENTRIES - 1

----------------------------------------------------------------------------
(* What the repository says, and the code does not keep. *)

\* test_fat.c reads 1300 bytes of a file in one call and expects the bytes of
\* the file (fat_read_block).
LongReadsRight ==
    [][\A fd \in Fd, len \in 0 .. MAX_LEN :
          ReadFile(fd, len) =>
              LET f == inode[fd].entry
              IN reply'.bytes = SubSeq(FileBytes(table, data, f.first, f.size),
                                       inode[fd].offset + 1, inode[fd].offset + len)]_vars
============================================================================
