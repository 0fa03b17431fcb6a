--------------------------- MODULE FatStoreProofs ---------------------------
(***************************************************************************)
(* The file system implements FileStore, when programs are careful.        *)
(*                                                                         *)
(* The argument: a block that is written is seen by the bytes of one file  *)
(* (FilesKeepApart gives the others), at the place the call has come to    *)
(* (CallStored); until the call returns the store is said to have the file *)
(* as long as it was, and then all that has been written at once.  What is *)
(* read of a run is what the scan for runs gathers, cluster by cluster.    *)
(***************************************************************************)
EXTENDS FatSizeProofs, SequenceTheorems

----------------------------------------------------------------------------
(* The bytes of files. *)

\* Byte p of a file, counted from 1.
ByteAt(t, d, first, p) ==
    LET n == (p - 1) \div B
    IN Contents(d, Sector(Absolute(t, first, n \div S), n))[(p - 1) % B]

\* Its block and its place in it.
LEMMA PlaceOfByte ==
    ASSUME NEW p \in Nat, p > 0
    PROVE  /\ p - 1 \in Nat /\ (p - 1) \div B \in Nat /\ (p - 1) % B \in 0 .. B - 1
           /\ ((p - 1) \div B) \div S \in Nat
           /\ p - 1 = B * ((p - 1) \div B) + ((p - 1) % B)
<1>1. p - 1 \in Nat
  OBVIOUS
<1>2. B \in Nat /\ (p - 1) \div B \in Nat /\ (p - 1) % B \in 0 .. B - 1
      /\ p - 1 = B * ((p - 1) \div B) + ((p - 1) % B)
  BY <1>1, InBlock, Sizes
<1>3. ((p - 1) \div B) \div S \in Nat
  BY <1>2, ClusterOf
<1> QED
  BY <1>1, <1>2, <1>3

\* The bytes of a file are a sequence of its size.
LEMMA BytesAt ==
    ASSUME NEW t, NEW d \in Data, NEW first, NEW size \in Nat
    PROVE  LET bytes == FileBytes(t, d, first, size)
           IN /\ bytes = [p \in 1 .. size |-> ByteAt(t, d, first, p)]
              /\ bytes \in Seq(Nat) /\ Len(bytes) = size /\ bytes # NoFile
<1> DEFINE bytes == FileBytes(t, d, first, size)
           byte(p) == ByteAt(t, d, first, p)
<1>1. bytes = [p \in 1 .. size |-> byte(p)]
  BY DEF FileBytes, ByteAt
<1>2. ASSUME NEW p \in 1 .. size PROVE byte(p) \in Nat
  <2> DEFINE sector == Sector(Absolute(t, first, ((p - 1) \div B) \div S), (p - 1) \div B)
  <2>1. p \in Nat /\ p > 0
    OBVIOUS
  <2>2. (p - 1) % B \in 0 .. B - 1
    BY <2>1, PlaceOfByte
  <2>3. byte(p) = Contents(d, sector)[(p - 1) % B]
    BY DEF ByteAt
  <2> HIDE DEF sector, byte
  <2>4. Contents(d, sector) \in Block
    BY DEF Contents, Block, Blank, Data
  <2> QED
    BY <2>2, <2>3, <2>4 DEF Block
<1> HIDE DEF byte, bytes
<1>3. bytes \in Seq(Nat) /\ Len(bytes) = size
  BY <1>1, <1>2
<1>4. bytes # NoFile
  <2>1. SUFFICES ASSUME bytes = NoFile PROVE FALSE
    OBVIOUS
  <2>2. bytes[1] = -1 /\ Len(bytes) = 1
    BY <2>1 DEF NoFile, Bad
  <2>3. bytes[1] \in Nat
    BY <1>1, <1>2, <1>3, <2>2
  <2> QED
    BY <2>2, <2>3
<1> QED
  BY <1>1, <1>3, <1>4 DEF bytes, byte

\* A byte is the same in a chain that is the same up to there.
LEMMA SameByte ==
    ASSUME NEW t, NEW u, NEW d, NEW first, NEW p,
           LET k == ((p - 1) \div B) \div S IN Absolute(u, first, k) = Absolute(t, first, k)
    PROVE  ByteAt(u, d, first, p) = ByteAt(t, d, first, p)
  BY DEF ByteAt

\* Two blocks of a chain lie in different sectors.
LEMMA BlocksApart ==
    ASSUME NEW t \in Table, Linear(t), NEW first, Starts(t, first), NEW m \in Nat, NEW n \in Nat,
           Absolute(t, first, n \div S) \in DOMAIN t,
           Sector(Absolute(t, first, m \div S), m) = Sector(Absolute(t, first, n \div S), n)
    PROVE  m = n
<1> DEFINE c == Absolute(t, first, m \div S)
           d == Absolute(t, first, n \div S)
<1>1. m \div S \in Nat /\ n \div S \in Nat
  BY ClusterOf
<1>2. c \in DOMAIN t \cup {END, Bad} /\ d \in DOMAIN t \cup {END, Bad}
  BY <1>1, AbsoluteTyped DEF Starts
<1>3. DOMAIN t \cup {END, Bad} \subseteq Int
  BY FatAssumption DEF Table, END, Bad
<1> HIDE DEF c, d
<1>4. c = d /\ m % S = n % S
  BY <1>2, <1>3, SectorsApart DEF c, d
<1>5. m \div S = n \div S
  BY <1>1, <1>4, ChainOnce DEF c, d
<1>6. m = S * (m \div S) + (m % S) /\ n = S * (n \div S) + (n % S)
  BY InCluster
<1> QED
  BY <1>4, <1>5, <1>6

\* What a block put in a chain changes.
LEMMA PutBytes ==
    ASSUME NEW t \in Table, Linear(t), NEW first, Starts(t, first), NEW d \in Data, NEW n \in Nat,
           Absolute(t, first, n \div S) \in DOMAIN t,
           Sector(Absolute(t, first, n \div S), n) \in DOMAIN d, NEW block, NEW e,
           e = [d EXCEPT ![Sector(Absolute(t, first, n \div S), n)] = block],
           NEW p \in Nat, p > 0
    PROVE  ByteAt(t, e, first, p)
             = IF (p - 1) \div B = n THEN block[(p - 1) % B] ELSE ByteAt(t, d, first, p)
<1> DEFINE m == (p - 1) \div B
           place == Sector(Absolute(t, first, n \div S), n)
           sector == Sector(Absolute(t, first, m \div S), m)
<1>1. m \in Nat
  BY PlaceOfByte
<1>2. ByteAt(t, e, first, p) = Contents(e, sector)[(p - 1) % B]
      /\ ByteAt(t, d, first, p) = Contents(d, sector)[(p - 1) % B]
  BY DEF ByteAt
<1>3. m = n => sector = place
  OBVIOUS
<1>4. m # n => sector # place
  <2> HIDE DEF m
  <2> QED
    BY <1>1, BlocksApart
<1>5. place \in DOMAIN d /\ e = [d EXCEPT ![place] = block]
  OBVIOUS
<1> HIDE DEF sector, place
<1>6. Contents(e, sector) = IF m = n THEN block ELSE Contents(d, sector)
  BY <1>3, <1>4, <1>5 DEF Contents
<1> QED
  BY <1>2, <1>6 DEF m

\* A block written that does not go astray.
LEMMA WriteBlockBytes ==
    ASSUME data \in Data, NEW t \in Table, Linear(t), NEW first, Starts(t, first), NEW n \in Nat,
           Absolute(t, first, n \div S) \in DOMAIN t, NEW s, NEW block, NEW card,
           NEW r, r = WriteBlock(t, s, first, n, block, card), r.strayed = {}, NEW p \in Nat, p > 0
    PROVE  ByteAt(r.table, r.data, first, p)
             = IF r.ok /\ (p - 1) \div B = n THEN block[(p - 1) % B] ELSE ByteAt(t, data, first, p)
<1> DEFINE cluster == Absolute(t, first, n \div S)
           sector == Sector(cluster, n)
           e == [data EXCEPT ![sector] = block]
<1>1. cluster # Bad
  BY TableNumbers
<1>2. r = IF ~ card THEN State(t, data, s, FALSE)
          ELSE IF sector \in DOMAIN data THEN State(t, e, s, TRUE)
          ELSE State(t, data, s \cup {cluster}, TRUE)
  BY <1>1 DEF WriteBlock
<1>3. sector \in DOMAIN data =>
        ByteAt(t, e, first, p)
          = IF (p - 1) \div B = n THEN block[(p - 1) % B] ELSE ByteAt(t, data, first, p)
  BY PutBytes
<1> HIDE DEF e, sector, cluster
<1>4. CASE card
  <2>1. sector \in DOMAIN data
    <3> SUFFICES ASSUME sector \notin DOMAIN data PROVE FALSE
      OBVIOUS
    <3>1. r.strayed = s \cup {cluster}
      BY <1>2, <1>4 DEF State
    <3> QED
      BY <3>1
  <2>2. r.table = t /\ r.data = e /\ r.ok
    BY <1>2, <1>4, <2>1 DEF State
  <2> QED
    BY <1>3, <2>1, <2>2
<1>5. CASE ~ card
  <2>1. r.table = t /\ r.data = data /\ ~ r.ok
    BY <1>2, <1>5 DEF State
  <2> QED
    BY <2>1
<1> QED
  BY <1>4, <1>5

\* A block written over another of an open file, in place.
LEMMA OverBytes ==
    ASSUME StrayInv, NEW fd \in Fd, IsOpen(fd), NEW n \in Nat,
           Absolute(table, inode[fd].entry.first, n \div S) \in DOMAIN table,
           NEW block, NEW card, NEW r, r = Over(fd, n, block, card), r.strayed = {},
           NEW p \in Nat, p > 0
    PROVE  LET first == inode[fd].entry.first
           IN ByteAt(r.table, r.data, first, p)
                = IF r.ok /\ (p - 1) \div B = n THEN block[(p - 1) % B]
                  ELSE ByteAt(table, data, first, p)
<1> DEFINE f == inode[fd].entry
<1>1. /\ LinkInv /\ table \in Table /\ Linear(table) /\ f \in Files
      /\ Starts(table, f.first)
  BY OpenFile DEF StrayInv
<1>2. data \in Data
  BY <1>1 DEF LinkInv, Types, TypeOK, Data
<1>3. r = WriteBlock(table, strayed, f.first, n, block, card)
  BY DEF Over
<1> QED
  BY <1>1, <1>2, <1>3, WriteBlockBytes

\* A place in the blocks before the n-th is in a cluster before its end.
LEMMA PlaceBefore ==
    ASSUME NEW n \in Nat, n > 0, NEW p \in Nat, p > 0, p <= n * B
    PROVE  /\ (p - 1) \div B \in Nat /\ (p - 1) \div B < n
           /\ ((p - 1) \div B) \div S \in 0 .. (n - 1) \div S
<1> DEFINE m == (p - 1) \div B
           x == n * B
<1>1. p - 1 \in Nat /\ m \in Nat /\ B \in Nat \ {0}
  BY PlaceOfByte, Sizes
<1>2. x \in Int /\ (x <= p - 1 <=> n <= m)
  BY <1>1, QuotientBound
<1> HIDE DEF m, x
<1>3. ~ x <= p - 1
  BY <1>2 DEF x
<1>4. m < n /\ m <= n - 1 /\ n - 1 \in Nat
  BY <1>1, <1>2, <1>3
<1>5. m \div S \in Nat /\ (n - 1) \div S \in Nat /\ m \div S <= (n - 1) \div S
  BY <1>1, <1>4, ClusterGrows
<1> QED
  BY <1>1, <1>4, <1>5 DEF m

\* A block appended to an open file of whole blocks.
LEMMA BehindBytes ==
    ASSUME StrayInv, NEW fd \in Fd, IsOpen(fd), NEW n \in Nat, n > 0,
           inode[fd].entry.size = n * B,
           NEW block, NEW card, NEW c \in FreeCluster, NEW r, r = Behind(fd, block, card, c),
           r.strayed = {},
           NEW p \in Nat, p > 0, p <= n * B \/ (r.ok /\ (p - 1) \div B = n)
    PROVE  LET first == inode[fd].entry.first
           IN ByteAt(r.table, r.data, first, p)
                = IF r.ok /\ (p - 1) \div B = n THEN block[(p - 1) % B]
                  ELSE ByteAt(table, data, first, p)
<1> DEFINE f == inode[fd].entry
           first == f.first
           size == n * B
           l == Linked(table, strayed, first, size, c)
<1>1. /\ LinkInv /\ table \in Table /\ Linear(table) /\ f \in Files
      /\ Starts(table, first)
  BY OpenFile DEF StrayInv
<1>2. data \in Data
  BY <1>1 DEF LinkInv, Types, TypeOK, Data
<1>3. Backed(table, first, n * B)
  BY OpenFile DEF StrayInv
<1>4. BlocksOf(size) = n /\ n \div S \in Nat
  BY WholeBlocks, ClusterOf
<1>5. p <= n * B => (p - 1) \div B # n /\ ((p - 1) \div B) \div S \in 0 .. (n - 1) \div S
  BY PlaceBefore
<1>6. r = AppendBlock(first, size, block, card, c)
  BY DEF Behind
<1>7. \/ n % S # 0 /\ r = WriteBlock(table, strayed, first, n, block, card)
      \/ n % S = 0 /\ l.ok /\ r = WriteBlock(l.table, l.strayed, first, n, block, card)
      \/ n % S = 0 /\ ~ l.ok /\ r = l
  <2> HIDE DEF size
  <2> QED
    BY <1>4, <1>6, AppendCases
<1>8. n % S = 0 => /\ l.table \in Table /\ Linear(l.table) /\ Starts(l.table, first) /\ l.data = data
                   /\ \A j \in 0 .. (n - 1) \div S : Absolute(l.table, first, j) = Absolute(table, first, j)
                   /\ l.ok => /\ c \in DOMAIN table /\ table[c] = 0
                              /\ Absolute(l.table, first, n \div S) = c
  BY <1>1, <1>3, LinkedBehind
<1> HIDE DEF size, l
<1>9. n % S = 0 /\ p <= n * B => ByteAt(l.table, data, first, p) = ByteAt(table, data, first, p)
  BY <1>5, <1>8, SameByte
<1>10. CASE n % S # 0 /\ r = WriteBlock(table, strayed, first, n, block, card)
  <2>1. Absolute(table, first, n \div S) \in DOMAIN table
    <3>1. (n - 1) \div S = n \div S
      BY <1>10, ClusterBefore
    <3> QED
      BY <1>1, <1>3, <3>1, LastBacked
  <2>2. r = Over(fd, n, block, card)
    BY <1>10 DEF Over
  <2> QED
    BY <2>1, <2>2, OverBytes
<1>11. CASE n % S = 0 /\ l.ok /\ r = WriteBlock(l.table, l.strayed, first, n, block, card)
  <2>1. c \in DOMAIN l.table /\ Absolute(l.table, first, n \div S) = c
    BY <1>1, <1>8, <1>11, TableNumbers
  <2>2. ByteAt(r.table, r.data, first, p)
          = IF r.ok /\ (p - 1) \div B = n THEN block[(p - 1) % B]
            ELSE ByteAt(l.table, data, first, p)
    BY <1>2, <1>8, <1>11, <2>1, WriteBlockBytes
  <2> QED
    BY <1>9, <1>11, <2>2
<1>12. CASE n % S = 0 /\ ~ l.ok /\ r = l
  BY <1>8, <1>9, <1>12
<1> QED
  BY <1>7, <1>10, <1>11, <1>12

----------------------------------------------------------------------------
(* The bytes a call writes. *)

\* The bytes of block n.
LEMMA InBlockOf ==
    ASSUME NEW p \in Nat, p > 0, NEW n \in Nat
    PROVE  /\ n * B \in Nat /\ (n + 1) * B \in Nat
           /\ (p - 1) \div B = n <=> n * B <= p - 1 /\ p - 1 < (n + 1) * B
           /\ (p - 1) \div B = n => n * B + ((p - 1) % B) = p - 1
<1> DEFINE x == n * B
           y == (n + 1) * B
           q == (p - 1) \div B
<1>1. p - 1 \in Nat /\ q \in Nat /\ B \in Nat \ {0} /\ (p - 1) % B \in Nat
      /\ p - 1 = B * q + ((p - 1) % B)
  BY PlaceOfByte, Sizes
<1>2. x \in Nat /\ y \in Int /\ y = x + B
  BY OneMore, WholeBlocks
<1>3. (x <= p - 1 <=> n <= q) /\ (y <= p - 1 <=> n + 1 <= q)
  BY <1>1, QuotientBound
<1>4. q = n => B * q = x
  <2>1. B * n = n * B
    BY <1>1
  <2> HIDE DEF q
  <2> QED
    BY <2>1
<1> HIDE DEF x, y, q
<1>5. q = n <=> x <= p - 1 /\ p - 1 < y
  BY <1>1, <1>2, <1>3
<1> QED
  BY <1>1, <1>2, <1>4, <1>5 DEF x, y, q

\* A careful call's first block holds its bytes, and what was there before.
LEMMA FileBlock ==
    ASSUME TypeOK, NEW fd \in Fd, NEW len \in Nat, CarefulWrite(fd, len),
           NEW p \in Nat, p > 0, (p - 1) \div B = PlaceOf(fd),
           p <= SizeOf(fd, len)
    PROVE  BlockFor(fd, len)[(p - 1) % B]
             = IF inode[fd].offset < p /\ p <= EndOf(fd, len) THEN written + p - inode[fd].offset
               ELSE ByteAt(table, data, inode[fd].entry.first, p)
<1> DEFINE n == PlaceOf(fd)
           offset == inode[fd].offset
           end == EndOf(fd, len)
           old == Contents(data, Sector(Absolute(table, inode[fd].entry.first, n \div S), n))
           k == (p - 1) % B
<1>1. offset \in Nat /\ written \in Nat
  BY DEF TypeOK, Inode
<1>2. end \in Nat
  BY <1>1, FirstBlock DEF EndOf
<1>3. k \in 0 .. B - 1
  BY PlaceOfByte
<1>4. BlockFor(fd, len) = [j \in 0 .. B - 1 |-> IF offset <= n * B + j /\ n * B + j < end
                                                THEN written + (n * B + j) - offset + 1 ELSE old[j]]
  BY DEF BlockFor
<1>5. n * B + k = p - 1
  <2>1. n \in Nat
    BY <1>1, InBlock DEF PlaceOf
  <2> QED
    BY <2>1, InBlockOf
<1>6. old[k] = ByteAt(table, data, inode[fd].entry.first, p)
  BY DEF ByteAt
<1> HIDE DEF n, k, old, end, offset
<1>7. BlockFor(fd, len)[k] = IF offset <= p - 1 /\ p - 1 < end
                             THEN written + (p - 1) - offset + 1 ELSE old[k]
  BY <1>3, <1>4, <1>5
<1>8. BlockFor(fd, len)[k] = IF offset < p /\ p <= end THEN written + p - offset ELSE old[k]
  BY <1>1, <1>2, <1>7
<1> QED
  BY <1>6, <1>8 DEF offset, end, k

\* What the first block of a call makes of the bytes of its file.
Bytes(fd, r, size, from, to, base) ==
    LET first == inode[fd].entry.first
    IN \A p \in 1 .. (IF r.ok THEN size ELSE inode[fd].entry.size) :
          ByteAt(r.table, r.data, first, p) = IF r.ok /\ from < p /\ p <= to THEN base + p - from
                                              ELSE ByteAt(table, data, first, p)

\* What the first block of a call makes of its file ...
LEMMA FileWritten ==
    ASSUME StrayInv, strayed' = {}, NEW fd \in Fd, NEW len \in Nat,
           CarefulWrite(fd, len), WriteFile(fd, len)
    PROVE  \E r : /\ Outcome(fd, PlaceOf(fd), r)
                  /\ Bytes(fd, r, SizeOf(fd, len), inode[fd].offset, EndOf(fd, len), written)
                  /\ Wrote(fd, r, EndOf(fd, len), SizeOf(fd, len))
                  /\ Continue(CallFor(fd, len), r, More(inode[fd].offset, len) = 0)
<1> DEFINE n == PlaceOf(fd)
           first == inode[fd].entry.first
           size == inode[fd].entry.size
           offset == inode[fd].offset
           end == EndOf(fd, len)
           grown == SizeOf(fd, len)
           block == BlockFor(fd, len)
           result(card, c) == IF Overwrites(fd, len) THEN Over(fd, n, block, card)
                              ELSE Behind(fd, block, card, c)
<1>0. PICK card \in CardOutcome, c \in FreeCluster :
        /\ Wrote(fd, result(card, c), end, grown)
        /\ Continue(CallFor(fd, len), result(card, c), More(offset, len) = 0)
  BY WriteFileSteps
<1> DEFINE r == result(card, c)
<1>1. IsOpen(fd) /\ SizeInv
  BY WriteFileSteps DEF StrayInv
<1>2. TypeOK /\ first \in DOMAIN table /\ Backed(table, first, size) /\ size \in Nat /\ offset \in Nat
  BY <1>1, OpenFile DEF TypeOK, Inode
<1>3. /\ grown \in Nat /\ size <= grown
      /\ ~ Overwrites(fd, len) => grown <= (n + 1) * B
  BY <1>2, CarefulSize
<1>4. /\ n \in Nat /\ n * B \in Nat /\ (n + 1) * B \in Nat /\ n * B <= offset /\ offset < (n + 1) * B
      /\ end \in Nat /\ end <= (n + 1) * B
  BY <1>2, FirstBlock DEF PlaceOf, EndOf
<1>5. Outcome(fd, n, r) /\ r.strayed = {}
  BY <1>0 DEF Outcome, Wrote
<1>6. ASSUME NEW p \in 1 .. (IF r.ok THEN grown ELSE size)
      PROVE  ByteAt(r.table, r.data, first, p) = IF r.ok /\ offset < p /\ p <= end
                                                 THEN written + p - offset
                                                 ELSE ByteAt(table, data, first, p)
  <2>1. p \in Nat /\ p > 0 /\ p <= grown
    BY <1>2, <1>3
  <2>2. p - 1 \in Nat /\ ((p - 1) \div B = n <=> n * B <= p - 1 /\ p - 1 < (n + 1) * B)
    BY <1>4, <2>1, InBlockOf
  <2>3. offset < p /\ p <= end => (p - 1) \div B = n
    <3> DEFINE x == n * B
               y == (n + 1) * B
    <3> HIDE DEF x, y, n, offset, end
    <3>1. x \in Nat /\ y \in Nat /\ x <= offset /\ end <= y /\ offset \in Nat /\ end \in Nat
      BY <1>2, <1>4 DEF x, y
    <3>2. offset < p /\ p <= end => x <= p - 1 /\ p - 1 < y
      BY <2>1, <2>2, <3>1
    <3> QED
      BY <2>2, <3>2 DEF x, y
  <2>4. (p - 1) \div B = n => block[(p - 1) % B]
                                = IF offset < p /\ p <= end THEN written + p - offset
                                  ELSE ByteAt(table, data, first, p)
    BY <1>2, <2>1, FileBlock
  <2>5. ByteAt(r.table, r.data, first, p) = IF r.ok /\ (p - 1) \div B = n THEN block[(p - 1) % B]
                                            ELSE ByteAt(table, data, first, p)
    <3>1. CASE Overwrites(fd, len)
      <4>1. Absolute(table, first, n \div S) \in DOMAIN table
        BY <1>2, <3>1, CarefulOver
      <4>2. r = Over(fd, n, block, card)
        BY <3>1
      <4> HIDE DEF r, block, n
      <4> QED
        BY <1>1, <1>4, <1>5, <2>1, <4>1, <4>2, OverBytes
    <3>2. CASE ~ Overwrites(fd, len)
      <4>1. n > 0 /\ size = n * B
        BY <1>2, <3>2, CarefulBehind
      <4>2. r = Behind(fd, block, card, c)
        BY <3>2
      <4>3. p <= n * B \/ (r.ok /\ (p - 1) \div B = n)
        <5> DEFINE x == n * B
                   y == (n + 1) * B
        <5>1. x \in Nat /\ y \in Nat /\ size = x /\ grown <= y
          BY <1>3, <1>4, <3>2, <4>1
        <5>2. (p - 1) \div B = n <=> x <= p - 1 /\ p - 1 < y
          BY <2>2
        <5>3. r.ok \/ p <= size
          OBVIOUS
        <5> HIDE DEF x, y, r, size, grown
        <5>4. p <= x \/ (r.ok /\ x <= p - 1 /\ p - 1 < y)
          BY <2>1, <5>1, <5>3, <1>3
        <5> QED
          BY <5>2, <5>4 DEF x
      <4> HIDE DEF r, block, n
      <4> QED
        BY <1>1, <1>4, <1>5, <2>1, <4>1, <4>2, <4>3, BehindBytes
    <3> QED
      BY <3>1, <3>2
  <2> HIDE DEF r, block, n
  <2> QED
    BY <2>3, <2>4, <2>5
<1> HIDE DEF r
<1>7. Bytes(fd, r, grown, offset, end, written)
  BY <1>6 DEF Bytes
<1>8. Wrote(fd, r, end, grown) /\ Continue(CallFor(fd, len), r, More(offset, len) = 0)
  BY <1>0 DEF r
<1> QED
  BY <1>5, <1>7, <1>8

\* The later blocks of a call hold nothing but its bytes.
LEMMA OnWritten ==
    ASSUME StrayInv, strayed' = {}, WriteOn, call.base \in Nat,
           call.from <= inode[call.fd].entry.size
    PROVE  /\ call # Idle /\ call \in Call /\ call.fd \in Fd /\ IsOpen(call.fd) /\ OnPlace \in Nat
           /\ OnEnd \in Nat /\ inode[call.fd].entry.size <= OnEnd
           /\ OnEnd <= call.from + call.len /\ (OnLast => OnEnd = call.from + call.len)
           /\ \E r : /\ Outcome(call.fd, OnPlace, r)
                     /\ Bytes(call.fd, r, OnEnd, inode[call.fd].entry.size, OnEnd,
                              call.base + inode[call.fd].entry.size - call.from)
                     /\ Wrote(call.fd, r, OnEnd, OnEnd)
                     /\ Continue([call EXCEPT !.i = @ + 1], r, OnLast)
<1> DEFINE fd == call.fd
           n == OnPlace
           first == inode[fd].entry.first
           size == inode[fd].entry.size
           result(card, c) == IF OnOver THEN Over(fd, n, OnBlock, card)
                              ELSE Behind(fd, OnBlock, card, c)
<1>0. PICK card \in CardOutcome, c \in FreeCluster :
        /\ Wrote(fd, result(card, c), OnEnd, OnSize)
        /\ Continue([call EXCEPT !.i = @ + 1], result(card, c), OnLast)
  BY WriteOnSteps
<1> DEFINE r == result(card, c)
<1>1. /\ SizeInv /\ call # Idle /\ call \in Call /\ fd \in Fd /\ IsOpen(fd)
      /\ n \in Nat /\ OnEnd \in Nat /\ call.i <= More(call.from, call.len) /\ size <= OnEnd
  BY CarefulOn DEF StrayInv
<1>2. /\ call.from \in Nat /\ call.len \in Nat /\ call.i \in Nat /\ call.i > 0
      /\ More(call.from, call.len) \in Nat
  BY <1>1, MoreCounts DEF Call, SizeInv, ApartInv, LinkInv, Types, CallBegun
<1>3. size = n * B /\ n > 0
  <2>1. size = n * B
    BY <1>1 DEF SizeInv, CallPlace
  <2>2. call.from \div B \in Nat
    BY <1>2, InBlock
  <2>3. n > 0
    BY <1>2, <2>2 DEF OnPlace
  <2> QED
    BY <2>1, <2>3
<1>4. n * B \in Nat /\ (n + 1) * B \in Nat
  BY <1>1, <1>3, WholeBlocks
<1>5. /\ OnEnd <= call.from + call.len /\ (OnLast => OnEnd = call.from + call.len)
      /\ OnEnd <= (n + 1) * B
  <2>1. CASE OnLast
    <3>1. n = call.from \div B + More(call.from, call.len)
      BY <2>1 DEF OnPlace, OnLast
    <3>2. call.from + call.len <= (n + 1) * B
      BY <1>2, <3>1, LastBlock
    <3>3. OnEnd = call.from + call.len
      BY <2>1 DEF OnEnd
    <3> QED
      BY <1>1, <3>2, <3>3
  <2>2. CASE ~ OnLast
    <3> DEFINE m == call.from \div B + More(call.from, call.len)
    <3>1. OnEnd = (n + 1) * B
      BY <2>2 DEF OnEnd
    <3>2. m * B <= call.from + call.len
      BY <1>2, LastBlock
    <3>3. call.from \div B \in Nat
      BY <1>2, InBlock
    <3>4. m \in Nat /\ n + 1 <= m
      BY <1>1, <1>2, <2>2, <3>3 DEF OnLast, OnPlace
    <3>5. m * B \in Int /\ (n + 1) * B <= m * B
      <4>1. CASE n + 1 = m
        BY <1>4, <3>4, <4>1
      <4>2. CASE n + 1 < m
        <5>1. n + 1 \in Int /\ m \in Int /\ B \in Nat \ {0}
          BY <1>1, <3>4, Sizes
        <5> HIDE DEF m
        <5>2. m * B \in Int /\ (n + 1) * B \in Int /\ m * B >= (n + 1) * B + B
          BY <4>2, <5>1, Multiple
        <5> DEFINE x == (n + 1) * B
                   y == m * B
        <5> HIDE DEF x, y
        <5>3. y \in Int /\ x \in Int /\ y >= x + B
          BY <5>2 DEF x, y
        <5>4. x <= y
          BY <5>1, <5>3
        <5> QED
          BY <5>3, <5>4 DEF x, y
      <4> QED
        BY <1>1, <3>4, <4>1, <4>2
    <3> DEFINE x == (n + 1) * B
               y == m * B
    <3>6. OnEnd = x /\ x \in Nat /\ y \in Int /\ x <= y /\ y <= call.from + call.len
      BY <1>4, <3>1, <3>2, <3>5
    <3> HIDE DEF x, y
    <3>7. OnEnd <= call.from + call.len
      BY <1>2, <3>6
    <3>8. OnEnd <= (n + 1) * B
      BY <3>6 DEF x
    <3> QED
      BY <2>2, <3>7, <3>8
  <2> QED
    BY <2>1, <2>2
<1>6. ~ OnOver /\ OnSize = OnEnd /\ size \in Nat
  BY <1>1, <1>3, <1>4 DEF OnOver, OnSize
<1>7. r = Behind(fd, OnBlock, card, c) /\ Outcome(fd, n, r) /\ r.strayed = {}
  BY <1>0, <1>6 DEF Outcome, Wrote
<1>8. /\ Wrote(fd, r, OnEnd, OnEnd)
      /\ Continue([call EXCEPT !.i = @ + 1], r, OnLast)
  BY <1>0, <1>6
<1> HIDE DEF r, n, result
<1>9. ASSUME NEW p \in 1 .. (IF r.ok THEN OnEnd ELSE size)
      PROVE  ByteAt(r.table, r.data, first, p) = IF r.ok /\ size < p /\ p <= OnEnd
                                                 THEN (call.base + size - call.from) + p - size
                                                 ELSE ByteAt(table, data, first, p)
  <2> DEFINE x == n * B
             y == (n + 1) * B
             k == (p - 1) % B
  <2>1. p \in Nat /\ p > 0 /\ p <= OnEnd /\ p - 1 \in Nat
    BY <1>1, <1>6
  <2>2. /\ (p - 1) \div B = n <=> x <= p - 1 /\ p - 1 < y
        /\ (p - 1) \div B = n => x + k = p - 1
    BY <1>1, <2>1, InBlockOf
  <2>3. x \in Nat /\ y \in Nat /\ size = x /\ OnEnd <= y
    BY <1>3, <1>4, <1>5
  <2>4. k \in 0 .. B - 1
    BY <2>1, PlaceOfByte
  <2>5. OnBlock = [j \in 0 .. B - 1 |-> IF x + j < OnEnd THEN call.base + x + j - call.from + 1
                                        ELSE 0]
    BY DEF OnBlock, n
  <2>6. r.ok \/ p <= size
    OBVIOUS
  <2> HIDE DEF x, y, k, fd, size
  <2>7. p <= x \/ (r.ok /\ (p - 1) \div B = n)
    BY <1>1, <2>1, <2>2, <2>3, <2>6
  <2>8. (p - 1) \div B = n <=> size < p
    BY <1>1, <2>1, <2>2, <2>3
  <2>9. (p - 1) \div B = n => OnBlock[k] = (call.base + size - call.from) + p - size
    <3> SUFFICES ASSUME (p - 1) \div B = n
                 PROVE  OnBlock[k] = (call.base + size - call.from) + p - size
      OBVIOUS
    <3>1. x + k = p - 1 /\ k \in Int
      BY <2>2, <2>4
    <3>2. OnBlock[k] = IF x + k < OnEnd THEN call.base + x + k - call.from + 1 ELSE 0
      BY <2>4, <2>5
    <3> QED
      BY <1>1, <1>2, <2>1, <2>3, <3>1, <3>2
  <2>10. ByteAt(r.table, r.data, first, p) = IF r.ok /\ (p - 1) \div B = n THEN OnBlock[k]
                                             ELSE ByteAt(table, data, first, p)
    <3>1. p <= n * B \/ (r.ok /\ (p - 1) \div B = n)
      BY <2>7 DEF x
    <3> QED
      BY <1>1, <1>3, <1>7, <2>1, <3>1, BehindBytes DEF k, fd, size
  <2> QED
    BY <2>1, <2>8, <2>9, <2>10
<1>10. Bytes(fd, r, OnEnd, size, OnEnd, call.base + size - call.from)
  BY <1>9 DEF Bytes
<1> QED
  BY <1>1, <1>5, <1>7, <1>8, <1>10 DEF n

----------------------------------------------------------------------------
(* The blocks that are read, when their clusters follow one another. *)

\* A transfer of one block reads it from its cluster.
LEMMA OneTransferred ==
    ASSUME table \in Table, NEW first \in DOMAIN table, NEW b \in Nat
    PROVE  LET run == Transfer(first, b, 1)
           IN Len(run) = 1 /\ run[1] = Sector(Absolute(table, first, b \div S), b)
<1> DEFINE c == Absolute(table, first, b \div S)
           begin == Sector(c, b)
<1>1. b % S \in Nat /\ b % S < S /\ S \in Nat /\ b \div S \in Nat
  BY InCluster
<1>2. 1 + (b % S) <= S
  BY <1>1
<1>3. Transfer(first, b, 1) = [k \in 1 .. 1 |-> begin + k - 1]
  BY <1>2, Zenon DEF Transfer
<1>4. c \in DOMAIN table \cup {END, Bad}
  BY <1>1, AbsoluteTyped
<1>5. c \in Int
  BY <1>4, FatAssumption DEF Table, END, Bad
<1> HIDE DEF c
<1>6. begin \in Int
  <2>1. c - 2 \in Int /\ (c - 2) * S \in Int
    BY <1>1, <1>5
  <2> QED
    BY <1>1, <2>1 DEF Sector
<1> HIDE DEF begin
<1>7. begin + 1 - 1 = begin
  BY <1>6
<1> QED
  BY <1>3, <1>7 DEF begin, c

\* Quotient and remainder of a place in a block, or of a block in a cluster.
LEMMA DivMod ==
    ASSUME NEW m \in Nat \ {0}, NEW q \in Nat, NEW j \in Nat, j < m
    PROVE  q * m + j \in Nat /\ (q * m + j) \div m = q /\ (q * m + j) % m = j
<1> DEFINE x == q * m
           a == x + j
<1>1. x \in Nat /\ m * q = x
  OBVIOUS
<1>2. a \in Nat /\ x <= a /\ a < x + m
  <2> HIDE DEF x
  <2> QED
    BY <1>1
<1>3. a \div m = q
  <2> HIDE DEF a
  <2> QED
    BY <1>1, <1>2, Quotient
<1>4. a = m * (a \div m) + (a % m) /\ a % m \in Nat
  <2> HIDE DEF a
  <2> QED
    BY <1>2
<1>5. a % m = j
  <2>1. a = x + (a % m)
    BY <1>1, <1>3, <1>4
  <2> HIDE DEF x
  <2> QED
    BY <1>1, <1>4, <2>1
<1> QED
  BY <1>2, <1>3, <1>5

\* Multiples of a sum.
LEMMA Spread ==
    ASSUME NEW m \in Nat, NEW q \in Int, NEW i \in Int
    PROVE  q * m \in Int /\ i * m \in Int /\ (q + i) * m = q * m + i * m
  BY SMTT(30)

\* The cluster of a block some blocks after another.
LEMMA BlockInRun ==
    ASSUME NEW start \in Nat, NEW j \in Nat
    PROVE  LET i == ((start % S) + j) \div S
           IN /\ i \in Nat /\ (start + j) \div S = (start \div S) + i
              /\ i * S \in Int /\ (start + j) % S = (start % S) + j - i * S
<1> DEFINE q == start \div S
           o == start % S
           i == (o + j) \div S
           r == (o + j) % S
<1>1. S \in Nat \ {0} /\ q \in Nat /\ o \in Nat /\ start = S * q + o
  BY Sizes, InCluster
<1>2. i \in Nat /\ r \in Nat /\ r < S /\ o + j = S * i + r
  <2> HIDE DEF o
  <2>1. o + j \in Nat
    BY <1>1
  <2> QED
    BY <2>1, InCluster
<1> HIDE DEF q, o, i, r
<1>3. S * q = q * S /\ S * i = i * S /\ i * S \in Int /\ q * S \in Int /\ (q + i) * S = q * S + i * S
  BY <1>1, <1>2, Spread
<1> DEFINE x == q * S
           y == i * S
           z == (q + i) * S
<1>4. x \in Int /\ y \in Int /\ z = x + y /\ start = x + o /\ o + j = y + r
  BY <1>1, <1>2, <1>3
<1>5. (z + r) \div S = q + i /\ (z + r) % S = r
  BY <1>1, <1>2, DivMod
<1> HIDE DEF x, y, z
<1>6. start + j = z + r /\ r = o + j - y
  BY <1>1, <1>2, <1>4
<1> QED
  BY <1>2, <1>3, <1>5, <1>6 DEF q, o, i, y

\* The scan for runs, one cluster on ...
Onward(start, n, prev) ==
    LET next == IF prev.cluster \in DOMAIN table THEN table[prev.cluster] ELSE END
    IN IF prev.cluster + 1 = next
       THEN [prev EXCEPT !.cluster = next, !.clusters = @ + 1]
       ELSE [prev EXCEPT !.cluster = next, !.from = Sector(next, 0),
                         !.out = @ \o [k \in 1 .. RunLength(prev.clusters, start % S, n, prev.from)
                                          |-> prev.from + k - 1]]

Scanned(first, start) ==
    [cluster |-> Absolute(table, first, start \div S),
     from |-> Sector(Absolute(table, first, start \div S), start), clusters |-> 1, out |-> <<>>]

IsScan(first, start, n, w) ==
    w = [i \in 0 .. (n + (start % S) - 1) \div S |->
            IF i = 0 THEN Scanned(first, start) ELSE Onward(start, n, w[i - 1])]

Scan(first, start, n) == CHOOSE w : IsScan(first, start, n, w)

\* ... is what a transfer of more than a cluster makes.
LEMMA TransferScans ==
    ASSUME NEW first, NEW start, NEW n, ~ n + (start % S) <= S
    PROVE  LET end == Scan(first, start, n)[(n + (start % S) - 1) \div S]
           IN Transfer(first, start, n)
                = end.out \o [k \in 1 .. RunLength(end.clusters, start % S, n, end.from)
                                 |-> end.from + k - 1]
  BY Zenon DEF Transfer, Scan, IsScan, Scanned, Onward

\* The clusters that follow one another are one run, and more of the last one
\* is read than is asked for.
LEMMA RunTransferred ==
    ASSUME table \in Table, NEW first \in DOMAIN table, NEW start \in Nat, NEW n \in Nat, n > 0,
           \A k \in start \div S .. ((start + n - 1) \div S) - 1 :
              Absolute(table, first, k + 1) = Absolute(table, first, k) + 1
    PROVE  LET run == Transfer(first, start, n)
           IN /\ Len(run) \in Nat /\ n <= Len(run)
              /\ \A j \in 0 .. n - 1 :
                    run[j + 1] = Sector(Absolute(table, first, (start + j) \div S), start + j)
<1> DEFINE q == start \div S
           o == start % S
           c == Absolute(table, first, q)
           begin == Sector(c, start)
           m == (o + (n - 1)) \div S
<1>1. S \in Nat \ {0} /\ q \in Nat /\ o \in Nat /\ o < S /\ start = S * q + o
  BY Sizes, InCluster
<1>2. m \in Nat /\ (start + (n - 1)) \div S = q + m
  BY BlockInRun
<1>3. start + n - 1 = start + (n - 1) /\ n + o - 1 = o + (n - 1) /\ n - 1 \in Nat
  <2> HIDE DEF o
  <2> QED
    BY <1>1
<1>4. \A i \in Nat : Absolute(table, first, q + i) \in DOMAIN table \cup {END, Bad}
  BY <1>1, AbsoluteTyped
<1>5. DOMAIN table = 0 .. ENTRIES - 1 /\ ENTRIES \in Nat /\ ENTRIES < 65535 /\ END = 65535 /\ Bad = -1
  BY FatAssumption DEF Table, END, Bad
<1> HIDE DEF q, o, m, c
<1>6. \A k \in q .. (q + m) - 1 : Absolute(table, first, k + 1) = Absolute(table, first, k) + 1
  BY <1>2, <1>3 DEF q
<1>7. c \in Int
  <2>1. q + 0 = q
    BY <1>1
  <2>2. c \in DOMAIN table \cup {END, Bad}
    BY <1>4, <2>1 DEF c
  <2> QED
    BY <1>5, <2>2
<1>8. \A i \in Nat : i <= m => Absolute(table, first, q + i) = c + i
  <2> DEFINE P == {i \in Nat : i <= m => Absolute(table, first, q + i) = c + i}
  <2>1. 0 \in P
    BY <1>1, <1>7 DEF c
  <2>2. ASSUME NEW i \in Nat, i \in P PROVE i + 1 \in P
    <3>1. SUFFICES ASSUME i + 1 <= m PROVE Absolute(table, first, q + (i + 1)) = c + (i + 1)
      OBVIOUS
    <3>2. q + i \in q .. (q + m) - 1 /\ (q + i) + 1 = q + (i + 1) /\ i <= m
      BY <1>1, <1>2, <3>1
    <3>3. Absolute(table, first, q + i) = c + i
      BY <2>2, <3>2
    <3>4. Absolute(table, first, q + (i + 1)) = Absolute(table, first, q + i) + 1
      BY <1>6, <3>2
    <3> QED
      BY <1>7, <3>3, <3>4
  <2> HIDE DEF P
  <2>3. Nat \subseteq P
    BY <2>1, <2>2, AllNumbers
  <2> QED
    BY <2>3 DEF P
<1>9. begin \in Int /\ begin = (c - 2) * S + o
  <2>1. c - 2 \in Int /\ (c - 2) * S \in Int
    BY <1>1, <1>7
  <2>2. begin = (c - 2) * S + o
    BY DEF Sector, o
  <2> DEFINE x == (c - 2) * S
  <2> HIDE DEF x, begin
  <2>3. begin = x + o /\ x \in Int
    BY <2>1, <2>2 DEF x
  <2> QED
    BY <1>1, <2>2, <2>3
<1> HIDE DEF begin
<1>10. ASSUME NEW j \in 0 .. n - 1
       PROVE  Sector(Absolute(table, first, (start + j) \div S), start + j) = begin + j
  <2> DEFINE i == (o + j) \div S
  <2>1. j \in Nat
    OBVIOUS
  <2>2. i \in Nat /\ (start + j) \div S = q + i /\ i * S \in Int /\ (start + j) % S = o + j - i * S
    BY <2>1, BlockInRun DEF q, o
  <2>3. i <= m
    <3>1. o + j \in Nat /\ o + (n - 1) \in Nat /\ o + j <= o + (n - 1)
      BY <1>1, <1>3
    <3> QED
      BY <3>1, ClusterGrows DEF m
  <2> HIDE DEF i
  <2>4. Absolute(table, first, (start + j) \div S) = c + i
    BY <1>8, <2>2, <2>3
  <2>5. (c + i) - 2 = (c - 2) + i /\ c - 2 \in Int
    BY <1>7, <2>2
  <2>6. ((c - 2) + i) * S = (c - 2) * S + i * S /\ (c - 2) * S \in Int
    BY <1>1, <2>2, <2>5, Spread
  <2>7. Sector(c + i, start + j) = (((c - 2) + i) * S) + (o + j - i * S)
    BY <2>2, <2>5 DEF Sector
  <2> DEFINE x == (c - 2) * S
             y == i * S
             z == ((c - 2) + i) * S
  <2>8. x \in Int /\ y \in Int /\ z = x + y /\ begin = x + o /\ Sector(c + i, start + j) = z + (o + j - y)
    BY <1>9, <2>2, <2>6, <2>7
  <2> HIDE DEF x, y, z
  <2>9. z + (o + j - y) = begin + j
    BY <1>1, <2>8
  <2> QED
    BY <2>4, <2>8, <2>9
<1> DEFINE run == Transfer(first, start, n)
           Read(l) == [k \in 1 .. l |-> begin + k - 1]
<1>11. \E l \in Nat : n <= l /\ run = Read(l)
  <2>1. CASE n + o <= S
    <3>1. run = Read(n)
      BY <2>1, Zenon DEF Transfer, begin, c, q, o
    <3> QED
      BY <3>1
  <2>2. CASE ~ n + o <= S
    <3> DEFINE R(i) == [cluster |-> Absolute(table, first, q + i), from |-> begin,
                        clusters |-> i + 1, out |-> <<>>]
               Choice == Scan(first, start, n)
    <3>1. Scanned(first, start) = R(0)
      <4>1. q + 0 = q /\ 0 + 1 = 1
        BY <1>1
      <4> QED
        BY <4>1 DEF Scanned, begin, c, q
    <3>2. ASSUME NEW i \in Nat, i < m PROVE Onward(start, n, R(i)) = R(i + 1)
      <4> DEFINE a == Absolute(table, first, q + i)
                 b == Absolute(table, first, q + (i + 1))
      <4>1. q + i \in Nat /\ (q + i) + 1 = q + (i + 1) /\ i + 1 <= m /\ i <= m
        BY <1>1, <1>2, <3>2
      <4>2. a = c + i /\ b = c + (i + 1)
        BY <1>8, <3>2, <4>1
      <4>3. b = Follow(table, a)
        BY <4>1, AbsoluteSteps
      <4>4. a \in DOMAIN table \cup {END, Bad}
        BY <1>4
      <4> HIDE DEF a, b
      <4>5. b = a + 1 /\ a \in Int
        BY <1>7, <4>2
      <4>6. a \in DOMAIN table /\ table[a] = b
        BY <1>5, <4>3, <4>4, <4>5 DEF Follow
      <4>7. R(i) = [cluster |-> a, from |-> begin, clusters |-> i + 1, out |-> <<>>]
        BY DEF a
      <4>8. R(i + 1) = [cluster |-> b, from |-> begin, clusters |-> (i + 1) + 1, out |-> <<>>]
        BY DEF b
      <4> HIDE DEF R
      <4>9. R(i).cluster = a
        BY <4>7
      <4>10. R(i).clusters = i + 1
        BY <4>7
      <4>11. Onward(start, n, R(i)) = [R(i) EXCEPT !.cluster = b, !.clusters = (i + 1) + 1]
        BY <4>5, <4>6, <4>9, <4>10, Zenon DEF Onward
      <4> DEFINE l == (i + 1) + 1
                 k == i + 1
                 last == R(i)
      <4>12. last = [cluster |-> a, from |-> begin, clusters |-> k, out |-> <<>>]
        BY <4>7
      <4> HIDE DEF l, k, last
      <4>13. [last EXCEPT !.cluster = b, !.clusters = l]
               = [cluster |-> b, from |-> begin, clusters |-> l, out |-> <<>>]
        <5>1. [last EXCEPT !.cluster = b] = [cluster |-> b, from |-> begin, clusters |-> k, out |-> <<>>]
          BY <4>12
        <5>2. [last EXCEPT !.cluster = b, !.clusters = l] = [[last EXCEPT !.cluster = b] EXCEPT !.clusters = l]
          BY <4>12
        <5>3. [[cluster |-> b, from |-> begin, clusters |-> k, out |-> <<>>] EXCEPT !.clusters = l]
                = [cluster |-> b, from |-> begin, clusters |-> l, out |-> <<>>]
          BY <4>12
        <5> QED
          BY <5>1, <5>2, <5>3
      <4> QED
        BY <4>8, <4>11, <4>13 DEF l, last
    <3> HIDE DEF R
    <3>3. IsScan(first, start, n, [i \in 0 .. m |-> R(i)])
      <4> DEFINE v == [i \in 0 .. m |-> R(i)]
      <4>1. \A i \in 0 .. m : v[i] = IF i = 0 THEN Scanned(first, start) ELSE Onward(start, n, v[i - 1])
        <5> SUFFICES ASSUME NEW i \in 0 .. m
                     PROVE  R(i) = IF i = 0 THEN Scanned(first, start) ELSE Onward(start, n, v[i - 1])
          OBVIOUS
        <5>1. CASE i = 0
          BY <3>1, <5>1
        <5>2. CASE i # 0
          <6>1. i - 1 \in Nat /\ i - 1 < m /\ i - 1 \in 0 .. m /\ (i - 1) + 1 = i
            BY <1>2, <5>2
          <6>2. v[i - 1] = R(i - 1)
            BY <6>1
          <6>3. Onward(start, n, R(i - 1)) = R(i)
            BY <3>2, <6>1
          <6> QED
            BY <5>2, <6>2, <6>3
        <5> QED
          BY <5>1, <5>2
      <4>2. v = [i \in 0 .. m |-> v[i]]
        OBVIOUS
      <4> HIDE DEF v
      <4>3. v = [i \in 0 .. m |-> IF i = 0 THEN Scanned(first, start) ELSE Onward(start, n, v[i - 1])]
        BY <4>1, <4>2
      <4>4. (n + (start % S) - 1) \div S = m
        BY <1>3 DEF m, o
      <4>5. IsScan(first, start, n, v)
        BY <4>3, <4>4, Zenon DEF IsScan
      <4> QED
        BY <4>5 DEF v
    <3>4. IsScan(first, start, n, Choice)
      BY <3>3 DEF Scan
    <3> HIDE DEF Choice
    <3>5. \A i \in Nat : i <= m => Choice[i] = R(i)
      <4> DEFINE P == {i \in Nat : i <= m => Choice[i] = R(i)}
      <4>1. (n + (start % S) - 1) \div S = m
        BY <1>3 DEF m, o
      <4>2. Choice = [i \in 0 .. m |-> IF i = 0 THEN Scanned(first, start) ELSE Onward(start, n, Choice[i - 1])]
        BY <3>4, <4>1, Zenon DEF IsScan
      <4>3. \A i \in 0 .. m : Choice[i] = IF i = 0 THEN Scanned(first, start) ELSE Onward(start, n, Choice[i - 1])
        BY <4>2
      <4>4. 0 \in P
        BY <1>2, <3>1, <4>3
      <4>5. ASSUME NEW i \in Nat, i \in P PROVE i + 1 \in P
        <5>1. SUFFICES ASSUME i + 1 <= m PROVE Choice[i + 1] = R(i + 1)
          OBVIOUS
        <5>2. i < m /\ i <= m /\ i + 1 \in 0 .. m /\ i + 1 # 0 /\ (i + 1) - 1 = i
          BY <1>2, <5>1
        <5>3. Choice[i] = R(i) /\ Onward(start, n, R(i)) = R(i + 1)
          BY <3>2, <4>5, <5>2
        <5> QED
          BY <4>3, <5>2, <5>3
      <4> HIDE DEF P
      <4>6. Nat \subseteq P
        BY <4>4, <4>5, AllNumbers
      <4> QED
        BY <4>6 DEF P
    <3> DEFINE l == RunLength(m + 1, o, n, begin)
    <3>6. run = <<>> \o Read(l)
      <4> DEFINE end == Choice[m]
      <4>1. (n + (start % S) - 1) \div S = m
        BY <1>3 DEF m, o
      <4>2. run = end.out \o [k \in 1 .. RunLength(end.clusters, start % S, n, end.from)
                                 |-> end.from + k - 1]
        <5>1. ~ n + (start % S) <= S
          BY <2>2 DEF o
        <5> QED
          BY <4>1, <5>1, TransferScans, Zenon DEF Choice
      <4>3. end = R(m)
        BY <1>2, <3>5
      <4> HIDE DEF end
      <4>4. end.out = <<>> /\ end.from = begin /\ end.clusters = m + 1
        BY <4>3 DEF R
      <4> QED
        BY <4>2, <4>4, Zenon DEF o
    <3>7. l \in Nat /\ n <= l
      <4> DEFINE y == data_base_sector + begin
                 d == S - (y % S)
                 x == (n - d) % S
                 e == (m + 1) * S
                 f == m * S
      <4>1. l = e - (o - x)
        BY DEF RunLength
      <4>2. e = f + S /\ f \in Nat
        <5>1. 1 * S = S
          BY <1>1
        <5> QED
          BY <1>1, <1>2, <5>1, Spread
      <4>3. o + (n - 1) < f + S
        <5>1. o + (n - 1) \in Nat
          BY <1>1, <1>3
        <5>2. o + (n - 1) = S * m + ((o + (n - 1)) % S) /\ (o + (n - 1)) % S < S /\ (o + (n - 1)) % S \in Nat
          BY <5>1, InCluster DEF m
        <5>3. S * m = f
          BY <1>1, <1>2
        <5> DEFINE g == (o + (n - 1)) % S
        <5>4. o + (n - 1) = f + g /\ g < S /\ g \in Nat
          BY <5>2, <5>3
        <5> HIDE DEF f, g
        <5> QED
          BY <1>1, <4>2, <5>4
      <4>4. x \in Nat
        <5>1. y \in Int
          BY <1>9, FatAssumption
        <5> HIDE DEF y
        <5>2. y % S \in 0 .. S - 1
          BY <1>1, <5>1
        <5>3. d \in Int
          BY <1>1, <5>2
        <5> HIDE DEF d
        <5>4. n - d \in Int
          BY <5>3
        <5> QED
          BY <1>1, <5>4
      <4> HIDE DEF x, e, f, l
      <4> QED
        BY <1>1, <4>1, <4>2, <4>3, <4>4
    <3> HIDE DEF l
    <3>8. Read(l) \in Seq(Int)
      BY <1>9, <3>7
    <3> HIDE DEF Read
    <3>9. run = Read(l)
      BY <3>6, <3>8
    <3> QED
      BY <3>7, <3>9
  <2> QED
    BY <2>1, <2>2
<1>12. PICK l \in Nat : n <= l /\ run = Read(l)
  BY <1>11
<1> HIDE DEF run
<1>13. Len(run) = l
  BY <1>12
<1>14. ASSUME NEW j \in 0 .. n - 1 PROVE run[j + 1] = begin + j
  <2>1. j + 1 \in 1 .. l /\ begin + (j + 1) - 1 = begin + j
    BY <1>9, <1>12
  <2> QED
    BY <1>12, <2>1
<1> QED
  BY <1>10, <1>12, <1>13, <1>14 DEF run

\* The first block, those in the middle and the last are all there is.
LEMMA ReadShape ==
    ASSUME NEW offset \in Nat, NEW len \in Nat
    PROVE  LET more == More(offset, len)
               head == InFirst(offset, len)
               last == InLast(offset, len)
           IN /\ more \in Nat /\ head \in Nat /\ last \in Nat /\ last <= B
              /\ (offset % B) + head <= B
              /\ more = 0 => head = len
              /\ more # 0 => /\ (offset % B) + head = B
                             /\ B * (more - 1) \in Nat /\ head + B * (more - 1) + last = len
<1> DEFINE a == offset % B
           d == len \div B
           l == len % B
           more == More(offset, len)
           head == InFirst(offset, len)
           last == InLast(offset, len)
<1>1. B \in Nat \ {0} /\ a \in Nat /\ a < B /\ d \in Nat /\ l \in Nat /\ l < B /\ len = B * d + l
  BY InBlock, Sizes
<1>2. /\ more = d + (IF l + a > B THEN 1 ELSE 0)
      /\ head = IF len < B - a THEN len ELSE B - a
      /\ last = IF l + a > B THEN l - (B - a) ELSE l + a
  BY DEF More, InFirst, InLast
<1> HIDE DEF a, d, l, more, head, last
<1>3. B * d \in Nat /\ (d # 0 => B * (d - 1) \in Nat /\ B * d = B * (d - 1) + B)
  <2>1. d * B \in Int /\ (d - 1) * B \in Int /\ B * d = d * B /\ B * (d - 1) = (d - 1) * B
        /\ B * d \in Nat /\ (d # 0 => B * (d - 1) \in Nat)
    BY <1>1
  <2>2. ((d - 1) + 1) * B = (d - 1) * B + 1 * B /\ 1 * B = B /\ (d - 1) + 1 = d
    BY <1>1, Spread
  <2> QED
    BY <2>1, <2>2
<1> DEFINE x == B * d
<1>4. x \in Nat /\ len = x + l /\ (d = 0 => x = 0)
  BY <1>1, <1>3
<1> HIDE DEF x
<1>5. CASE l + a > B
  <2>1. more = d + 1 /\ last = l - (B - a) /\ B * (more - 1) = x
    <3>1. more = d + 1 /\ last = l - (B - a) /\ more - 1 = d
      BY <1>1, <1>2, <1>5
    <3> QED
      BY <3>1 DEF x
  <2>2. head = B - a
    BY <1>1, <1>2, <1>4, <1>5
  <2> QED
    BY <1>1, <1>4, <1>5, <2>1, <2>2 DEF a, more, head, last
<1>6. CASE ~ l + a > B /\ d = 0
  BY <1>1, <1>2, <1>4, <1>6 DEF a, more, head, last
<1>7. CASE ~ l + a > B /\ d # 0
  <2> DEFINE y == B * (d - 1)
  <2>1. y \in Nat /\ x = y + B
    BY <1>3, <1>7 DEF x
  <2>2. more = d /\ last = l + a /\ B * (more - 1) = y
    BY <1>1, <1>2, <1>7
  <2> HIDE DEF y
  <2>3. head = B - a
    BY <1>1, <1>2, <1>4, <2>1
  <2> QED
    BY <1>1, <1>4, <1>7, <2>1, <2>2, <2>3 DEF a, more, head, last
<1> QED
  BY <1>5, <1>6, <1>7

\* The block some blocks behind another.
LEMMA BlocksOn ==
    ASSUME NEW n \in Nat, NEW j \in Nat
    PROVE  n * B \in Nat /\ j * B \in Nat /\ B * j = j * B
           /\ (n + j) * B = n * B + j * B /\ (n + 1 + j) * B = n * B + B + j * B
<1>1. B \in Nat \ {0} /\ n * B \in Nat /\ j * B \in Nat /\ B * j = j * B /\ 1 * B = B
  BY Sizes
<1>2. (n + j) * B = n * B + j * B /\ (n + 1) * B = n * B + 1 * B /\ n + 1 \in Nat
  BY <1>1, Spread
<1>3. ((n + 1) + j) * B = (n + 1) * B + j * B
  BY <1>1, <1>2, Spread
<1> QED
  BY <1>1, <1>2, <1>3

\* A read whose blocks are one run finds every byte where it is.
LEMMA ReadRight ==
    ASSUME table \in Table, NEW first \in DOMAIN table, NEW offset \in Nat, NEW len \in Nat,
           LET next == offset \div B + 1
               last == offset \div B + More(offset, len) - 1
           IN \A k \in next \div S .. (last \div S) - 1 :
                 Absolute(table, first, k + 1) = Absolute(table, first, k) + 1
    PROVE  ReadBuffer(first, offset, len)
             = [p \in 1 .. len |-> ByteAt(table, data, first, offset + p)]
<1> DEFINE n == offset \div B
           more == More(offset, len)
           head == InFirst(offset, len)
           last == InLast(offset, len)
           Byte(sector, k) == Contents(data, sector)[k]
           One(b) == Transfer(first, b, 1)[1]
           middle == IF more > 1 THEN Transfer(first, n + 1, more - 1) ELSE <<>>
           behind == head + B * (IF more > 1 THEN more - 1 ELSE 0)
           At(k) == IF k < head THEN Byte(One(n), (offset % B) + k)
                    ELSE IF more > 0 /\ behind <= k /\ k < behind + last
                    THEN Byte(One(n + more), k - behind)
                    ELSE IF (k - head) \div B < Len(middle)
                    THEN Byte(middle[(k - head) \div B + 1], (k - head) % B)
                    ELSE 0
           Home(b) == Sector(Absolute(table, first, b \div S), b)
           Right(k) == At(k) = Byte(Home((offset + k) \div B), (offset + k) % B)
<1>1. ReadBuffer(first, offset, len) = [p \in 1 .. len |-> At(p - 1)]
  BY DEF ReadBuffer
<1>2. /\ more \in Nat /\ head \in Nat /\ last \in Nat /\ last <= B
      /\ (offset % B) + head <= B
      /\ more = 0 => head = len
      /\ more # 0 => /\ (offset % B) + head = B
                     /\ B * (more - 1) \in Nat /\ head + B * (more - 1) + last = len
  BY ReadShape
<1>3. /\ n \in Nat /\ offset % B \in Nat /\ B \in Nat \ {0} /\ n * B \in Nat
      /\ offset = n * B + (offset % B)
  <2>1. n \in Nat /\ offset % B \in Nat /\ B \in Nat \ {0} /\ offset = B * n + (offset % B)
    BY InBlock, Sizes
  <2>2. B * n = n * B /\ n * B \in Nat
    <3> HIDE DEF n
    <3> QED
      BY <2>1
  <2> QED
    BY <2>1, <2>2
<1>4. \A b \in Nat : One(b) = Home(b)
  BY OneTransferred
<1>5. more > 1 => /\ Len(middle) \in Nat /\ more - 1 <= Len(middle)
                  /\ \A j \in 0 .. (more - 1) - 1 : middle[j + 1] = Home((n + 1) + j)
  <2> SUFFICES ASSUME more > 1
               PROVE  /\ Len(middle) \in Nat /\ more - 1 <= Len(middle)
                      /\ \A j \in 0 .. (more - 1) - 1 : middle[j + 1] = Home((n + 1) + j)
    OBVIOUS
  <2>1. middle = Transfer(first, n + 1, more - 1)
    OBVIOUS
  <2>2. \A k \in (n + 1) \div S .. ((n + more - 1) \div S) - 1 :
           Absolute(table, first, k + 1) = Absolute(table, first, k) + 1
    OBVIOUS
  <2> HIDE DEF n, more, middle
  <2>3. n + 1 \in Nat /\ more - 1 \in Nat /\ more - 1 > 0 /\ (n + 1) + (more - 1) - 1 = n + more - 1
    BY <1>2, <1>3
  <2>4. \A k \in (n + 1) \div S .. (((n + 1) + (more - 1) - 1) \div S) - 1 :
           Absolute(table, first, k + 1) = Absolute(table, first, k) + 1
    BY <2>2, <2>3
  <2> DEFINE start == n + 1
             m == more - 1
  <2>5. start \in Nat /\ m \in Nat /\ m > 0 /\ middle = Transfer(first, start, m)
    BY <2>1, <2>3
  <2>6. \A k \in start \div S .. ((start + m - 1) \div S) - 1 :
           Absolute(table, first, k + 1) = Absolute(table, first, k) + 1
    BY <2>4
  <2> HIDE DEF start, m
  <2>7. /\ Len(middle) \in Nat /\ m <= Len(middle)
        /\ \A j \in 0 .. m - 1 : middle[j + 1] = Home(start + j)
    BY <2>5, <2>6, RunTransferred
  <2> QED
    BY <2>7 DEF start, m
<1>6. more # 0 => behind = head + B * (more - 1)
  <2> SUFFICES ASSUME more # 0 PROVE behind = head + B * (more - 1)
    OBVIOUS
  <2>1. (IF more > 1 THEN more - 1 ELSE 0) = more - 1
    BY <1>2
  <2> QED
    BY <2>1
<1>7. \A q \in Nat, j \in Nat : j < B =>
        /\ q * B + j \in Nat /\ (q * B + j) \div B = q /\ (q * B + j) % B = j
  BY DivMod, Sizes
<1>8. ASSUME NEW k \in Nat, k < len PROVE Right(k)
  <2> DEFINE a == offset % B
             x == n * B
             y == B * (more - 1)
  <2>0. /\ a \in Nat /\ B \in Nat \ {0} /\ x \in Nat /\ offset = x + a /\ n \in Nat
        /\ head \in Nat /\ last \in Nat /\ more \in Nat /\ a + head <= B
        /\ more = 0 => head = len
        /\ more # 0 => /\ a + head = B /\ y \in Nat /\ head + y + last = len /\ behind = head + y
    BY <1>2, <1>3, <1>6
  <2> HIDE DEF Home, One, middle, behind, n, more, head, last, Byte, a, x, y
  <2>1. CASE k < head
    <3>1. a + k \in Nat /\ a + k < B /\ offset + k = x + (a + k)
      BY <2>0, <2>1
    <3>2. (offset + k) \div B = n /\ (offset + k) % B = a + k
      <4>1. (n * B + (a + k)) \div B = n /\ (n * B + (a + k)) % B = a + k
        BY <1>7, <2>0, <3>1
      <4> QED
        BY <3>1, <4>1 DEF x
    <3> QED
      BY <1>4, <2>0, <2>1, <3>2 DEF a
  <2>2. CASE ~ k < head /\ more # 0 /\ behind <= k
    <3>1. behind \in Nat /\ k < behind + last /\ k - behind \in Nat /\ k - behind < B /\ more > 0
      BY <1>2, <1>8, <2>0, <2>2
    <3>2. At(k) = Byte(One(n + more), k - behind)
      BY <2>2, <3>1
    <3>3. n + more \in Nat /\ offset + k = (n + more) * B + (k - behind)
      <4>1. more - 1 \in Nat /\ n + 1 + (more - 1) = n + more
        BY <2>0, <2>2
      <4> DEFINE z == (n + more) * B
                 u == (more - 1) * B
      <4>2. z = x + B + u /\ y = u
        <5>1. (n + 1 + (more - 1)) * B = x + B + u /\ B * (more - 1) = u
          BY <2>0, <4>1, BlocksOn DEF x
        <5> QED
          BY <4>1, <5>1 DEF y
      <4> HIDE DEF z, u
      <4>3. /\ offset = x + a /\ behind = head + y /\ a + head = B
            /\ x \in Nat /\ a \in Nat /\ head \in Nat /\ y \in Nat
        BY <2>0, <2>2
      <4>4. offset + k = z + (k - behind)
        BY <4>2, <4>3
      <4> QED
        BY <2>0, <4>4 DEF z
    <3>4. (offset + k) \div B = n + more /\ (offset + k) % B = k - behind
      BY <1>7, <3>1, <3>3
    <3> QED
      BY <1>4, <3>2, <3>3, <3>4
  <2>3. CASE ~ k < head /\ more # 0 /\ ~ behind <= k
    <3> DEFINE j == (k - head) \div B
               r == (k - head) % B
               z == j * B
    <3>1. k - head \in Nat /\ k - head < y
      BY <2>0, <2>3
    <3>2. j \in Nat /\ r \in Nat /\ r < B /\ k - head = B * j + r /\ B * j = z /\ z \in Nat
      <4>1. j \in Nat /\ r \in Nat /\ r < B /\ k - head = B * j + r
        BY <3>1, InBlock
      <4> QED
        BY <2>0, <4>1, BlocksOn
    <3> HIDE DEF j, r, z
    <3>3. j < more - 1
      <4> SUFFICES ASSUME more - 1 <= j PROVE FALSE
        BY <2>0, <3>2
      <4> DEFINE u == (more - 1) * B
                 v == ((more - 1) + (j - (more - 1))) * B
                 w == (j - (more - 1)) * B
      <4>1. more - 1 \in Nat /\ j - (more - 1) \in Nat /\ (more - 1) + (j - (more - 1)) = j
        BY <2>0, <2>3, <3>2
      <4>2. v = u + w /\ w \in Nat /\ u \in Nat /\ y = u
        BY <4>1, BlocksOn DEF y
      <4>3. v = z
        BY <4>1 DEF z
      <4> HIDE DEF u, v, w
      <4> QED
        BY <2>0, <3>1, <3>2, <4>2, <4>3
    <3>4. more > 1 /\ j \in 0 .. (more - 1) - 1
      BY <2>0, <3>2, <3>3
    <3>5. Len(middle) \in Nat /\ more - 1 <= Len(middle) /\ middle[j + 1] = Home((n + 1) + j)
      BY <1>5, <3>4
    <3>6. At(k) = Byte(middle[j + 1], r)
      <4>1. At(k) = IF j < Len(middle) THEN Byte(middle[j + 1], r) ELSE 0
        BY <2>3 DEF j, r
      <4>2. j < Len(middle)
        <5> DEFINE l == Len(middle)
        <5>1. l \in Nat /\ more - 1 <= l
          BY <3>5
        <5> HIDE DEF l
        <5>2. j < l
          BY <2>0, <3>2, <3>3, <5>1
        <5> QED
          BY <5>2 DEF l
      <4> HIDE DEF At
      <4> QED
        BY <4>1, <4>2
    <3>7. n + 1 + j \in Nat /\ offset + k = (n + 1 + j) * B + r
      <4> DEFINE u == (n + 1 + j) * B
      <4>1. u = x + B + z
        BY <2>0, <3>2, BlocksOn DEF x, z
      <4> HIDE DEF u
      <4>2. offset + k = u + r
        BY <2>0, <2>3, <3>1, <3>2, <4>1
      <4> QED
        BY <2>0, <3>2, <4>2 DEF u
    <3>8. (offset + k) \div B = n + 1 + j /\ (offset + k) % B = r
      BY <1>7, <3>2, <3>7
    <3> HIDE DEF At
    <3> QED
      BY <3>5, <3>6, <3>8
  <2>4. more = 0 => k < head
    BY <1>8, <2>0
  <2> QED
    BY <2>1, <2>2, <2>3, <2>4
<1>9. ASSUME NEW p \in 1 .. len PROVE At(p - 1) = ByteAt(table, data, first, offset + p)
  <2>1. p - 1 \in Nat /\ p - 1 < len /\ offset + (p - 1) = (offset + p) - 1
    OBVIOUS
  <2>2. ByteAt(table, data, first, offset + p)
          = Byte(Home(((offset + p) - 1) \div B), ((offset + p) - 1) % B)
    BY DEF ByteAt
  <2> HIDE DEF At, Byte, Home
  <2> QED
    BY <1>8, <2>1, <2>2
<1> HIDE DEF At
<1> QED
  BY <1>1, <1>9

----------------------------------------------------------------------------
(* The abstract store in the state of the file system. *)

\* Between two blocks of a call: what is to be written goes to the end of the
\* file, and what the file has grown by is the beginning of it.
CallStored == call # Idle =>
    /\ call.len \in 0 .. MAX_LEN /\ Writable(call.fd)
    /\ call.from = call.size /\ call.from <= inode[call.fd].entry.size
    /\ written = call.base + call.len
    /\ \A p \in call.from + 1 .. inode[call.fd].entry.size :
          ByteAt(table, data, inode[call.fd].entry.first, p) = call.base + p - call.from

\* The invariant the refinement rests on.
StoreInv == StrayInv /\ (strayed = {} => CallStored)

\* What the store has of a file: by its descriptor, by its directory entry, or
\* nothing.
View ==
    /\ \A fd \in Fd : IsOpen(fd) =>
          /\ inode[fd].name \in Name /\ inode[fd].entry.name = inode[fd].name
          /\ StoreContent[inode[fd].name]
               = FileBytes(table, data, inode[fd].entry.first, SizeNow(fd))
    /\ \A s \in Slot : dir[s].name # NoName /\ ~ IsOpenAs(dir[s].name) =>
          /\ dir[s].name \in Name
          /\ StoreContent[dir[s].name] = FileBytes(table, data, dir[s].first, dir[s].size)
    /\ \A name \in Name : ~ IsOpenAs(name) /\ ~ Exists(name) => StoreContent[name] = NoFile
    /\ StoreContent = [name \in Name |-> StoreContent[name]]

\* Names and descriptors being unique, the choices in StoreContent are none.
LEMMA ViewHolds == StrayInv => View
<1> SUFFICES ASSUME StrayInv PROVE View
  OBVIOUS
<1>1. TypeOK /\ NamesUnique /\ \A fd \in Fd : inode[fd].entry.name \in {NoName, inode[fd].name}
  BY DEF StrayInv, SizeInv, ApartInv, NameInv, Types
<1>2. \A fd, g \in Fd : IsOpen(fd) /\ inode[fd].entry.name = inode[g].entry.name => fd = g
  BY DEF StrayInv, SizeInv, OneHandle
<1>3. \A fd \in Fd : IsOpen(fd) => inode[fd].entry.name = inode[fd].name /\ inode[fd].name \in Name
  BY <1>1 DEF IsOpen, TypeOK, Inode, Entry
<1>4. \A name \in Name : StoreContent[name] =
        IF HeldBy(name) # {}
        THEN LET fd == CHOOSE fd \in HeldBy(name) : TRUE
             IN FileBytes(table, data, inode[fd].entry.first, SizeNow(fd))
        ELSE IF Exists(name)
        THEN LET s == CHOOSE s \in Slot : Found(name, s)
             IN FileBytes(table, data, dir[s].first, dir[s].size)
        ELSE NoFile
  BY Zenon DEF StoreContent
<1>5. \A name : HeldBy(name) # {} <=> IsOpenAs(name)
  BY DEF HeldBy, IsOpenAs
<1>6. ASSUME NEW fd \in Fd, IsOpen(fd)
      PROVE  StoreContent[inode[fd].name] = FileBytes(table, data, inode[fd].entry.first, SizeNow(fd))
  <2>1. inode[fd].name \in Name
    BY <1>3, <1>6
  <2>2. HeldBy(inode[fd].name) = {fd}
    BY <1>2, <1>3, <1>6 DEF HeldBy
  <2>3. (CHOOSE g \in HeldBy(inode[fd].name) : TRUE) = fd
    BY <2>2
  <2>4. HeldBy(inode[fd].name) # {}
    BY <2>2
  <2> QED
    BY <1>4, <2>1, <2>3, <2>4
<1>7. ASSUME NEW s \in Slot, dir[s].name # NoName, ~ IsOpenAs(dir[s].name)
      PROVE  /\ dir[s].name \in Name
             /\ StoreContent[dir[s].name] = FileBytes(table, data, dir[s].first, dir[s].size)
  <2>1. dir[s].name \in Name
    BY <1>1, <1>7 DEF TypeOK, Entry
  <2>2. \A t \in Slot : Found(dir[s].name, t) <=> t = s
    <3>1. \A t \in Slot : dir[t].name = dir[s].name => t = s
      BY <1>1, <1>7 DEF NamesUnique
    <3>2. {t \in Slot : dir[t].name = dir[s].name} = {s}
      BY <3>1
    <3>3. s <= s
      BY DEF Slot
    <3> QED
      BY <3>2, <3>3 DEF Found, Lowest
  <2>3. (CHOOSE t \in Slot : Found(dir[s].name, t)) = s
    BY <2>2
  <2>4. Exists(dir[s].name) /\ HeldBy(dir[s].name) = {}
    BY <1>5, <1>7 DEF Exists
  <2> QED
    BY <1>4, <2>1, <2>3, <2>4
<1>8. ASSUME NEW name \in Name, ~ IsOpenAs(name), ~ Exists(name) PROVE StoreContent[name] = NoFile
  BY <1>4, <1>5, <1>8
<1>9. StoreContent = [name \in Name |-> StoreContent[name]]
  <2> DEFINE v(name) == IF HeldBy(name) # {}
                        THEN LET fd == CHOOSE fd \in HeldBy(name) : TRUE
                             IN FileBytes(table, data, inode[fd].entry.first, SizeNow(fd))
                        ELSE IF Exists(name)
                        THEN LET s == CHOOSE s \in Slot : Found(name, s)
                             IN FileBytes(table, data, dir[s].first, dir[s].size)
                        ELSE NoFile
  <2>1. StoreContent = [name \in Name |-> v(name)]
    BY Zenon DEF StoreContent
  <2> HIDE DEF v
  <2> QED
    BY <2>1
<1> QED
  BY <1>3, <1>6, <1>7, <1>8, <1>9 DEF View

\* What the store has of a descriptor.
LEMMA HandleOf ==
    ASSUME NEW fd \in Fd
    PROVE  StoreHandle[fd]
             = IF IsOpen(fd)
               THEN [name |-> inode[fd].name, readable |-> Readable(fd), writable |-> Writable(fd),
                     offset |-> IF call # Idle /\ call.fd = fd THEN call.from ELSE inode[fd].offset]
               ELSE Closed
  BY DEF StoreHandle

\* A write through one descriptor changes no other file.
LEMMA OthersBytes ==
    ASSUME CLUSTERS < 65534, StrayInv, NEW fd \in Fd, IsOpen(fd), NEW n \in Nat,
           NEW r, Outcome(fd, n, r), NEW f \in Files, f.name # inode[fd].name
    PROVE  FileBytes(r.table, r.data, f.first, f.size) = FileBytes(table, data, f.first, f.size)
<1>1. LinkInv /\ inode[fd].entry \in Files /\ inode[fd].entry.name = inode[fd].name
  BY OpenFile DEF StrayInv, SizeInv, ApartInv, NameInv, IsOpen
<1>2. f.first # inode[fd].entry.first
  BY <1>1 DEF LinkInv, NoCrossLinks, OneFirst
<1>3. PICK block, card : \E c \in FreeCluster : r = Over(fd, n, block, card) \/ r = Behind(fd, block, card, c)
  BY DEF Outcome
<1>4. PICK c \in FreeCluster : r = Over(fd, n, block, card) \/ r = Behind(fd, block, card, c)
  BY <1>3
<1> DEFINE g == inode[fd].entry
<1>5. g \in Files /\ f.first # g.first
  BY <1>1, <1>2
<1>6. \/ r = WriteBlock(table, strayed, g.first, n, block, card)
      \/ r = AppendBlock(g.first, g.size, block, card, c)
  BY <1>4 DEF Over, Behind
<1> HIDE DEF g
<1>7. CASE r = WriteBlock(table, strayed, g.first, n, block, card)
  BY <1>1, <1>5, <1>7, BlockApart
<1>8. CASE r = AppendBlock(g.first, g.size, block, card, c)
  BY <1>1, <1>5, <1>8, BlockApart
<1> QED
  BY <1>6, <1>7, <1>8

\* It holds at the start.
LEMMA StoreInvInit == Init => StoreInv
  BY StrayInvInit DEF StoreInv, CallStored, Init

\* What a block written makes of the descriptors.
LEMMA WroteDescriptors ==
    ASSUME TypeOK, NEW fd \in Fd, NEW r, NEW offset, NEW size, Wrote(fd, r, offset, size)
    PROVE  /\ table' = r.table /\ data' = r.data /\ dir' = dir
           /\ inode'[fd].name = inode[fd].name /\ inode'[fd].flags = inode[fd].flags
           /\ inode'[fd].offset = offset
           /\ inode'[fd].entry.name = inode[fd].entry.name
           /\ inode'[fd].entry.first = inode[fd].entry.first
           /\ inode'[fd].entry.size = IF r.ok THEN size ELSE inode[fd].entry.size
           /\ \A g \in Fd : g # fd => inode'[g] = inode[g]
<1>1. inode \in [Fd -> Inode] /\ inode[fd] \in Inode
  BY DEF TypeOK
<1>2. /\ inode'[fd].name = inode[fd].name /\ inode'[fd].flags = inode[fd].flags
      /\ inode'[fd].offset = offset
      /\ inode'[fd].entry.name = inode[fd].entry.name
      /\ inode'[fd].entry.first = inode[fd].entry.first
      /\ inode'[fd].entry.size = IF r.ok THEN size ELSE inode[fd].entry.size
      /\ \A g \in Fd : g # fd => inode'[g] = inode[g]
  BY <1>1 DEF Wrote, Inode, Entry
<1> QED
  BY <1>2 DEF Wrote

\* A block that has gone astray is remembered.
LEMMA OnStaysInside ==
    ASSUME StrayInv, WriteOn, strayed' = {}
    PROVE  strayed = {}
<1>1. PICK r : BlockKept(call.fd, OnPlace, r, OnEnd) /\ Wrote(call.fd, r, OnEnd, OnEnd)
  BY CarefulOn DEF StrayInv
<1>2. r.strayed = {}
  BY <1>1 DEF Wrote
<1> QED
  BY <1>1, <1>2 DEF BlockKept

\* The first block of a call leaves the call as CallStored says ...
LEMMA FileKeepsStored ==
    ASSUME StrayInv, strayed' = {}, NEW fd \in Fd, NEW len \in 0 .. MAX_LEN,
           CarefulWrite(fd, len), WriteFile(fd, len)
    PROVE  CallStored'
<1> DEFINE offset == inode[fd].offset
           size == inode[fd].entry.size
           first == inode[fd].entry.first
           end == EndOf(fd, len)
           grown == SizeOf(fd, len)
           more == More(offset, len)
<1>1. len \in Nat
  BY FatAssumption
<1>2. PICK r : /\ Outcome(fd, PlaceOf(fd), r)
               /\ Bytes(fd, r, grown, offset, end, written)
               /\ Wrote(fd, r, end, grown)
               /\ Continue(CallFor(fd, len), r, more = 0)
  BY <1>1, FileWritten
<1>3. TypeOK /\ size \in Nat /\ offset \in Nat /\ first \in DOMAIN table /\ written \in Nat
  BY <1>1, OpenFile, WriteFileSteps DEF StrayInv, TypeOK, Inode
<1>4. SUFFICES ASSUME r.ok, more # 0 PROVE CallStored'
  BY <1>2 DEF Continue, CallStored
<1>5. call' = CallFor(fd, len)
  BY <1>2, <1>4 DEF Continue
<1>6. /\ call'.len = len /\ call'.fd = fd /\ call'.from = offset /\ call'.size = size
      /\ call'.base = written
  BY <1>5 DEF CallFor
<1>7. offset = size
  BY <1>4 DEF CarefulWrite
<1>8. end = grown /\ size <= grown /\ grown \in Nat
  <2>1. grown \in Nat /\ size <= grown /\ grown = (PlaceOf(fd) + 1) * B
    BY <1>1, <1>3, <1>4, CarefulSize
  <2>2. end = (PlaceOf(fd) + 1) * B
    BY <1>1, <1>3, <1>4, FirstBlock DEF EndOf, PlaceOf
  <2> HIDE DEF end, grown, size
  <2> QED
    BY <2>1, <2>2
<1>9. /\ table' = r.table /\ data' = r.data /\ inode'[fd].flags = inode[fd].flags
      /\ inode'[fd].entry.first = first /\ inode'[fd].entry.size = grown
  BY <1>2, <1>3, <1>4, WroteDescriptors
<1>10. Writable(fd)' /\ written' = written + len
  BY <1>9, WriteFileSteps DEF WriteFile, Writable
<1>11. ASSUME NEW p \in offset + 1 .. grown
       PROVE  ByteAt(table', data', first, p) = written + p - offset
  <2> HIDE DEF offset, grown, end, first
  <2>1. p \in 1 .. grown /\ offset < p /\ p <= end
    BY <1>3, <1>8
  <2>2. Bytes(fd, r, grown, offset, end, written)
    BY <1>2
  <2> QED
    BY <1>4, <1>9, <2>1, <2>2 DEF Bytes, first
<1> HIDE DEF offset, grown, size, first
<1> QED
  BY <1>6, <1>7, <1>8, <1>9, <1>10, <1>11 DEF CallStored

\* ... and so does each one more.
LEMMA OnKeepsStored ==
    ASSUME StrayInv, CallStored, strayed' = {}, WriteOn
    PROVE  CallStored'
<1> DEFINE fd == call.fd
           size == inode[fd].entry.size
           first == inode[fd].entry.first
<1>1. call # Idle /\ call \in Call
  BY CarefulOn DEF StrayInv
<1>2. /\ call.len \in 0 .. MAX_LEN /\ Writable(fd)
      /\ call.from = call.size /\ call.from <= size
      /\ written = call.base + call.len
      /\ \A p \in call.from + 1 .. size : ByteAt(table, data, first, p) = call.base + p - call.from
  BY <1>1 DEF CallStored
<1>3. call.base \in Nat /\ call.from \in Nat
  BY <1>1 DEF Call
<1>4. fd \in Fd /\ IsOpen(fd) /\ OnEnd \in Nat /\ size <= OnEnd
  BY <1>1, <1>2, <1>3, OnWritten
<1>5. PICK r : /\ Bytes(fd, r, OnEnd, size, OnEnd, call.base + size - call.from)
               /\ Wrote(fd, r, OnEnd, OnEnd)
               /\ Continue([call EXCEPT !.i = @ + 1], r, OnLast)
  BY <1>1, <1>2, <1>3, OnWritten
<1>6. SUFFICES ASSUME r.ok, ~ OnLast PROVE CallStored'
  BY <1>5 DEF Continue, CallStored
<1>7. /\ call'.len = call.len /\ call'.fd = fd /\ call'.from = call.from /\ call'.size = call.size
      /\ call'.base = call.base
  BY <1>1, <1>5, <1>6 DEF Continue, Call
<1>8. TypeOK /\ size \in Nat
  BY <1>1, <1>4, OpenFile DEF StrayInv
<1>9. /\ table' = r.table /\ data' = r.data /\ inode'[fd].flags = inode[fd].flags
      /\ inode'[fd].entry.first = first /\ inode'[fd].entry.size = OnEnd
  BY <1>4, <1>5, <1>6, <1>8, WroteDescriptors
<1>10. inode'[fd].flags \cap {"O_WRONLY", "O_RDWR"} # {} /\ written' = written
  BY <1>2, <1>9 DEF WriteOn, Writable
<1>11. ASSUME NEW p \in call.from + 1 .. OnEnd
       PROVE  ByteAt(table', data', first, p) = call.base + p - call.from
  <2>1. p \in 1 .. OnEnd
    BY <1>3, <1>4
  <2>2. ByteAt(table', data', first, p) = IF size < p /\ p <= OnEnd
                                          THEN (call.base + size - call.from) + p - size
                                          ELSE ByteAt(table, data, first, p)
    BY <1>5, <1>6, <1>9, <2>1 DEF Bytes
  <2> HIDE DEF size, first
  <2>3. ~ size < p => ByteAt(table, data, first, p) = call.base + p - call.from
    BY <1>2, <1>3, <1>8
  <2> QED
    BY <1>3, <1>8, <2>1, <2>2, <2>3
<1> HIDE DEF size, first
<1>12. call.from <= OnEnd
  BY <1>2, <1>3, <1>4, <1>8
<1> HIDE DEF fd
<1> QED
  BY <1>2, <1>7, <1>9, <1>10, <1>11, <1>12 DEF CallStored, Writable

\* Every other step ends without a call.
LEMMA CarefulKeepsStored == StoreInv /\ [CarefulNext]_vars => StoreInv'
<1> SUFFICES ASSUME StoreInv, [CarefulNext]_vars PROVE StoreInv'
  OBVIOUS
<1>1. StrayInv /\ StrayInv'
  BY CarefulKeepsReserved DEF StoreInv
<1>2. CASE \E fd \in Fd, len \in 0 .. MAX_LEN : CarefulWrite(fd, len) /\ WriteFile(fd, len)
  BY <1>1, <1>2, FileKeepsStored DEF StoreInv
<1>3. CASE WriteOn
  BY <1>1, <1>3, OnStaysInside, OnKeepsStored DEF StoreInv
<1>4. CASE UNCHANGED vars
  <2>1. CallStored => CallStored'
    BY <1>4 DEF CallStored, vars, disk, Writable, ByteAt
  <2>2. strayed' = strayed
    BY <1>4 DEF vars, disk
  <2> QED
    BY <1>1, <2>1, <2>2 DEF StoreInv
<1>5. CASE call' = Idle
  BY <1>1, <1>5 DEF StoreInv, CallStored
<1>6. ASSUME NEW name, NEW flags,
             OpenExisting(name, flags) \/ OpenCreates(name, flags) \/ OpenFails(name, flags)
      PROVE  call' = Idle
  <2>1. CASE OpenExisting(name, flags)
    BY <2>1 DEF OpenExisting
  <2>2. CASE OpenCreates(name, flags)
    BY <2>2 DEF OpenCreates
  <2>3. CASE OpenFails(name, flags)
    BY <2>3 DEF OpenFails
  <2> QED
    BY <1>6, <2>1, <2>2, <2>3
<1>7. \A fd, len : Close(fd) \/ WriteFails(fd) \/ ReadFails(fd, len) \/ ReadFile(fd, len) \/ Seek(fd, len)
                      => call' = Idle
  BY DEF Close, WriteFails, ReadFails, ReadFile, Seek
<1> QED
  BY <1>2, <1>3, <1>4, <1>5, <1>6, <1>7 DEF CarefulNext

----------------------------------------------------------------------------
(* Steps of the store. *)

\* One descriptor changes.
LEMMA HandleFunction ==
    ASSUME NEW fd \in Fd, NEW h, StoreHandle'[fd] = h,
           \A g \in Fd : g # fd => StoreHandle'[g] = StoreHandle[g]
    PROVE  StoreHandle' = [StoreHandle EXCEPT ![fd] = h]
<1> DEFINE v(g) == IF IsOpen(g)
                   THEN [name |-> inode[g].name, readable |-> Readable(g), writable |-> Writable(g),
                         offset |-> IF call # Idle /\ call.fd = g THEN call.from ELSE inode[g].offset]
                   ELSE Closed
<1>1. StoreHandle = [g \in Fd |-> v(g)]
  BY Zenon DEF StoreHandle
<1>2. StoreHandle' = [g \in Fd |-> v(g)']
  BY Zenon DEF StoreHandle
<1> HIDE DEF v
<1>3. \A g \in Fd : StoreHandle'[g] = [StoreHandle EXCEPT ![fd] = h][g]
  BY <1>1
<1> DEFINE w(g) == v(g)'
           H == StoreHandle
<1>4. StoreHandle' = [g \in Fd |-> w(g)] /\ H = [g \in Fd |-> v(g)]
  BY <1>1, <1>2
<1> HIDE DEF w
<1> QED
  BY <1>3, <1>4

\* One file changes.
LEMMA ContentFunction ==
    ASSUME View, View', NEW n \in Name, NEW bytes, StoreContent'[n] = bytes,
           \A name \in Name : name # n => StoreContent'[name] = StoreContent[name]
    PROVE  StoreContent' = [StoreContent EXCEPT ![n] = bytes]
  BY DEF View

\* No file changes.
LEMMA SameContent ==
    ASSUME View, View', \A name \in Name : StoreContent'[name] = StoreContent[name]
    PROVE  StoreContent' = StoreContent
  BY DEF View

\* Files that nothing happened to.
LEMMA ContentKept ==
    ASSUME StrayInv, StrayInv', NEW name \in Name,
           \A s \in Slot : dir[s].name = name \/ dir'[s].name = name => dir'[s] = dir[s],
           \A fd \in Fd : IsOpen(fd)' /\ inode'[fd].name = name
                           <=> IsOpen(fd) /\ inode[fd].name = name,
           \A fd \in Fd : IsOpen(fd) /\ inode[fd].name = name =>
               /\ inode'[fd].entry.first = inode[fd].entry.first
               /\ SizeNow(fd)' = SizeNow(fd)
               /\ FileBytes(table', data', inode[fd].entry.first, SizeNow(fd))
                     = FileBytes(table, data, inode[fd].entry.first, SizeNow(fd)),
           \A s \in Slot : dir[s].name = name =>
               FileBytes(table', data', dir[s].first, dir[s].size)
                  = FileBytes(table, data, dir[s].first, dir[s].size)
    PROVE  StoreContent'[name] = StoreContent[name]
<1>1. View /\ View'
  BY ViewHolds, PTL
<1>2. name # NoName
  BY FatAssumption
<1>3. IsOpenAs(name)' <=> IsOpenAs(name)
  BY DEF IsOpenAs
<1>4. Exists(name)' <=> Exists(name)
  BY DEF Exists
<1>5. CASE IsOpenAs(name)
  <2>1. PICK fd \in Fd : IsOpen(fd) /\ inode[fd].name = name
    BY <1>5 DEF IsOpenAs
  <2>2. /\ IsOpen(fd)' /\ inode'[fd].name = name /\ SizeNow(fd)' = SizeNow(fd)
        /\ inode'[fd].entry.first = inode[fd].entry.first
    BY <2>1
  <2>3. StoreContent[name] = FileBytes(table, data, inode[fd].entry.first, SizeNow(fd))
    BY <1>1, <2>1 DEF View
  <2>4. StoreContent'[name] = FileBytes(table', data', inode'[fd].entry.first, SizeNow(fd)')
    BY <1>1, <2>2 DEF View
  <2> QED
    BY <2>1, <2>2, <2>3, <2>4
<1>6. CASE ~ IsOpenAs(name) /\ Exists(name)
  <2>1. PICK s \in Slot : dir[s].name = name
    BY <1>6 DEF Exists
  <2>2. StoreContent[name] = FileBytes(table, data, dir[s].first, dir[s].size)
    BY <1>1, <1>2, <1>6, <2>1 DEF View
  <2>3. dir'[s] = dir[s]
    BY <2>1
  <2>4. StoreContent'[name] = FileBytes(table', data', dir'[s].first, dir'[s].size)
    BY <1>1, <1>2, <1>3, <1>6, <2>1, <2>3 DEF View
  <2> QED
    BY <2>1, <2>2, <2>3, <2>4
<1>7. CASE ~ IsOpenAs(name) /\ ~ Exists(name)
  BY <1>1, <1>3, <1>4, <1>7 DEF View
<1> QED
  BY <1>5, <1>6, <1>7

\* What a descriptor stands for stays if the descriptor does.
LEMMA HandleKept ==
    ASSUME NEW fd \in Fd, inode'[fd] = inode[fd], call = Idle \/ call.fd # fd,
           call' = Idle \/ call'.fd # fd
    PROVE  StoreHandle'[fd] = StoreHandle[fd]
<1>1. StoreHandle[fd]
        = IF IsOpen(fd)
          THEN [name |-> inode[fd].name, readable |-> Readable(fd), writable |-> Writable(fd),
                offset |-> IF call # Idle /\ call.fd = fd THEN call.from ELSE inode[fd].offset]
          ELSE Closed
  BY HandleOf
<1>2. StoreHandle'[fd]
        = IF IsOpen(fd)'
          THEN [name |-> inode'[fd].name, readable |-> Readable(fd)', writable |-> Writable(fd)',
                offset |-> IF call' # Idle /\ call'.fd = fd THEN call'.from ELSE inode'[fd].offset]
          ELSE Closed
  BY DEF StoreHandle
<1> QED
  BY <1>1, <1>2 DEF IsOpen, Readable, Writable

\* The handle of an open descriptor, but for its offset.
LEMMA HandleOpen ==
    ASSUME NEW fd \in Fd, IsOpen(fd)
    PROVE  /\ StoreHandle[fd] = [name |-> inode[fd].name, readable |-> Readable(fd),
                                 writable |-> Writable(fd), offset |-> StoreHandle[fd].offset]
           /\ StoreHandle[fd].offset
                = IF call # Idle /\ call.fd = fd THEN call.from ELSE inode[fd].offset
<1> DEFINE e == IF call # Idle /\ call.fd = fd THEN call.from ELSE inode[fd].offset
           a == Readable(fd)
           w == Writable(fd)
           m == inode[fd].name
<1>1. StoreHandle[fd] = [name |-> m, readable |-> a, writable |-> w, offset |-> e]
  BY HandleOf
<1> HIDE DEF e, a, w, m
<1>2. StoreHandle[fd].offset = e
  BY <1>1
<1>3. StoreHandle[fd] = [name |-> m, readable |-> a, writable |-> w, offset |-> StoreHandle[fd].offset]
  BY <1>1, <1>2
<1> QED
  BY <1>2, <1>3 DEF e, a, w, m

\* The same after a step.
LEMMA HandleOpenThen ==
    ASSUME NEW fd \in Fd, IsOpen(fd)'
    PROVE  /\ StoreHandle'[fd] = [name |-> inode'[fd].name, readable |-> Readable(fd)',
                                  writable |-> Writable(fd)', offset |-> StoreHandle'[fd].offset]
           /\ StoreHandle'[fd].offset
                = IF call' # Idle /\ call'.fd = fd THEN call'.from ELSE inode'[fd].offset
<1> DEFINE e == IF call' # Idle /\ call'.fd = fd THEN call'.from ELSE inode'[fd].offset
           a == Readable(fd)'
           w == Writable(fd)'
           m == inode'[fd].name
           G == StoreHandle'[fd]
<1>1. G = [name |-> m, readable |-> a, writable |-> w, offset |-> e]
  BY DEF StoreHandle
<1> HIDE DEF e, a, w, m, G
<1>2. G.offset = e
  BY <1>1
<1>3. G = [name |-> m, readable |-> a, writable |-> w, offset |-> G.offset]
  BY <1>1, <1>2
<1> QED
  BY <1>2, <1>3 DEF e, a, w, m, G

\* A descriptor that stays open keeps all but its offset.
LEMMA HandleMoves ==
    ASSUME NEW fd \in Fd, IsOpen(fd), IsOpen(fd)', inode'[fd].name = inode[fd].name,
           inode'[fd].flags = inode[fd].flags,
           \A g \in Fd : g # fd => StoreHandle'[g] = StoreHandle[g]
    PROVE  StoreHandle' = [StoreHandle EXCEPT ![fd].offset = StoreHandle'[fd].offset]
<1> DEFINE a == Readable(fd)
           w == Writable(fd)
           m == inode[fd].name
           H == StoreHandle[fd]
           G == StoreHandle'[fd]
           h == [H EXCEPT !.offset = G.offset]
<1>1. Readable(fd)' = a /\ Writable(fd)' = w
  BY DEF Readable, Writable
<1>2. H = [name |-> m, readable |-> a, writable |-> w, offset |-> H.offset]
  BY HandleOpen
<1>3. G = [name |-> m, readable |-> a, writable |-> w, offset |-> G.offset]
  <2>1. G = [name |-> inode'[fd].name, readable |-> Readable(fd)',
             writable |-> Writable(fd)', offset |-> G.offset]
    BY HandleOpenThen
  <2> HIDE DEF G, a, w
  <2> QED
    BY <1>1, <2>1
<1>4. G = h
  <2> HIDE DEF a, w, m, H, G
  <2> QED
    BY <1>2, <1>3
<1>5. StoreHandle' = [StoreHandle EXCEPT ![fd] = h]
  <2> HIDE DEF h
  <2> QED
    BY <1>4, HandleFunction DEF G
<1> QED
  BY <1>5

\* A write of the store, in its parts.
LEMMA WriteIs ==
    ASSUME NEW fd \in Fd, NEW name, NEW len \in 0 .. MAX_LEN, NEW k \in 0 .. len, NEW from \in Nat,
           NEW moved \in 0 .. len,
           StoreHandle[fd] # Closed, StoreHandle[fd].writable, StoreHandle[fd].name = name,
           StoreHandle[fd].offset = from, from <= Len(StoreContent[name]),
           StoreHandle' = [StoreHandle EXCEPT ![fd].offset = from + moved],
           StoreContent' = [StoreContent EXCEPT ![name] = Store!Put(StoreContent[name], from, k)],
           StoreWritten' = StoreWritten + len,
           (k = len /\ moved = len /\ reply' = OK) \/ reply' = ERR
    PROVE  Store!Write(fd, len)
<1> DEFINE H == StoreHandle
           G == StoreHandle'
           C == StoreContent
           D == StoreContent'
           V == StoreWritten'
           W == StoreWritten
           P(bytes, at, m) == Store!Put(bytes, at, m)
<1>1. SUFFICES /\ H[fd] # Closed /\ H[fd].writable
               /\ V = W + len
               /\ H[fd].offset <= Len(C[H[fd].name])
               /\ \E m \in 0 .. len :
                      /\ \/ m = len /\ reply' = OK /\ G = [H EXCEPT ![fd].offset = @ + len]
                         \/ /\ reply' = ERR
                            /\ \E x \in 0 .. len : G = [H EXCEPT ![fd].offset = @ + x]
                      /\ D = [C EXCEPT ![H[fd].name] = P(C[H[fd].name], H[fd].offset, m)]
  BY DEF Store!Write, Store!OK, Store!ERR, OK, ERR
<1>2. /\ H[fd] # Closed /\ H[fd].writable /\ H[fd].name = name /\ H[fd].offset = from
      /\ from <= Len(C[name]) /\ V = W + len
      /\ G = [H EXCEPT ![fd].offset = from + moved]
      /\ D = [C EXCEPT ![name] = P(C[name], from, k)]
  OBVIOUS
<1> HIDE DEF H, G, C, D, V, W, P
<1>3. G = [H EXCEPT ![fd].offset = @ + moved]
  BY <1>2
<1>4. D = [C EXCEPT ![H[fd].name] = P(C[H[fd].name], H[fd].offset, k)]
  BY <1>2
<1> QED
  BY <1>2, <1>3, <1>4

\* The bytes written are put in the file.
LEMMA PutIs ==
    ASSUME NEW t, NEW u, NEW d \in Data, NEW e \in Data, NEW first,
           NEW size \in Nat, NEW grown \in Nat, NEW from \in Nat, NEW n \in Nat, from <= size,
           grown = IF from + n > size THEN from + n ELSE size,
           \A p \in 1 .. grown :
              ByteAt(u, e, first, p) = IF from < p /\ p <= from + n THEN StoreWritten + p - from
                                       ELSE ByteAt(t, d, first, p)
    PROVE  FileBytes(u, e, first, grown) = Store!Put(FileBytes(t, d, first, size), from, n)
<1> DEFINE bytes == FileBytes(t, d, first, size)
           new(p) == IF from < p /\ p <= from + n THEN StoreWritten + p - from ELSE bytes[p]
<1>1. bytes = [p \in 1 .. size |-> ByteAt(t, d, first, p)] /\ Len(bytes) = size
  BY BytesAt
<1>2. FileBytes(u, e, first, grown) = [p \in 1 .. grown |-> ByteAt(u, e, first, p)]
  BY BytesAt
<1>3. Store!Put(bytes, from, n)
        = [p \in 1 .. (IF from + n > Len(bytes) THEN from + n ELSE Len(bytes)) |-> new(p)]
  BY DEF Store!Put
<1> HIDE DEF bytes
<1>4. Store!Put(bytes, from, n) = [p \in 1 .. grown |-> new(p)]
  <2> HIDE DEF new
  <2> QED
    BY <1>1, <1>3
<1>5. \A p \in 1 .. grown : ByteAt(u, e, first, p) = new(p)
  <2> SUFFICES ASSUME NEW p \in 1 .. grown PROVE ByteAt(u, e, first, p) = new(p)
    OBVIOUS
  <2>1. CASE from < p /\ p <= from + n
    BY <2>1
  <2>2. CASE ~ (from < p /\ p <= from + n)
    <3>1. p \in 1 .. size
      BY <2>2
    <3>2. bytes[p] = ByteAt(t, d, first, p)
      BY <1>1, <3>1
    <3> QED
      BY <2>2, <3>2
  <2> QED
    BY <2>1, <2>2
<1> HIDE DEF new
<1>6. FileBytes(u, e, first, grown) = Store!Put(bytes, from, n)
  BY <1>2, <1>4, <1>5
<1> QED
  BY <1>6 DEF bytes

\* No cluster has the number that means none.
SmallCard == CLUSTERS < 65534

\* A block written changes neither other files nor other descriptors.
LEMMA WroteOthers ==
    ASSUME SmallCard, StrayInv, StrayInv', NEW fd \in Fd, IsOpen(fd), NEW n \in Nat,
           NEW r, Outcome(fd, n, r), NEW offset, NEW size, Wrote(fd, r, offset, size),
           call = Idle \/ call.fd = fd, call' = Idle \/ call'.fd = fd
    PROVE  /\ \A g \in Fd : g # fd => StoreHandle'[g] = StoreHandle[g]
           /\ \A name \in Name : name # inode[fd].name => StoreContent'[name] = StoreContent[name]
<1>1. TypeOK
  BY DEF StrayInv, SizeInv, ApartInv, LinkInv, Types
<1>2. /\ table' = r.table /\ data' = r.data /\ dir' = dir
      /\ inode'[fd].name = inode[fd].name
      /\ \A g \in Fd : g # fd => inode'[g] = inode[g]
  BY <1>1, WroteDescriptors
<1>3. ASSUME NEW g \in Fd, g # fd PROVE StoreHandle'[g] = StoreHandle[g]
  BY <1>2, <1>3, HandleKept
<1>4. ASSUME NEW name \in Name, name # inode[fd].name
      PROVE  StoreContent'[name] = StoreContent[name]
  <2>1. name # NoName
    BY FatAssumption
  <2>2. \A f \in Files : f.name = name =>
           FileBytes(table', data', f.first, f.size) = FileBytes(table, data, f.first, f.size)
    BY <1>2, <1>4, OthersBytes DEF SmallCard
  <2>3. ASSUME NEW g \in Fd, inode[g].name = name \/ inode'[g].name = name
        PROVE  /\ inode'[g] = inode[g] /\ SizeNow(g) = inode[g].entry.size
               /\ SizeNow(g)' = SizeNow(g)
    <3>1. g # fd
      BY <1>2, <1>4, <2>3
    <3>2. inode'[g] = inode[g]
      BY <1>2, <3>1
    <3> QED
      BY <3>1, <3>2 DEF SizeNow
  <2>4. ASSUME NEW g \in Fd, IsOpen(g), inode[g].name = name
        PROVE  FileBytes(table', data', inode[g].entry.first, SizeNow(g))
                 = FileBytes(table, data, inode[g].entry.first, SizeNow(g))
    <3>1. inode[g].entry \in Files /\ inode[g].entry.name = name
      BY <2>4, OpenFile, ViewHolds DEF StrayInv, View
    <3> QED
      BY <2>2, <2>3, <2>4, <3>1
  <2>5. ASSUME NEW s \in Slot, dir[s].name = name
        PROVE  FileBytes(table', data', dir[s].first, dir[s].size)
                 = FileBytes(table, data, dir[s].first, dir[s].size)
    <3>1. dir[s] \in Files
      BY <2>1, <2>5 DEF Files, Entries
    <3> QED
      BY <2>2, <2>5, <3>1
  <2>6. \A g \in Fd : IsOpen(g)' /\ inode'[g].name = name <=> IsOpen(g) /\ inode[g].name = name
    BY <2>3 DEF IsOpen
  <2>7. ASSUME NEW g \in Fd, IsOpen(g), inode[g].name = name
        PROVE  /\ inode'[g].entry.first = inode[g].entry.first
               /\ SizeNow(g)' = SizeNow(g)
    BY <2>3, <2>7
  <2> QED
    BY <1>2, <2>4, <2>5, <2>6, <2>7, ContentKept
<1> QED
  BY <1>3, <1>4

\* A write that returns, after its last block or one that failed: k bytes are in
\* the file, from where the handle was, and the descriptor is at the end.
Ends(fd, from, end, len, k) ==
    /\ written' = StoreWritten + len
    /\ from = StoreHandle[fd].offset /\ from <= SizeNow(fd) /\ SizeNow(fd) \in Nat
    /\ from <= end /\ end <= from + len
    /\ inode'[fd].entry.size = IF from + k > SizeNow(fd) THEN from + k ELSE SizeNow(fd)
    /\ \/ k = len /\ end = from + len /\ reply' = OK
       \/ reply' = ERR
    /\ \A p \in 1 .. inode'[fd].entry.size :
          ByteAt(table', data', inode[fd].entry.first, p)
            = IF from < p /\ p <= from + k THEN StoreWritten + p - from
              ELSE ByteAt(table, data, inode[fd].entry.first, p)

\* The call returns: k bytes of it are the file's, and it is a write of the store ...
LEMMA WriteEnds ==
    ASSUME SmallCard, StrayInv, StrayInv', NEW fd \in Fd, IsOpen(fd), Writable(fd),
           NEW n \in Nat, NEW r, Outcome(fd, n, r), NEW end \in Nat, NEW size, Wrote(fd, r, end, size),
           call = Idle \/ call.fd = fd, call' = Idle,
           NEW len \in 0 .. MAX_LEN, NEW from \in Nat, NEW k \in 0 .. len, Ends(fd, from, end, len, k)
    PROVE  Store!Write(fd, len)
<1> DEFINE name == inode[fd].name
           first == inode[fd].entry.first
           moved == end - from
<1>1. View /\ View'
  BY ViewHolds, PTL
<1>2. TypeOK /\ TypeOK' /\ data \in Data /\ data' \in Data
  BY DEF StrayInv, SizeInv, ApartInv, LinkInv, Types, TypeOK, Data
<1>3. /\ inode'[fd].name = name /\ inode'[fd].flags = inode[fd].flags
      /\ inode'[fd].offset = end
      /\ inode'[fd].entry.name = inode[fd].entry.name
      /\ inode'[fd].entry.first = first
  BY <1>2, WroteDescriptors
<1>4. IsOpen(fd)' /\ name \in Name
  BY <1>1, <1>3 DEF IsOpen, View
<1>5. /\ \A g \in Fd : g # fd => StoreHandle'[g] = StoreHandle[g]
      /\ \A other \in Name : other # name => StoreContent'[other] = StoreContent[other]
  BY WroteOthers
<1>7. StoreHandle'[fd].offset = end
  BY <1>3, <1>4, HandleOpenThen
<1>8. moved \in 0 .. len /\ from + moved = end
  BY DEF Ends
<1>9. StoreHandle' = [StoreHandle EXCEPT ![fd].offset = end]
  <2>1. StoreHandle' = [StoreHandle EXCEPT ![fd].offset = StoreHandle'[fd].offset]
    BY <1>3, <1>4, <1>5, HandleMoves
  <2> QED
    BY <1>7, <2>1
<1>10. StoreContent[name] = FileBytes(table, data, first, SizeNow(fd))
  BY <1>1 DEF View
<1>11. StoreContent'[name] = FileBytes(table', data', first, inode'[fd].entry.size)
  BY <1>1, <1>3, <1>4 DEF View, SizeNow
<1>12. StoreContent'[name] = Store!Put(StoreContent[name], from, k)
  <2> DEFINE grown == inode'[fd].entry.size
  <2>1. /\ grown \in Nat /\ k \in Nat /\ from <= SizeNow(fd) /\ SizeNow(fd) \in Nat
        /\ grown = IF from + k > SizeNow(fd) THEN from + k ELSE SizeNow(fd)
        /\ \A p \in 1 .. grown :
              ByteAt(table', data', first, p)
                = IF from < p /\ p <= from + k THEN StoreWritten + p - from
                  ELSE ByteAt(table, data, first, p)
    BY DEF Ends
  <2>2. FileBytes(table', data', first, grown) = Store!Put(FileBytes(table, data, first, SizeNow(fd)), from, k)
    <3> HIDE DEF grown
    <3> QED
      BY <1>2, <2>1, PutIs DEF grown
  <2> QED
    BY <1>10, <1>11, <2>2
<1>13. StoreContent' = [StoreContent EXCEPT ![name] = Store!Put(StoreContent[name], from, k)]
  <2> DEFINE bytes == Store!Put(StoreContent[name], from, k)
  <2> HIDE DEF bytes
  <2>1. StoreContent'[name] = bytes
    BY <1>12 DEF bytes
  <2>2. StoreContent' = [StoreContent EXCEPT ![name] = bytes]
    BY <1>1, <1>4, <1>5, <2>1, ContentFunction
  <2> QED
    BY <2>2 DEF bytes
<1>14. Len(StoreContent[name]) = SizeNow(fd)
  BY <1>2, <1>10, BytesAt DEF Ends
<1>15. StoreHandle[fd] # Closed /\ StoreHandle[fd].writable /\ StoreHandle[fd].name = name
  <2> DEFINE a == Readable(fd)
             w == Writable(fd)
             H == StoreHandle[fd]
  <2>1. H = [name |-> name, readable |-> a, writable |-> w, offset |-> H.offset] /\ w
    BY HandleOpen
  <2>2. name # NoName
    BY <1>4, FatAssumption
  <2> HIDE DEF a, w, H, name
  <2>3. H # Closed /\ H.writable /\ H.name = name
    BY <2>1, <2>2 DEF Closed
  <2> QED
    BY <2>3 DEF H
<1>16. StoreWritten' = StoreWritten + len
  BY DEF StoreWritten, Ends
<1>17. (k = len /\ moved = len /\ reply' = OK) \/ reply' = ERR
  BY <1>8 DEF Ends
<1>18. StoreHandle' = [StoreHandle EXCEPT ![fd].offset = from + moved]
  BY <1>8, <1>9
<1>19. from <= Len(StoreContent[name])
  BY <1>14 DEF Ends
<1>20. StoreHandle[fd].offset = from
  BY DEF Ends
<1> HIDE DEF moved, name
<1> QED
  BY <1>20, <1>8, <1>13, <1>15, <1>16, <1>17, <1>18, <1>19, WriteIs

\* A write with more blocks to come: nothing of it is in the store yet.
GoesOn(fd) ==
    /\ call' # Idle /\ call'.fd = fd
    /\ call'.from = StoreHandle[fd].offset /\ call'.base = StoreWritten
    /\ call'.size = SizeNow(fd) /\ SizeNow(fd) \in Nat /\ reply' = reply
    /\ \A p \in 1 .. SizeNow(fd) : ByteAt(table', data', inode[fd].entry.first, p)
                                    = ByteAt(table, data, inode[fd].entry.first, p)

\* ... and before that the store sees nothing of it.
LEMMA WriteGoesOn ==
    ASSUME SmallCard, StrayInv, StrayInv', NEW fd \in Fd, IsOpen(fd),
           NEW n \in Nat, NEW r, Outcome(fd, n, r), NEW end, NEW size, Wrote(fd, r, end, size),
           call = Idle \/ call.fd = fd, GoesOn(fd)
    PROVE  UNCHANGED Store!vars
<1> DEFINE name == inode[fd].name
           first == inode[fd].entry.first
<1>1. View /\ View'
  BY ViewHolds, PTL
<1>2. TypeOK /\ data \in Data /\ data' \in Data
  BY DEF StrayInv, SizeInv, ApartInv, LinkInv, Types, TypeOK, Data
<1>3. /\ inode'[fd].name = name /\ inode'[fd].flags = inode[fd].flags
      /\ inode'[fd].entry.name = inode[fd].entry.name
      /\ inode'[fd].entry.first = first
  BY <1>2, WroteDescriptors
<1>4. IsOpen(fd)' /\ name \in Name
  BY <1>1, <1>3 DEF IsOpen, View
<1>5. /\ \A g \in Fd : g # fd => StoreHandle'[g] = StoreHandle[g]
      /\ \A other \in Name : other # name => StoreContent'[other] = StoreContent[other]
  <2>1. call' = Idle \/ call'.fd = fd
    BY DEF GoesOn
  <2> QED
    BY <2>1, WroteOthers
<1>6. StoreHandle'[fd].offset = StoreHandle[fd].offset
  BY <1>4, HandleOpenThen DEF GoesOn
<1>7. StoreHandle' = StoreHandle
  <2>1. StoreHandle' = [StoreHandle EXCEPT ![fd].offset = StoreHandle'[fd].offset]
    BY <1>3, <1>4, <1>5, HandleMoves
  <2> DEFINE H == StoreHandle
             o == H[fd].offset
  <2>2. StoreHandle' = [H EXCEPT ![fd].offset = o]
    BY <1>6, <2>1
  <2>4. H = [g \in Fd |-> H[g]]
    BY DEF StoreHandle
  <2>3. [H EXCEPT ![fd].offset = o] = H
    <3>1. H[fd] = [name |-> inode[fd].name, readable |-> Readable(fd), writable |-> Writable(fd), offset |-> o]
      BY HandleOpen
    <3> HIDE DEF H
    <3> QED
      BY <2>4, <3>1
  <2> QED
    BY <2>2, <2>3
<1>8. StoreContent'[name] = StoreContent[name]
  <2>1. StoreContent[name] = FileBytes(table, data, first, SizeNow(fd))
    BY <1>1 DEF View
  <2>2. StoreContent'[name] = FileBytes(table', data', first, SizeNow(fd))
    BY <1>1, <1>3, <1>4 DEF View, SizeNow, GoesOn
  <2> DEFINE m == SizeNow(fd)
  <2>3. m \in Nat /\ \A p \in 1 .. m : ByteAt(table', data', first, p) = ByteAt(table, data, first, p)
    BY DEF GoesOn
  <2> HIDE DEF m, first
  <2>4. FileBytes(table, data, first, m) = [p \in 1 .. m |-> ByteAt(table, data, first, p)]
    BY <1>2, <2>3, BytesAt
  <2>5. FileBytes(table', data', first, m) = [p \in 1 .. m |-> ByteAt(table', data', first, p)]
    BY <1>2, <2>3, BytesAt
  <2> QED
    BY <2>1, <2>2, <2>3, <2>4, <2>5 DEF m
<1>9. StoreContent' = StoreContent
  BY <1>1, <1>5, <1>8, SameContent
<1>10. StoreWritten' = StoreWritten
  BY DEF StoreWritten, GoesOn
<1> QED
  BY <1>7, <1>9, <1>10 DEF Store!vars, GoesOn

\* A block is written or not.
LEMMA OutcomeBoolean ==
    ASSUME NEW fd, NEW n, NEW r, Outcome(fd, n, r)
    PROVE  r.ok \in BOOLEAN
<1>1. \A t, s, first, m, block, card : WriteBlock(t, s, first, m, block, card).ok \in BOOLEAN
  <2> SUFFICES ASSUME NEW t, NEW s, NEW first, NEW m, NEW block, NEW card
               PROVE  WriteBlock(t, s, first, m, block, card).ok \in BOOLEAN
    OBVIOUS
  <2> DEFINE cluster == Absolute(t, first, m \div S)
             sector == Sector(cluster, m)
             d == [data EXCEPT ![sector] = block]
  <2>1. WriteBlock(t, s, first, m, block, card)
          = IF cluster = Bad \/ ~ card THEN State(t, data, s, FALSE)
            ELSE IF sector \in DOMAIN data THEN State(t, d, s, TRUE) ELSE State(t, data, s \cup {cluster}, TRUE)
    BY DEF WriteBlock
  <2> HIDE DEF cluster, sector, d
  <2> QED
    BY <2>1 DEF State
<1>2. \A first, size, c : Linked(table, strayed, first, size, c).ok \in BOOLEAN
  <2> SUFFICES ASSUME NEW first, NEW size, NEW c
               PROVE  Linked(table, strayed, first, size, c).ok \in BOOLEAN
    OBVIOUS
  <2> DEFINE marked == ClusterMarked(table, c)
             last == LinkFrom(marked, first, size)
             linked == [marked EXCEPT ![last] = c]
  <2>1. Linked(table, strayed, first, size, c)
          = IF c = Bad THEN State(table, data, strayed, FALSE)
            ELSE IF last = Bad THEN State(marked, data, strayed, FALSE)
            ELSE IF last \in DOMAIN table THEN State(linked, data, strayed, TRUE)
            ELSE State(marked, data, strayed \cup {last}, TRUE)
    BY DEF Linked
  <2> HIDE DEF marked, last, linked
  <2> QED
    BY <2>1 DEF State
<1>3. \A first, size, block, card, c : AppendBlock(first, size, block, card, c).ok \in BOOLEAN
  BY <1>1, <1>2, AppendCases
<1> QED
  BY <1>1, <1>3 DEF Outcome, Over, Behind

\* The first block of a write, which may be the last.
LEMMA FileMaps ==
    ASSUME SmallCard, StrayInv, StrayInv', strayed' = {}, NEW fd \in Fd, NEW len \in 0 .. MAX_LEN,
           CarefulWrite(fd, len), WriteFile(fd, len)
    PROVE  Store!Write(fd, len) \/ UNCHANGED Store!vars
<1> DEFINE offset == inode[fd].offset
           size == inode[fd].entry.size
           first == inode[fd].entry.first
           end == EndOf(fd, len)
           grown == SizeOf(fd, len)
           more == More(offset, len)
<1>1. len \in Nat
  BY FatAssumption
<1>2. PICK r : /\ Outcome(fd, PlaceOf(fd), r)
               /\ Bytes(fd, r, grown, offset, end, written)
               /\ Wrote(fd, r, end, grown)
               /\ Continue(CallFor(fd, len), r, more = 0)
  BY <1>1, FileWritten
<1>3. call = Idle /\ IsOpen(fd) /\ Writable(fd) /\ written' = written + len
  BY WriteFileSteps DEF WriteFile
<1>4. /\ TypeOK /\ size \in Nat /\ offset \in Nat /\ first \in DOMAIN table /\ written \in Nat
      /\ PlaceOf(fd) \in Nat
  BY <1>1, <1>3, OpenFile, InBlock DEF StrayInv, TypeOK, Inode, PlaceOf
<1>5. r.ok \in BOOLEAN
  BY <1>2, OutcomeBoolean
<1>6. /\ end \in Nat /\ offset <= end /\ end <= offset + len
      /\ more = 0 => end = offset + len
  <2>1. InFirst(offset, len) \in Nat
    BY <1>1, <1>4, FirstFits
  <2>2. end <= offset + len
    BY <1>1, <1>4, FirstBlock DEF EndOf
  <2>3. more = 0 => InFirst(offset, len) = len
    BY <1>1, <1>4, ReadShape
  <2>4. end = offset + InFirst(offset, len)
    BY DEF EndOf
  <2> HIDE DEF offset, end, more
  <2> QED
    BY <1>1, <1>4, <2>1, <2>2, <2>3, <2>4
<1>7. /\ grown = IF end > size THEN end ELSE size
      /\ offset <= size /\ (more # 0 => offset = size)
  <2>1. grown = IF Overwrites(fd, len) /\ end <= size THEN size ELSE end
    BY DEF SizeOf
  <2>2. ~ Overwrites(fd, len) => ~ end <= size
    BY DEF Overwrites
  <2>3. offset <= size /\ (more # 0 => offset = size)
    BY <1>4 DEF CarefulWrite
  <2> HIDE DEF grown, end, size
  <2> QED
    BY <1>4, <1>6, <2>1, <2>2, <2>3
<1>8. /\ StoreHandle[fd].offset = offset /\ StoreWritten = written /\ SizeNow(fd) = size
  BY <1>3, HandleOpen DEF StoreWritten, SizeNow
<1>9. /\ table' = r.table /\ data' = r.data
      /\ inode'[fd].entry.size = IF r.ok THEN grown ELSE size
  BY <1>2, <1>4, WroteDescriptors
<1>10. \A p \in 1 .. (IF r.ok THEN grown ELSE size) :
          ByteAt(table', data', first, p) = IF r.ok /\ offset < p /\ p <= end THEN written + p - offset
                                            ELSE ByteAt(table, data, first, p)
  BY <1>2, <1>9 DEF Bytes
<1>11. CASE r.ok /\ more # 0
  <2>1. call' = CallFor(fd, len) /\ reply' = reply
    BY <1>2, <1>11 DEF Continue
  <2>2. /\ call'.fd = fd /\ call'.from = offset /\ call'.size = size /\ call'.base = written
        /\ call'.i = 1
    BY <2>1 DEF CallFor
  <2>3. call' # Idle
    BY <2>2 DEF Idle
  <2>4. ASSUME NEW p \in 1 .. size
        PROVE  ByteAt(table', data', first, p) = ByteAt(table, data, first, p)
    <3> HIDE DEF offset, size, first, end, grown, more
    <3>1. p \in 1 .. grown /\ ~ offset < p
      BY <1>4, <1>6, <1>7, <1>11
    <3> QED
      BY <1>10, <1>11, <3>1
  <2>5. GoesOn(fd)
    BY <1>4, <1>8, <2>1, <2>2, <2>3, <2>4 DEF GoesOn
  <2> HIDE DEF end, grown
  <2> QED
    BY <1>1, <1>2, <1>3, <1>4, <2>5, WriteGoesOn
<1>12. CASE ~ (r.ok /\ more # 0)
  <2> DEFINE k == IF r.ok THEN len ELSE 0
  <2>1. call' = Idle /\ reply' = [ok |-> r.ok, bytes |-> <<>>]
    BY <1>2, <1>12 DEF Continue
  <2>2. k \in 0 .. len /\ k \in Nat
    BY <1>1
  <2>3. r.ok => k = len /\ end = offset + len /\ reply' = OK
    BY <1>5, <1>6, <1>12, <2>1 DEF OK
  <2>4. ~ r.ok => k = 0 /\ reply' = ERR
    BY <1>5, <2>1 DEF ERR
  <2>5. inode'[fd].entry.size = IF offset + k > size THEN offset + k ELSE size
    <3> HIDE DEF offset, size, end, grown, more, k
    <3> QED
      BY <1>4, <1>6, <1>7, <1>9, <2>3, <2>4
  <2>6. ASSUME NEW p \in 1 .. inode'[fd].entry.size
        PROVE  ByteAt(table', data', first, p)
                 = IF offset < p /\ p <= offset + k THEN written + p - offset
                   ELSE ByteAt(table, data, first, p)
    <3>1. ByteAt(table', data', first, p) = IF r.ok /\ offset < p /\ p <= end THEN written + p - offset
                                            ELSE ByteAt(table, data, first, p)
      BY <1>9, <1>10
    <3>2. p \in Int
      <4>1. inode'[fd].entry.size \in Int
        <5> HIDE DEF offset, size, k
        <5> QED
          BY <1>4, <2>2, <2>5
      <4> QED
        BY <4>1
    <3> HIDE DEF offset, size, first, end, grown, more, k
    <3> QED
      BY <1>4, <2>3, <2>4, <3>1, <3>2
  <2> HIDE DEF k
  <2>7. Ends(fd, offset, end, len, k)
    <3> HIDE DEF offset, size, first, end, grown, more
    <3>1. (reply' = OK /\ k = len /\ end = offset + len) \/ reply' = ERR
      BY <2>3, <2>4
    <3> QED
      BY <1>3, <1>4, <1>6, <1>7, <1>8, <2>5, <2>6, <3>1 DEF Ends, first
  <2> HIDE DEF offset, end, grown
  <2> QED
    BY <1>1, <1>2, <1>3, <1>4, <1>6, <2>1, <2>2, <2>7, WriteEnds
<1> QED
  BY <1>11, <1>12

\* One more block.
LEMMA OnMaps ==
    ASSUME SmallCard, StrayInv, CallStored, StrayInv', strayed' = {}, WriteOn
    PROVE  Store!Write(call.fd, call.len) \/ UNCHANGED Store!vars
<1> DEFINE fd == call.fd
           len == call.len
           from == call.from
           size == inode[fd].entry.size
           first == inode[fd].entry.first
<1>1. call # Idle /\ call \in Call
  BY CarefulOn DEF StrayInv
<1>2. /\ len \in 0 .. MAX_LEN /\ Writable(fd) /\ from = call.size /\ from <= size
      /\ written = call.base + len
      /\ \A p \in from + 1 .. size : ByteAt(table, data, first, p) = call.base + p - from
  BY <1>1 DEF CallStored
<1>3. call.base \in Nat /\ from \in Nat /\ len \in Nat
  BY <1>1 DEF Call
<1>4. /\ fd \in Fd /\ IsOpen(fd) /\ OnEnd \in Nat /\ size <= OnEnd /\ OnPlace \in Nat
      /\ OnEnd <= from + len /\ (OnLast => OnEnd = from + len)
  BY <1>1, <1>2, <1>3, OnWritten
<1>5. PICK r : /\ Outcome(fd, OnPlace, r)
               /\ Bytes(fd, r, OnEnd, size, OnEnd, call.base + size - from)
               /\ Wrote(fd, r, OnEnd, OnEnd)
               /\ Continue([call EXCEPT !.i = @ + 1], r, OnLast)
  BY <1>1, <1>2, <1>3, OnWritten
<1>6. TypeOK /\ size \in Nat /\ r.ok \in BOOLEAN
  BY <1>1, <1>4, <1>5, OpenFile, OutcomeBoolean DEF StrayInv
<1>7. /\ StoreHandle[fd].offset = from /\ StoreWritten = call.base /\ SizeNow(fd) = from
  BY <1>1, <1>2, <1>4, HandleOpen DEF StoreWritten, SizeNow
<1>8. /\ table' = r.table /\ data' = r.data
      /\ inode'[fd].entry.size = IF r.ok THEN OnEnd ELSE size
  BY <1>4, <1>5, <1>6, WroteDescriptors
<1>9. \A p \in 1 .. (IF r.ok THEN OnEnd ELSE size) :
         ByteAt(table', data', first, p) = IF from < p THEN call.base + p - from
                                           ELSE ByteAt(table, data, first, p)
  <2> SUFFICES ASSUME NEW p \in 1 .. (IF r.ok THEN OnEnd ELSE size)
               PROVE  ByteAt(table', data', first, p) = IF from < p THEN call.base + p - from
                                                        ELSE ByteAt(table, data, first, p)
    OBVIOUS
  <2>1. ByteAt(table', data', first, p) = IF r.ok /\ size < p /\ p <= OnEnd
                                          THEN (call.base + size - from) + p - size
                                          ELSE ByteAt(table, data, first, p)
    BY <1>5, <1>8 DEF Bytes
  <2> HIDE DEF size, first, from
  <2>2. p \in Int /\ (r.ok => p <= OnEnd) /\ (~ r.ok => p <= size)
    BY <1>4, <1>6
  <2>3. from < p /\ ~ size < p => ByteAt(table, data, first, p) = call.base + p - from
    BY <1>2, <1>3, <1>6, <2>2
  <2> QED
    BY <1>2, <1>3, <1>4, <1>6, <2>1, <2>2, <2>3
<1>10. written' = written
  BY DEF WriteOn
<1>11. CASE r.ok /\ ~ OnLast
  <2>1. call' = [call EXCEPT !.i = @ + 1] /\ reply' = reply
    BY <1>5, <1>11 DEF Continue
  <2>2. call'.fd = fd /\ call'.from = from /\ call'.size = call.size /\ call'.base = call.base
    BY <1>1, <2>1 DEF Call
  <2>3. call' # Idle
    <3>1. fd # 0
      BY <1>4 DEF Fd
    <3> QED
      BY <2>2, <3>1 DEF Idle
  <2>4. ASSUME NEW p \in 1 .. from
        PROVE  ByteAt(table', data', first, p) = ByteAt(table, data, first, p)
    <3> HIDE DEF from, size, first
    <3>1. p \in 1 .. OnEnd /\ ~ from < p
      BY <1>2, <1>3, <1>4, <1>6
    <3> QED
      BY <1>9, <1>11, <3>1
  <2>5. GoesOn(fd)
    BY <1>2, <1>3, <1>7, <2>1, <2>2, <2>3, <2>4 DEF GoesOn
  <2> HIDE DEF fd
  <2> QED
    BY <1>1, <1>4, <1>5, <2>5, WriteGoesOn DEF fd
<1>12. CASE ~ (r.ok /\ ~ OnLast)
  <2> DEFINE k == IF r.ok THEN len ELSE size - from
  <2>1. call' = Idle /\ reply' = [ok |-> r.ok, bytes |-> <<>>]
    BY <1>5, <1>12 DEF Continue
  <2>2. k \in 0 .. len /\ k \in Nat
    <3> HIDE DEF len, from, size
    <3> QED
      BY <1>2, <1>3, <1>4, <1>6
  <2>3. r.ok => k = len /\ OnEnd = from + len /\ reply' = OK
    BY <1>4, <1>6, <1>12, <2>1 DEF OK
  <2>4. ~ r.ok => from + k = size /\ reply' = ERR
    <3>1. ~ r.ok => reply' = ERR
      BY <1>6, <2>1 DEF ERR
    <3> HIDE DEF len, from, size
    <3> QED
      BY <1>3, <1>6, <3>1
  <2> HIDE DEF k
  <2>5. inode'[fd].entry.size = from + k /\ from + k = IF from + k > from THEN from + k ELSE from
    <3> HIDE DEF len, from, size
    <3> QED
      BY <1>3, <1>8, <2>2, <2>3, <2>4
  <2>6. ASSUME NEW p \in 1 .. inode'[fd].entry.size
        PROVE  ByteAt(table', data', first, p)
                 = IF from < p /\ p <= from + k THEN call.base + p - from
                   ELSE ByteAt(table, data, first, p)
    <3>1. ByteAt(table', data', first, p) = IF from < p THEN call.base + p - from
                                            ELSE ByteAt(table, data, first, p)
      BY <1>8, <1>9
    <3>2. p <= from + k
      BY <2>5
    <3> QED
      BY <3>1, <3>2
  <2>7. Ends(fd, from, OnEnd, len, k)
    <3> HIDE DEF len, from, size
    <3>1. (reply' = OK /\ k = len /\ OnEnd = from + len) \/ reply' = ERR
      BY <2>3, <2>4
    <3>2. from <= OnEnd
      BY <1>2, <1>3, <1>4, <1>6
    <3> QED
      BY <1>2, <1>3, <1>4, <1>7, <1>10, <2>5, <2>6, <3>1, <3>2 DEF Ends, first
  <2>8. call = Idle \/ call.fd = fd
    OBVIOUS
  <2> HIDE DEF from, fd, len
  <2>9. Store!Write(fd, len)
    BY <1>1, <1>2, <1>3, <1>4, <1>5, <2>1, <2>2, <2>7, <2>8, WriteEnds
  <2> QED
    BY <2>9 DEF fd, len
<1> QED
  BY <1>11, <1>12

\* A step that writes nothing: files it does not touch.
LEMMA QuietContent ==
    ASSUME StrayInv, StrayInv', call = Idle, call' = Idle, NEW name \in Name,
           \A f \in Files : FileBytes(table', data', f.first, f.size)
                              = FileBytes(table, data, f.first, f.size),
           \A s \in Slot : dir[s].name = name \/ dir'[s].name = name => dir'[s] = dir[s],
           \A fd \in Fd : IsOpen(fd)' /\ inode'[fd].name = name
                           <=> IsOpen(fd) /\ inode[fd].name = name,
           \A fd \in Fd : IsOpen(fd) /\ inode[fd].name = name => inode'[fd].entry = inode[fd].entry
    PROVE  StoreContent'[name] = StoreContent[name]
<1>1. name # NoName
  BY FatAssumption
<1>2. ASSUME NEW fd \in Fd, IsOpen(fd), inode[fd].name = name
      PROVE  /\ inode'[fd].entry.first = inode[fd].entry.first
             /\ SizeNow(fd)' = SizeNow(fd)
             /\ FileBytes(table', data', inode[fd].entry.first, SizeNow(fd))
                   = FileBytes(table, data, inode[fd].entry.first, SizeNow(fd))
  <2>1. inode[fd].entry \in Files
    BY <1>2, OpenFile DEF StrayInv
  <2>2. SizeNow(fd) = inode[fd].entry.size /\ inode'[fd].entry = inode[fd].entry
    BY <1>2 DEF SizeNow
  <2>3. SizeNow(fd)' = inode'[fd].entry.size
    BY DEF SizeNow
  <2> QED
    BY <2>1, <2>2, <2>3
<1>3. ASSUME NEW s \in Slot, dir[s].name = name
      PROVE  FileBytes(table', data', dir[s].first, dir[s].size)
               = FileBytes(table, data, dir[s].first, dir[s].size)
  <2>1. dir[s] \in Files
    BY <1>1, <1>3 DEF Files, Entries
  <2> QED
    BY <2>1
<1> QED
  BY <1>2, <1>3, ContentKept

\* Marking a free cluster changes no file.
LEMMA MarkedKeepsFiles ==
    ASSUME LinkInv, NEW c \in FreeCluster, c # Bad,
           table' = ClusterMarked(table, c), data' = data, NEW f \in Files
    PROVE  FileBytes(table', data', f.first, f.size) = FileBytes(table, data, f.first, f.size)
<1>1. c \in DOMAIN table /\ table[c] = 0
  BY FreeTyped DEF LinkInv, Types, TypeOK
<1>2. f.size \in Nat
  BY FileTyped DEF LinkInv, Types, Entry
<1>3. \A k \in Nat : Absolute(ClusterMarked(table, c), f.first, k) = Absolute(table, f.first, k)
  BY <1>1, LinksLinear, MarkedLinear
<1>4. FileBytes(ClusterMarked(table, c), data, f.first, f.size) = FileBytes(table, data, f.first, f.size)
  BY <1>2, <1>3, SameBytes
<1> QED
  BY <1>4

\* A descriptor that stays closed, whatever else becomes of it.
LEMMA ClosedContent ==
    ASSUME StrayInv, StrayInv', call = Idle, call' = Idle, dir' = dir,
           \A f \in Files : FileBytes(table', data', f.first, f.size)
                              = FileBytes(table, data, f.first, f.size),
           NEW fd \in Fd, ~ IsOpen(fd), ~ IsOpen(fd)',
           \A g \in Fd : g # fd => inode'[g] = inode[g]
    PROVE  StoreContent' = StoreContent /\ StoreHandle' = StoreHandle
<1>1. View /\ View'
  BY ViewHolds, PTL
<1>2. ASSUME NEW name \in Name PROVE StoreContent'[name] = StoreContent[name]
  <2>1. \A g \in Fd : IsOpen(g)' /\ inode'[g].name = name <=> IsOpen(g) /\ inode[g].name = name
    BY DEF IsOpen
  <2>2. \A g \in Fd : IsOpen(g) /\ inode[g].name = name => inode'[g].entry = inode[g].entry
    OBVIOUS
  <2> QED
    BY <2>1, <2>2, QuietContent
<1>3. StoreHandle'[fd] = Closed /\ StoreHandle[fd] = Closed
  BY DEF StoreHandle
<1>4. \A g \in Fd : g # fd => StoreHandle'[g] = StoreHandle[g]
  BY HandleKept
<1>5. StoreHandle' = [StoreHandle EXCEPT ![fd] = Closed]
  BY <1>3, <1>4, HandleFunction
<1>6. StoreHandle' = StoreHandle
  <2> DEFINE H == StoreHandle
  <2>1. H = [g \in Fd |-> H[g]]
    BY DEF StoreHandle
  <2>2. StoreHandle' = [H EXCEPT ![fd] = Closed] /\ H[fd] = Closed
    BY <1>3, <1>5
  <2> HIDE DEF H
  <2>3. StoreHandle' = H
    BY <2>1, <2>2
  <2> QED
    BY <2>3 DEF H
<1> QED
  BY <1>1, <1>2, <1>6, SameContent

\* The handle of a descriptor just opened.
LEMMA OpenedHandle ==
    ASSUME NEW fd \in Fd, ~ IsOpen(fd), IsOpen(fd)', call' = Idle, NEW name \in Name,
           inode'[fd].name = name, NEW offset, inode'[fd].offset = offset,
           \A g \in Fd : g # fd => StoreHandle'[g] = StoreHandle[g]
    PROVE  /\ StoreHandle[fd] = Closed /\ StoreHandle'[fd] # Closed
           /\ \E readable, writable \in BOOLEAN :
                StoreHandle' = [StoreHandle EXCEPT ![fd] = [name |-> name, offset |-> offset,
                                                            readable |-> readable,
                                                            writable |-> writable]]
<1>1. StoreHandle[fd] = Closed
  BY HandleOf
<1> DEFINE a == Readable(fd)'
           w == Writable(fd)'
           h == [name |-> name, offset |-> offset, readable |-> a, writable |-> w]
<1>2. a \in BOOLEAN /\ w \in BOOLEAN
  BY DEF Readable, Writable
<1>3. StoreHandle'[fd] = h
  BY HandleOpenThen
<1>4. StoreHandle' = [StoreHandle EXCEPT ![fd] = h]
  <2> HIDE DEF h
  <2> QED
    BY <1>3, HandleFunction
<1>5. h # Closed
  <2>1. name # NoName
    BY FatAssumption
  <2> HIDE DEF a, w
  <2> QED
    BY <2>1 DEF Closed
<1> HIDE DEF a, w
<1> QED
  BY <1>1, <1>2, <1>3, <1>4, <1>5

\* What no descriptor is open for, no handle stands for.
LEMMA NobodysHandle ==
    ASSUME NEW name, ~ IsOpenAs(name), NEW fd \in Fd, StoreHandle[fd] # Closed
    PROVE  StoreHandle[fd].name # name
<1>1. IsOpen(fd)
  BY HandleOf
<1>2. inode[fd].name # name
  BY <1>1 DEF IsOpenAs
<1> DEFINE a == Readable(fd)
           w == Writable(fd)
           o == StoreHandle[fd].offset
           H == StoreHandle[fd]
<1>3. H = [name |-> inode[fd].name, readable |-> a, writable |-> w, offset |-> o]
  BY <1>1, HandleOpen
<1> HIDE DEF a, w, o, H
<1>4. H.name = inode[fd].name
  BY <1>3
<1> QED
  BY <1>2, <1>4 DEF H

\* A file opened: it has the bytes it had, or none if there was none.
LEMMA OpeningMaps ==
    ASSUME StrayInv, StrayInv', call = Idle, call' = Idle, reply' = OK, written' = written,
           NEW fd \in Fd, ~ IsOpen(fd), NEW name \in Name, ~ IsOpenAs(name),
           NEW flags, NEW offset, NEW entry, entry.name = name, entry.size \in Nat,
           inode' = [inode EXCEPT ![fd] = Opened(flags, offset, name, entry)],
           offset \in {0, entry.size},
           \A f \in Files : FileBytes(table', data', f.first, f.size)
                              = FileBytes(table, data, f.first, f.size),
           \A s \in Slot : dir'[s] = dir[s] \/ (dir[s].name = NoName /\ dir'[s].name = name),
           FileBytes(table', data', entry.first, entry.size)
             = IF StoreContent[name] = NoFile THEN <<>> ELSE StoreContent[name]
    PROVE  Store!Open(fd, name)
<1> DEFINE bytes == FileBytes(table', data', entry.first, entry.size)
<1>1. View /\ View' /\ inode \in [Fd -> Inode] /\ data' \in Data /\ name # NoName
  <2>1. View /\ View'
    BY ViewHolds, PTL
  <2>2. inode \in [Fd -> Inode] /\ data' \in Data
    BY DEF StrayInv, SizeInv, ApartInv, LinkInv, Types, TypeOK, Data
  <2>3. name # NoName
    BY FatAssumption
  <2> QED
    BY <2>1, <2>2, <2>3
<1>2. /\ inode'[fd].entry = entry /\ inode'[fd].name = name /\ inode'[fd].offset = offset
      /\ \A g \in Fd : g # fd => inode'[g] = inode[g]
  BY <1>1 DEF Opened
<1>3. IsOpen(fd)'
  BY <1>1, <1>2 DEF IsOpen
<1>4. StoreContent'[name] = bytes
  <2>1. SizeNow(fd)' = entry.size
    BY <1>2 DEF SizeNow
  <2> QED
    BY <1>1, <1>2, <1>3, <2>1 DEF View
<1>5. ASSUME NEW other \in Name, other # name PROVE StoreContent'[other] = StoreContent[other]
  <2>1. other # NoName
    BY FatAssumption
  <2>2. \A g \in Fd : IsOpen(g)' /\ inode'[g].name = other <=> IsOpen(g) /\ inode[g].name = other
    BY <1>2, <1>5 DEF IsOpen
  <2>3. \A g \in Fd : IsOpen(g) /\ inode[g].name = other => inode'[g].entry = inode[g].entry
    BY <1>2
  <2>4. \A s \in Slot : dir[s].name = other \/ dir'[s].name = other => dir'[s] = dir[s]
    BY <1>5, <2>1
  <2> QED
    BY <2>2, <2>3, <2>4, QuietContent
<1>6. StoreContent' = [StoreContent EXCEPT ![name] = bytes]
  <2> HIDE DEF bytes
  <2> QED
    BY <1>1, <1>4, <1>5, ContentFunction
<1>7. Len(bytes) = entry.size
  BY <1>1, BytesAt
<1>8. \A g \in Fd : g # fd => StoreHandle'[g] = StoreHandle[g]
  BY <1>2, HandleKept
<1>9. /\ StoreHandle[fd] = Closed /\ StoreHandle'[fd] # Closed
      /\ \E readable, writable \in BOOLEAN :
           StoreHandle' = [StoreHandle EXCEPT ![fd] = [name |-> name, offset |-> offset,
                                                       readable |-> readable,
                                                       writable |-> writable]]
  BY <1>2, <1>3, <1>8, OpenedHandle
<1>10. \A other \in Fd : StoreHandle[other] # Closed => StoreHandle[other].name # name
  BY NobodysHandle
<1>11. StoreWritten' = StoreWritten
  BY DEF StoreWritten
<1> DEFINE C == StoreContent
           D == StoreContent'
           H == StoreHandle
           G == StoreHandle'
<1>12. /\ D = [C EXCEPT ![name] = bytes] /\ D[name] = bytes
       /\ bytes = IF C[name] = NoFile THEN <<>> ELSE C[name]
       /\ offset \in {0, Len(bytes)}
  BY <1>4, <1>6, <1>7
<1>13. SUFFICES /\ H[fd] = Closed /\ G[fd] # Closed
                /\ \A other \in Fd : H[other] # Closed => H[other].name # name
                /\ D = [C EXCEPT ![name] = IF @ = NoFile THEN <<>> ELSE @]
                /\ \E o \in {0, Len(D[name])}, readable, writable \in BOOLEAN :
                      G = [H EXCEPT ![fd] = [name |-> name, offset |-> o,
                                             readable |-> readable, writable |-> writable]]
  BY <1>11 DEF Store!Open, Store!OK, OK
<1> HIDE DEF C, D, bytes
<1>14. D = [C EXCEPT ![name] = IF @ = NoFile THEN <<>> ELSE @]
  BY <1>12
<1>15. offset \in {0, Len(D[name])}
  BY <1>12
<1> HIDE DEF H, G
<1> QED
  BY <1>9, <1>10, <1>14, <1>15 DEF H, G

\* Every call of open is one of the store.
LEMMA OpensMap ==
    ASSUME StrayInv, StrayInv', NEW name \in Name, NEW flags \in OpenFlags, ~ IsOpenAs(name),
           OpenExisting(name, flags) \/ OpenCreates(name, flags) \/ OpenFails(name, flags)
    PROVE  Store!OpenFails \/ \E fd \in Fd : Store!Open(fd, name)
<1>1. /\ View /\ name # NoName /\ call = Idle /\ call' = Idle /\ written' = written
      /\ TypeOK /\ data \in Data /\ data' = data /\ LinkInv /\ inode \in [Fd -> Inode]
      /\ dir \in [Slot -> Entry]
  <2>1. call = Idle /\ call' = Idle /\ written' = written /\ data' = data
    BY DEF OpenExisting, OpenCreates, OpenFails, disk
  <2> QED
    BY <2>1, ViewHolds, FatAssumption DEF StrayInv, SizeInv, ApartInv, LinkInv, Types, TypeOK, Data
<1>2. StoreWritten' = StoreWritten
  BY <1>1 DEF StoreWritten
<1>3. ASSUME StoreContent' = StoreContent, StoreHandle' = StoreHandle, reply' = ERR
      PROVE  Store!OpenFails
  BY <1>2, <1>3 DEF Store!OpenFails, Store!ERR, ERR
<1>4. CASE OpenExisting(name, flags)
  <2>1. PICK fd \in Fd, s \in Slot :
          /\ FreeFd(fd) /\ Found(name, s)
          /\ inode' = [inode EXCEPT ![fd] =
               Opened(flags, IF "O_APPEND" \in flags THEN dir[s].size ELSE 0, name, dir[s])]
          /\ reply' = OK /\ UNCHANGED disk
    BY <1>4 DEF OpenExisting
  <2> DEFINE offset == IF "O_APPEND" \in flags THEN dir[s].size ELSE 0
  <2>2. ~ IsOpen(fd) /\ dir[s].name = name /\ dir[s].size \in Nat /\ UNCHANGED <<dir, data, table>>
    BY <1>1, <2>1 DEF FreeFd, Found, Lowest, disk, Entry
  <2>3. StoreContent[name] = FileBytes(table, data, dir[s].first, dir[s].size)
    BY <1>1, <2>2 DEF View
  <2>4. StoreContent[name] # NoFile
    <3> DEFINE first == dir[s].first
               size == dir[s].size
    <3>1. size \in Nat /\ data \in Data
      BY <1>1, <2>2
    <3> HIDE DEF first, size
    <3>2. FileBytes(table, data, first, size) # NoFile
      BY <3>1, BytesAt
    <3> QED
      BY <2>3, <3>2 DEF first, size
  <2>5. FileBytes(table', data', dir[s].first, dir[s].size)
          = IF StoreContent[name] = NoFile THEN <<>> ELSE StoreContent[name]
    BY <2>2, <2>3, <2>4
  <2>6. offset \in {0, dir[s].size}
    OBVIOUS
  <2> HIDE DEF offset
  <2>7. inode' = [inode EXCEPT ![fd] = Opened(flags, offset, name, dir[s])]
    BY <2>1 DEF offset
  <2>8. \A f \in Files : FileBytes(table', data', f.first, f.size)
                              = FileBytes(table, data, f.first, f.size)
    BY <2>2
  <2>9. \A t \in Slot : dir'[t] = dir[t] \/ (dir[t].name = NoName /\ dir'[t].name = name)
    BY <2>2
  <2> DEFINE entry == dir[s]
  <2>10. /\ entry.name = name /\ entry.size \in Nat /\ offset \in {0, entry.size}
         /\ inode' = [inode EXCEPT ![fd] = Opened(flags, offset, name, entry)]
         /\ FileBytes(table', data', entry.first, entry.size)
               = IF StoreContent[name] = NoFile THEN <<>> ELSE StoreContent[name]
    BY <2>2, <2>5, <2>6, <2>7
  <2>11. call = Idle /\ call' = Idle /\ reply' = OK /\ written' = written /\ ~ IsOpen(fd)
    BY <1>1, <2>1, <2>2
  <2> HIDE DEF entry
  <2>12. Store!Open(fd, name)
    BY <2>8, <2>9, <2>10, <2>11, OpeningMaps
  <2> QED
    BY <2>12
<1>5. CASE OpenCreates(name, flags)
  <2>1. PICK fd \in Fd, s \in Slot, c \in FreeCluster :
          LET entry == [name |-> name, first |-> c, size |-> 0]
          IN /\ FreeFd(fd) /\ ~ Exists(name) /\ FreeSlot(s) /\ c # Bad
             /\ table' = ClusterMarked(table, c)
             /\ \/ /\ dir' = [dir EXCEPT ![s] = entry]
                   /\ inode' = [inode EXCEPT ![fd] = Opened(flags, 0, name, entry)]
                   /\ reply' = OK
                \/ /\ inode' = [inode EXCEPT ![fd] = Opened(flags, 0, name, NoEntry)]
                   /\ reply' = ERR
                   /\ UNCHANGED dir
    BY <1>5 DEF OpenCreates
  <2> DEFINE entry == [name |-> name, first |-> c, size |-> 0]
  <2>2. ~ IsOpen(fd) /\ dir[s].name = NoName
    BY <2>1 DEF FreeFd, FreeSlot, Lowest
  <2>3. \A f \in Files : FileBytes(table', data', f.first, f.size)
                              = FileBytes(table, data, f.first, f.size)
    BY <1>1, <2>1, MarkedKeepsFiles
  <2>4. CASE /\ dir' = [dir EXCEPT ![s] = entry]
             /\ inode' = [inode EXCEPT ![fd] = Opened(flags, 0, name, entry)]
             /\ reply' = OK
    <3>1. StoreContent[name] = NoFile
      BY <1>1, <2>1 DEF View
    <3>2. FileBytes(table', data', c, 0) = <<>>
      BY DEF FileBytes
    <3>3. entry.name = name /\ entry.size \in Nat /\ 0 \in {0, entry.size} /\ entry.first = c /\ entry.size = 0
      OBVIOUS
    <3>4. \A t \in Slot : dir'[t] = dir[t] \/ (dir[t].name = NoName /\ dir'[t].name = name)
      BY <1>1, <2>2, <2>4, <3>3
    <3> HIDE DEF entry
    <3>5. FileBytes(table', data', entry.first, entry.size)
            = IF StoreContent[name] = NoFile THEN <<>> ELSE StoreContent[name]
      BY <3>1, <3>2, <3>3
    <3>6. Store!Open(fd, name)
      BY <1>1, <2>2, <2>3, <2>4, <3>3, <3>4, <3>5, OpeningMaps
    <3> QED
      BY <3>6
  <2>5. CASE /\ inode' = [inode EXCEPT ![fd] = Opened(flags, 0, name, NoEntry)]
             /\ reply' = ERR
             /\ UNCHANGED dir
    <3>1. /\ \A g \in Fd : g # fd => inode'[g] = inode[g]
          /\ ~ IsOpen(fd)'
      BY <1>1, <2>5 DEF IsOpen, Opened, NoEntry
    <3>2. StoreContent' = StoreContent /\ StoreHandle' = StoreHandle
      BY <1>1, <2>2, <2>3, <2>5, <3>1, ClosedContent
    <3> QED
      BY <1>3, <2>5, <3>2
  <2> QED
    BY <2>1, <2>4, <2>5
<1>6. CASE OpenFails(name, flags)
  <2>1. reply' = ERR /\ UNCHANGED <<dir, data, table>>
    BY <1>6 DEF OpenFails, disk
  <2>2. CASE UNCHANGED inode
    <3>1. \A n \in Name : StoreContent'[n] = StoreContent[n]
      BY <1>1, <2>1, <2>2, QuietContent DEF IsOpen
    <3>2. StoreContent' = StoreContent
      <4>1. View /\ View'
        BY ViewHolds, PTL
      <4> QED
        BY <3>1, <4>1, SameContent
    <3>3. StoreHandle' = StoreHandle
      BY <1>1, <2>2 DEF StoreHandle, IsOpen, Readable, Writable
    <3> QED
      BY <1>3, <2>1, <3>2, <3>3
  <2>3. CASE \E fd \in Fd :
               FreeFd(fd) /\ inode' = [inode EXCEPT ![fd] = Opened(flags, 0, name, NoEntry)]
    <3>1. PICK fd \in Fd :
               FreeFd(fd) /\ inode' = [inode EXCEPT ![fd] = Opened(flags, 0, name, NoEntry)]
      BY <2>3
    <3>2. /\ \A g \in Fd : g # fd => inode'[g] = inode[g]
          /\ ~ IsOpen(fd)' /\ ~ IsOpen(fd)
      BY <1>1, <3>1 DEF IsOpen, Opened, NoEntry, FreeFd, Lowest
    <3>3. StoreContent' = StoreContent /\ StoreHandle' = StoreHandle
      BY <1>1, <2>1, <3>2, ClosedContent
    <3> QED
      BY <1>3, <2>1, <3>3
  <2> QED
    BY <1>6, <2>2, <2>3 DEF OpenFails
<1> QED
  BY <1>4, <1>5, <1>6

\* A step that moves the offset of a descriptor.
LEMMA MovesMap ==
    ASSUME StrayInv, StrayInv', call = Idle, call' = Idle, UNCHANGED <<dir, data, table>>,
           NEW fd \in Fd, IsOpen(fd), NEW offset, inode' = [inode EXCEPT ![fd].offset = offset]
    PROVE  /\ StoreContent' = StoreContent
           /\ StoreHandle' = [StoreHandle EXCEPT ![fd].offset = offset]
<1>1. View /\ View'
  BY ViewHolds, PTL
<1>2. inode \in [Fd -> Inode]
  BY DEF StrayInv, SizeInv, ApartInv, LinkInv, Types, TypeOK
<1>3. /\ inode'[fd].offset = offset
      /\ inode'[fd].flags = inode[fd].flags
      /\ \A g \in Fd : inode'[g].entry = inode[g].entry /\ inode'[g].name = inode[g].name
      /\ \A g \in Fd : g # fd => inode'[g] = inode[g]
  BY <1>2 DEF Inode
<1>4. \A name \in Name : StoreContent'[name] = StoreContent[name]
  <2> SUFFICES ASSUME NEW name \in Name PROVE StoreContent'[name] = StoreContent[name]
    OBVIOUS
  <2>1. \A g \in Fd : IsOpen(g)' /\ inode'[g].name = name <=> IsOpen(g) /\ inode[g].name = name
    BY <1>3 DEF IsOpen
  <2>2. \A g \in Fd : IsOpen(g) /\ inode[g].name = name => inode'[g].entry = inode[g].entry
    BY <1>3
  <2> QED
    BY <2>1, <2>2, QuietContent
<1>5. \A g \in Fd : g # fd => StoreHandle'[g] = StoreHandle[g]
  BY <1>3, HandleKept
<1>6. IsOpen(fd)'
  BY <1>3 DEF IsOpen
<1>7. StoreHandle'[fd].offset = offset
  BY <1>3, <1>6, HandleOpenThen
<1>8. StoreHandle' = [StoreHandle EXCEPT ![fd].offset = StoreHandle'[fd].offset]
  BY <1>3, <1>5, <1>6, HandleMoves
<1>9. StoreHandle' = [StoreHandle EXCEPT ![fd].offset = offset]
  BY <1>7, <1>8
<1> QED
  BY <1>1, <1>4, <1>9, SameContent

\* An open descriptor has a handle, which reaches the bytes of its file.
LEMMA OpenHandle ==
    ASSUME StrayInv, call = Idle, NEW fd \in Fd, IsOpen(fd)
    PROVE  LET bytes == FileBytes(table, data, inode[fd].entry.first, inode[fd].entry.size)
           IN /\ StoreHandle[fd] # Closed /\ StoreHandle[fd].readable = Readable(fd)
              /\ StoreHandle[fd].offset = inode[fd].offset
              /\ StoreContent[StoreHandle[fd].name] = bytes
              /\ Len(bytes) = inode[fd].entry.size
<1> DEFINE a == Readable(fd)
           w == Writable(fd)
           H == StoreHandle[fd]
           name == inode[fd].name
           bytes == FileBytes(table, data, inode[fd].entry.first, inode[fd].entry.size)
<1>1. View
  BY ViewHolds
<1>2. H = [name |-> name, readable |-> a, writable |-> w, offset |-> H.offset]
  BY HandleOpen
<1>3. H.offset = inode[fd].offset
  BY HandleOpen
<1>4. name # NoName /\ name \in Name /\ SizeNow(fd) = inode[fd].entry.size
  <2>1. inode[fd].name \in Name
    BY <1>1 DEF View
  <2> HIDE DEF name
  <2>2. inode[fd].name # NoName
    BY <2>1, FatAssumption
  <2>3. SizeNow(fd) = inode[fd].entry.size
    BY DEF SizeNow
  <2> QED
    BY <2>1, <2>2, <2>3 DEF name
<1>5. StoreContent[name] = bytes
  BY <1>1, <1>4 DEF View
<1>6. Len(bytes) = inode[fd].entry.size
  <2>1. data \in Data /\ inode[fd].entry.size \in Nat
    BY OpenFile DEF StrayInv, SizeInv, ApartInv, LinkInv, Types, TypeOK, Data
  <2> QED
    BY <2>1, BytesAt
<1> HIDE DEF a, w, H, name, bytes
<1>7. H # Closed /\ H.readable = a /\ H.name = name
  BY <1>2, <1>4 DEF Closed
<1> QED
  BY <1>3, <1>5, <1>6, <1>7 DEF H, a, name, bytes

\* A read of one run brings the bytes at the offset.
LEMMA ReadMaps ==
    ASSUME StrayInv, StrayInv', NEW fd \in Fd, NEW len \in 0 .. MAX_LEN,
           ReadFile(fd, len), OneRun(fd, len)
    PROVE  Store!Read(fd, len)
<1> DEFINE offset == inode[fd].offset
           first == inode[fd].entry.first
           size == inode[fd].entry.size
           bytes == FileBytes(table, data, first, size)
           buffer == ReadBuffer(first, offset, len)
<1>1. /\ call = Idle /\ call' = Idle /\ UNCHANGED <<dir, data, table, written>>
      /\ IsOpen(fd) /\ Readable(fd) /\ offset + len <= size
      /\ inode' = [inode EXCEPT ![fd].offset = offset + len]
      /\ reply' = [ok |-> TRUE, bytes |-> buffer]
  BY DEF ReadFile, InFile, disk
<1>2. /\ data \in Data /\ size \in Nat /\ offset \in Nat /\ table \in Table
      /\ first \in DOMAIN table
  BY <1>1, OpenFile DEF StrayInv, SizeInv, ApartInv, LinkInv, Types, TypeOK, Data, Inode
<1>3. len \in Nat
  BY FatAssumption
<1>4. buffer = [p \in 1 .. len |-> ByteAt(table, data, first, offset + p)]
  <2>1. LET next == offset \div B + 1
            last == offset \div B + More(offset, len) - 1
        IN \A k \in next \div S .. (last \div S) - 1 :
              Absolute(table, first, k + 1) = Absolute(table, first, k) + 1
    BY DEF OneRun
  <2> HIDE DEF offset, first
  <2>2. ReadBuffer(first, offset, len) = [p \in 1 .. len |-> ByteAt(table, data, first, offset + p)]
    BY <1>2, <1>3, <2>1, ReadRight
  <2> QED
    BY <2>2
<1>5. bytes = [p \in 1 .. size |-> ByteAt(table, data, first, p)] /\ bytes \in Seq(Nat) /\ Len(bytes) = size
  <2> HIDE DEF first, size
  <2> QED
    BY <1>2, BytesAt
<1>6. buffer = SubSeq(bytes, offset + 1, offset + len) /\ Len(buffer) = len
  <2> HIDE DEF bytes, buffer, size, offset, first
  <2>1. \A p \in offset + 1 .. offset + len : p \in 1 .. size /\ bytes[p] \in Nat
    BY <1>1, <1>2, <1>3, <1>5
  <2>2. /\ SubSeq(bytes, offset + 1, offset + len) \in Seq(Nat)
        /\ Len(SubSeq(bytes, offset + 1, offset + len))
             = IF offset + 1 <= offset + len THEN (offset + len) - (offset + 1) + 1 ELSE 0
        /\ \A p \in 1 .. (offset + len) - (offset + 1) + 1 :
              SubSeq(bytes, offset + 1, offset + len)[p] = bytes[(offset + 1) + p - 1]
    <3>1. offset + 1 \in Int /\ offset + len \in Int
      BY <1>2, <1>3
    <3> QED
      BY <2>1, <3>1, SubSeqProperties
  <2> DEFINE part == SubSeq(bytes, offset + 1, offset + len)
  <2> HIDE DEF part
  <2>3. part \in Seq(Nat) /\ Len(part) = len
    BY <1>2, <1>3, <2>2 DEF part
  <2>4. \A p \in 1 .. len : part[p] = bytes[offset + p]
    <3> SUFFICES ASSUME NEW p \in 1 .. len PROVE part[p] = bytes[offset + p]
      OBVIOUS
    <3>1. p \in 1 .. (offset + len) - (offset + 1) + 1 /\ (offset + 1) + p - 1 = offset + p
      BY <1>2, <1>3
    <3> QED
      BY <2>2, <3>1 DEF part
  <2>5. \A p \in 1 .. len : offset + p \in 1 .. size
    BY <1>1, <1>2, <1>3
  <2>6. \A p \in 1 .. len : buffer[p] = bytes[offset + p]
    BY <1>4, <1>5, <2>5
  <2>7. buffer \in Seq(Nat) /\ Len(buffer) = len
    <3>1. \A p \in 1 .. len : buffer[p] \in Nat
      <4> SUFFICES ASSUME NEW p \in 1 .. len PROVE buffer[p] \in Nat
        OBVIOUS
      <4>1. offset + p \in 1 .. Len(bytes)
        BY <1>5, <2>5
      <4>2. bytes[offset + p] \in Nat
        BY <1>5, <4>1, ElementOfSeq
      <4> QED
        BY <2>6, <4>2
    <3> DEFINE v(p) == ByteAt(table, data, first, offset + p)
    <3>2. buffer = [p \in 1 .. len |-> v(p)]
      BY <1>4
    <3> HIDE DEF v
    <3>3. \A p \in 1 .. len : v(p) \in Nat
      BY <3>1, <3>2
    <3> QED
      BY <1>3, <3>2, <3>3
  <2>8. buffer = part
    BY <2>3, <2>4, <2>6, <2>7, SeqEqual
  <2> QED
    BY <2>7, <2>8 DEF part
<1>7. /\ StoreContent' = StoreContent
      /\ StoreHandle' = [StoreHandle EXCEPT ![fd].offset = offset + len]
  <2> DEFINE to == offset + len
  <2>1. inode' = [inode EXCEPT ![fd].offset = to]
    BY <1>1
  <2> HIDE DEF to
  <2>2. StoreContent' = StoreContent /\ StoreHandle' = [StoreHandle EXCEPT ![fd].offset = to]
    BY <1>1, <2>1, MovesMap
  <2> QED
    BY <2>2 DEF to
<1>8. /\ StoreHandle[fd] # Closed /\ StoreHandle[fd].readable /\ StoreHandle[fd].offset = offset
      /\ StoreContent[StoreHandle[fd].name] = bytes
  BY <1>1, OpenHandle
<1>9. StoreWritten' = StoreWritten
  BY <1>1 DEF StoreWritten
<1>10. reply'.ok /\ Len(reply'.bytes) = len
       /\ reply' = [ok |-> TRUE, bytes |-> SubSeq(bytes, offset + 1, offset + len)]
  BY <1>1, <1>6
<1> HIDE DEF bytes, buffer, offset, size
<1>11. offset + len <= Len(bytes)
  BY <1>1, <1>5
<1>12. StoreHandle' = [StoreHandle EXCEPT ![fd].offset = @ + len]
  BY <1>7, <1>8
<1> QED
  BY <1>7, <1>8, <1>9, <1>10, <1>11, <1>12 DEF Store!Read

\* A seek inside the file.
LEMMA SeekMaps ==
    ASSUME StrayInv, StrayInv', NEW fd \in Fd, NEW offset \in 0 .. MAX_OFFSET,
           offset <= inode[fd].entry.size, Seek(fd, offset)
    PROVE  Store!Seek(fd, offset)
<1>1. /\ call = Idle /\ call' = Idle /\ UNCHANGED <<dir, data, table, written>>
      /\ IsOpen(fd) /\ reply' = OK
      /\ inode' = [inode EXCEPT ![fd].offset = offset]
  BY DEF Seek, disk
<1>2. /\ StoreContent' = StoreContent
      /\ StoreHandle' = [StoreHandle EXCEPT ![fd].offset = offset]
  BY <1>1, MovesMap
<1> DEFINE bytes == FileBytes(table, data, inode[fd].entry.first, inode[fd].entry.size)
<1>3. /\ StoreHandle[fd] # Closed /\ StoreContent[StoreHandle[fd].name] = bytes
      /\ Len(bytes) = inode[fd].entry.size
  BY <1>1, OpenHandle
<1> HIDE DEF bytes
<1>4. offset <= Len(StoreContent[StoreHandle[fd].name])
  BY <1>3
<1>5. StoreWritten' = StoreWritten
  BY <1>1 DEF StoreWritten
<1> QED
  BY <1>1, <1>2, <1>3, <1>4, <1>5 DEF Store!Seek, Store!OK, OK

\* A descriptor closed: its file keeps its bytes.
LEMMA CloseMaps ==
    ASSUME CARD_FAILS = FALSE, StrayInv, StrayInv', NEW fd \in Fd, IsOpen(fd), Close(fd)
    PROVE  Store!Close(fd) \/ Store!OpenFails
<1>0. PICK n : n = inode[fd].name
  OBVIOUS
<1>1. /\ View /\ View' /\ inode \in [Fd -> Inode] /\ dir \in [Slot -> Entry]
  <2>1. View /\ View'
    BY ViewHolds, PTL
  <2> QED
    BY <2>1 DEF StrayInv, SizeInv, ApartInv, LinkInv, Types, TypeOK
<1>2. call = Idle /\ call' = Idle /\ UNCHANGED <<data, table, written>>
  BY DEF Close
<1>3. StoreWritten' = StoreWritten
  BY <1>2 DEF StoreWritten
<1>4. CASE UNCHANGED <<dir, inode>> /\ reply' = ERR
  <2>1. \A name \in Name : StoreContent'[name] = StoreContent[name]
    BY <1>2, <1>4, QuietContent DEF IsOpen
  <2>2. StoreContent' = StoreContent
    BY <1>1, <2>1, SameContent
  <2>3. StoreHandle' = StoreHandle
    BY <1>2, <1>4 DEF StoreHandle, IsOpen, Readable, Writable
  <2> QED
    BY <1>3, <1>4, <2>2, <2>3 DEF Store!OpenFails, Store!ERR, ERR
<1>5. CASE \E s \in Slot : /\ Found(n, s) /\ dir' = [dir EXCEPT ![s] = inode[fd].entry]
                           /\ inode' = [inode EXCEPT ![fd].entry = NoEntry] /\ reply' = OK
  <2>1. PICK s \in Slot : /\ dir[s].name = n /\ dir' = [dir EXCEPT ![s] = inode[fd].entry]
                          /\ inode' = [inode EXCEPT ![fd].entry = NoEntry] /\ reply' = OK
    BY <1>5 DEF Found, Lowest
  <2>2. /\ inode'[fd].entry.name = NoName /\ inode'[fd].name = n
        /\ \A g \in Fd : g # fd => inode'[g] = inode[g]
        /\ dir'[s] = inode[fd].entry /\ \A t \in Slot : t # s => dir'[t] = dir[t]
    BY <1>0, <1>1, <2>1 DEF NoEntry, Inode
  <2>3. ~ IsOpen(fd)' /\ inode[fd].entry.name = n /\ n \in Name /\ n # NoName
    <3>1. inode[fd].entry.name = n /\ n \in Name
      BY <1>0, <1>1 DEF View
    <3>2. ~ IsOpen(fd)'
      BY <2>2 DEF IsOpen
    <3> QED
      BY <3>1, <3>2, FatAssumption
  <2>4. ASSUME NEW name \in Name, name # n PROVE StoreContent'[name] = StoreContent[name]
    <3>1. \A g \in Fd : IsOpen(g)' /\ inode'[g].name = name <=> IsOpen(g) /\ inode[g].name = name
      BY <1>0, <2>2, <2>4 DEF IsOpen
    <3>2. \A g \in Fd : IsOpen(g) /\ inode[g].name = name => inode'[g].entry = inode[g].entry
      BY <1>0, <2>2, <2>4
    <3>3. \A t \in Slot : dir[t].name = name \/ dir'[t].name = name => dir'[t] = dir[t]
      BY <2>1, <2>2, <2>3, <2>4
    <3> QED
      BY <1>2, <3>1, <3>2, <3>3, QuietContent
  <2>5. StoreContent'[n] = StoreContent[n]
    <3>1. StoreContent[n] = FileBytes(table, data, inode[fd].entry.first, inode[fd].entry.size)
      BY <1>0, <1>1, <1>2 DEF View, SizeNow
    <3>2. ~ IsOpenAs(n)'
      <4> SUFFICES ASSUME NEW g \in Fd, IsOpen(g)', inode'[g].name = n PROVE FALSE
        BY DEF IsOpenAs
      <4>1. g # fd /\ inode'[g] = inode[g]
        BY <2>2, <2>3
      <4>2. IsOpen(g) /\ inode[g].entry.name = n
        BY <1>1, <4>1 DEF IsOpen, View
      <4> QED
        BY <2>3, <4>1, <4>2 DEF StrayInv, SizeInv, OneHandle
    <3>3. StoreContent'[n] = FileBytes(table', data', dir'[s].first, dir'[s].size)
      BY <1>1, <2>2, <2>3, <3>2 DEF View
    <3> QED
      BY <1>2, <2>2, <3>1, <3>3
  <2>6. StoreContent' = StoreContent
    <3>1. \A name \in Name : StoreContent'[name] = StoreContent[name]
      BY <2>4, <2>5
    <3> QED
      BY <1>1, <3>1, SameContent
  <2>7. StoreHandle' = [StoreHandle EXCEPT ![fd] = Closed]
    <3>1. StoreHandle'[fd] = Closed
      BY <2>3 DEF StoreHandle
    <3>2. \A g \in Fd : g # fd => StoreHandle'[g] = StoreHandle[g]
      BY <1>2, <2>2, HandleKept
    <3> QED
      BY <3>1, <3>2, HandleFunction
  <2>8. StoreHandle[fd] # Closed
    BY <1>2, OpenHandle
  <2> QED
    BY <1>3, <2>1, <2>6, <2>7, <2>8 DEF Store!Close, Store!OK, OK
<1>6. CardOutcome = {TRUE}
  BY DEF CardOutcome
<1> QED
  BY <1>0, <1>4, <1>5, <1>6 DEF Close

\* A call refused by a file, or a step that is none.
LEMMA RefusedMaps ==
    ASSUME StrayInv, StrayInv', UNCHANGED <<disk, inode, call, written>>
    PROVE  StoreContent' = StoreContent /\ StoreHandle' = StoreHandle /\ StoreWritten' = StoreWritten
<1>1. dir' = dir /\ data' = data /\ table' = table /\ inode' = inode /\ call' = call /\ written' = written
  BY DEF disk
<1>2. StoreWritten' = StoreWritten
  BY <1>1 DEF StoreWritten
<1>3. StoreHandle' = StoreHandle
  BY <1>1, Zenon DEF StoreHandle, IsOpen, Readable, Writable
<1>4. StoreContent' = StoreContent
  <2>1. View /\ View'
    BY ViewHolds, PTL
  <2>2. \A fd \in Fd : SizeNow(fd)' = SizeNow(fd) /\ (IsOpen(fd)' <=> IsOpen(fd))
    BY <1>1 DEF SizeNow, IsOpen
  <2>3. \A name \in Name : StoreContent'[name] = StoreContent[name]
    BY <1>1, <2>2, ContentKept
  <2> QED
    BY <2>1, <2>3, SameContent
<1> QED
  BY <1>2, <1>3, <1>4

\* The store begins empty, and no descriptor open.
LEMMA StoreBegins == Init => Store!Init
<1> SUFFICES ASSUME Init PROVE Store!Init
  OBVIOUS
<1>1. View
  BY StoreInvInit, ViewHolds DEF StoreInv
<1>2. \A fd \in Fd : ~ IsOpen(fd)
  <2>1. \A fd \in Fd : inode[fd].entry.name = NoName
    BY DEF Init, NoEntry
  <2> QED
    BY <2>1 DEF IsOpen
<1>3. \A s \in Slot : dir[s].name = NoName
  BY DEF Init, NoEntry
<1>4. StoreContent = [name \in Name |-> NoFile]
  <2>1. \A name \in Name : ~ IsOpenAs(name) /\ ~ Exists(name)
    <3> SUFFICES ASSUME NEW name \in Name PROVE ~ IsOpenAs(name) /\ ~ Exists(name)
      OBVIOUS
    <3>1. name # NoName
      BY FatAssumption
    <3> QED
      BY <1>2, <1>3, <3>1 DEF IsOpenAs, Exists
  <2>2. \A name \in Name : StoreContent[name] = NoFile
    BY <1>1, <2>1 DEF View
  <2> QED
    BY <1>1, <2>2 DEF View
<1>5. StoreHandle = [fd \in Fd |-> Closed]
  BY <1>2 DEF StoreHandle
<1>6. StoreWritten = 0 /\ reply = Store!OK
  BY DEF Init, StoreWritten, OK, Store!OK
<1> QED
  BY <1>4, <1>5, <1>6 DEF Store!Init

\* Every step of the file system is one of the store, or none.
LEMMA StepsMap ==
    ASSUME CARD_FAILS = FALSE, SmallCard
    PROVE  StoreInv /\ StoreInv' /\ [CarefulNext]_vars => [Promised => Store!Next]_(Store!vars)
<1> SUFFICES ASSUME StoreInv, StoreInv', [CarefulNext]_vars, Promised PROVE [Store!Next]_(Store!vars)
  OBVIOUS
<1> DEFINE Mapped == [Store!Next]_(Store!vars)
<1>1. StrayInv /\ StrayInv' /\ strayed' = {}
  BY DEF StoreInv, Promised
<1>2. ASSUME NEW name \in Name, NEW flags \in OpenFlags, ~ IsOpenAs(name),
             OpenExisting(name, flags) \/ OpenCreates(name, flags) \/ OpenFails(name, flags)
      PROVE  Mapped
  BY <1>1, <1>2, OpensMap DEF Store!Next
<1>3. ASSUME NEW fd \in Fd, IsOpen(fd), Close(fd) PROVE Mapped
  BY <1>1, <1>3, CloseMaps DEF Store!Next
<1>4. ASSUME NEW fd \in Fd, NEW len \in 0 .. MAX_LEN, WriteFails(fd) \/ ReadFails(fd, len)
      PROVE  Mapped
  <2>1. reply' = ERR /\ UNCHANGED <<disk, inode, call, written>>
    BY <1>4 DEF WriteFails, ReadFails
  <2>2. Store!OpenFails
    BY <1>1, <2>1, RefusedMaps DEF Store!OpenFails, Store!ERR, ERR
  <2> QED
    BY <2>2 DEF Store!Next
<1>5. ASSUME NEW fd \in Fd, NEW len \in 0 .. MAX_LEN, CarefulWrite(fd, len), WriteFile(fd, len)
      PROVE  Mapped
  BY <1>1, <1>5, FileMaps DEF Store!Next
<1>6. ASSUME NEW fd \in Fd, NEW len \in 0 .. MAX_LEN, ReadFile(fd, len) PROVE Mapped
  BY <1>1, <1>6, ReadMaps DEF Store!Next, Promised
<1>7. ASSUME WriteOn PROVE Mapped
  <2>1. CallStored
    BY <1>1, <1>7, OnStaysInside DEF StoreInv
  <2>2. call.fd \in Fd /\ call.len \in 0 .. MAX_LEN
    BY <1>1, <1>7, <2>1, CarefulOn DEF StrayInv, CallStored
  <2>3. Store!Write(call.fd, call.len) \/ UNCHANGED Store!vars
    BY <1>1, <1>7, <2>1, OnMaps
  <2> QED
    BY <2>2, <2>3 DEF Store!Next
<1>8. ASSUME NEW fd \in Fd, NEW offset \in 0 .. MAX_OFFSET,
             offset <= inode[fd].entry.size, Seek(fd, offset)
      PROVE  Mapped
  BY <1>1, <1>8, SeekMaps DEF Store!Next
<1>9. ASSUME UNCHANGED vars PROVE Mapped
  <2>1. reply' = reply /\ UNCHANGED <<disk, inode, call, written>>
    BY <1>9 DEF vars, disk
  <2>2. UNCHANGED Store!vars
    BY <1>1, <2>1, RefusedMaps DEF Store!vars
  <2> QED
    BY <2>2
<1>10. Mapped
  <2> HIDE DEF Mapped
  <2>1. 0 \in 0 .. MAX_LEN
    BY FatAssumption
  <2> QED
    BY <1>2, <1>3, <1>4, <1>5, <1>6, <1>7, <1>8, <1>9, <2>1 DEF CarefulNext
<1> QED
  BY <1>10

\* The same of a behaviour.
LEMMA StoreMaps ==
    ASSUME CARD_FAILS = FALSE, SmallCard
    PROVE  CarefulSpec => StoreKept
<1>1. StoreInv /\ [CarefulNext]_vars => StoreInv'
  BY CarefulKeepsStored
<1>2. CarefulSpec => []StoreInv
  BY <1>1, StoreInvInit, PTL DEF CarefulSpec
<1>3. StoreInv /\ StoreInv' /\ [CarefulNext]_vars => [Promised => Store!Next]_(Store!vars)
  BY StepsMap
<1> QED
  BY <1>2, <1>3, StoreBegins, PTL DEF CarefulSpec, StoreKept

\* When programs are careful and the card does not fail, every step but a read
\* of several runs is one of the abstract store, until a block is written behind
\* the data area, in files, writes and reads of any length: a read returns what
\* was written there, through whichever blocks and clusters, after closing and
\* opening again too, and a write that finds the card full leaves a part of its
\* bytes at the end of its file and every other file as it was (fat_open_file,
\* fat_close_file, fat_read_file, fat_write_file).
THEOREM FilesAreStored ==
    ASSUME CARD_FAILS = FALSE, CLUSTERS < 65534
    PROVE  CarefulSpec => StoreKept
<1>1. SmallCard
  BY DEF SmallCard
<1> QED
  BY <1>1, StoreMaps, PTL

=============================================================================
