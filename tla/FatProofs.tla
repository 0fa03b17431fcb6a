----------------------------- MODULE FatProofs -----------------------------
(***************************************************************************)
(* Proofs about the file system for every card, every geometry and every   *)
(* program, with descriptors opened twice, closed twice and sought         *)
(* anywhere: what a block, a read or a call is made of stays in range      *)
(* even where a chain ends early or a write leads off the card; no cluster *)
(* of two files, no name of two entries; and chains that keep apart.       *)
(***************************************************************************)
EXTENDS FatProperties, WellFoundedInduction, TLAPS

\* The call between two blocks has a descriptor, and its first block behind it.
CallBegun == call # Idle => call.fd \in Fd /\ call.i > 0

Types == TypeOK /\ CallBegun

----------------------------------------------------------------------------
(* Division by the size of a block. *)

LEMMA InBlock ==
    ASSUME NEW a \in Nat
    PROVE  /\ a \div B \in Nat /\ a % B \in Nat /\ a % B < B
           /\ a = B * (a \div B) + (a % B)
  BY FatAssumption DEF B

LEMMA BlockBehind ==
    ASSUME NEW a \in Nat, NEW i \in Nat, i > 0
    PROVE  (a \div B + i) * B \in Nat /\ (a \div B + i) * B >= a
<1> DEFINE q == a \div B
<1>1. q \in Nat /\ a % B \in Nat /\ a % B < B /\ a = B * q + (a % B) /\ B \in Nat
  BY InBlock, FatAssumption DEF B
<1> HIDE DEF q
<1>2. (q + i) * B = B * q + i * B /\ i * B >= B /\ i * B \in Nat /\ B * q \in Nat
  BY <1>1, SMTT(30)
<1> QED
  BY <1>1, <1>2 DEF q

LEMMA FirstFits ==
    ASSUME NEW offset \in Nat, NEW len \in Nat
    PROVE  /\ InFirst(offset, len) \in Nat
           /\ \A k \in Nat : k < InFirst(offset, len) => (offset % B) + k \in 0 .. B - 1
<1>1. offset % B \in Nat /\ offset % B < B /\ B \in Nat
  BY InBlock, FatAssumption DEF B
<1> QED
  BY <1>1 DEF InFirst

LEMMA LastFits ==
    ASSUME NEW offset \in Nat, NEW len \in Nat
    PROVE  InLast(offset, len) \in Nat /\ InLast(offset, len) <= B
<1>1. /\ offset % B \in Nat /\ offset % B < B /\ B \in Nat
      /\ len % B \in Nat /\ len % B < B
  BY InBlock, FatAssumption DEF B
<1> QED
  BY <1>1 DEF InLast

LEMMA MoreCounts ==
    ASSUME NEW offset \in Nat, NEW len \in Nat
    PROVE  More(offset, len) \in Nat
  BY InBlock DEF More

----------------------------------------------------------------------------
(* Blocks and bytes. *)

LEMMA ContentsTyped ==
    ASSUME data \in [0 .. CLUSTERS * S - 1 -> Block], NEW sector
    PROVE  Contents(data, sector) \in Block
  BY DEF Contents, Block, Blank

LEMMA ByteTyped ==
    ASSUME data \in [0 .. CLUSTERS * S - 1 -> Block], NEW sector, NEW k \in 0 .. B - 1
    PROVE  Contents(data, sector)[k] \in Nat
  BY ContentsTyped DEF Block

LEMMA BufferTyped ==
    ASSUME data \in [0 .. CLUSTERS * S - 1 -> Block],
           NEW first, NEW offset \in Nat, NEW len \in Nat
    PROVE  ReadBuffer(first, offset, len) \in Seq(Nat)
<1> DEFINE n == offset \div B
           more == More(offset, len)
           head == InFirst(offset, len)
           Byte(sector, k) == Contents(data, sector)[k]
           One(block) == Transfer(first, block, 1)[1]
           middle == IF more > 1 THEN Transfer(first, n + 1, more - 1) ELSE <<>>
           behind == head + B * (IF more > 1 THEN more - 1 ELSE 0)
           At(k) == IF k < head THEN Byte(One(n), (offset % B) + k)
                    ELSE IF more > 0 /\ behind <= k /\ k < behind + InLast(offset, len)
                    THEN Byte(One(n + more), k - behind)
                    ELSE IF (k - head) \div B < Len(middle)
                    THEN Byte(middle[(k - head) \div B + 1], (k - head) % B)
                    ELSE 0
<1>a. head \in Nat /\ more \in Nat /\ B \in Nat
  <2>1. head \in Nat
    BY FirstFits
  <2>2. more \in Nat
    BY MoreCounts
  <2>3. B \in Nat
    BY FatAssumption DEF B
  <2> QED
    BY <2>1, <2>2, <2>3
<1>b. behind \in Nat
  <2> DEFINE whole == IF more > 1 THEN more - 1 ELSE 0
  <2> HIDE DEF head, more
  <2>1. whole \in Nat
    BY <1>a
  <2> HIDE DEF whole
  <2>2. B * whole \in Nat
    BY <1>a, <2>1
  <2>3. head + B * whole \in Nat
    BY <1>a, <2>2
  <2> QED
    BY <2>3 DEF whole
<1>1. head \in Nat /\ more \in Nat /\ B \in Nat /\ behind \in Nat
  BY <1>a, <1>b
<1>2. ASSUME NEW k \in Nat PROVE At(k) \in Nat
  <2>1. ASSUME k < head PROVE Byte(One(n), (offset % B) + k) \in Nat
    BY <2>1, FirstFits, ByteTyped
  <2>2. ASSUME behind <= k, k < behind + InLast(offset, len)
        PROVE  Byte(One(n + more), k - behind) \in Nat
    <3> DEFINE length == InLast(offset, len)
    <3>0. length \in Nat /\ length <= B
      BY LastFits
    <3> HIDE DEF behind, length
    <3>1. k - behind \in 0 .. B - 1
      BY <1>a, <1>b, <2>2, <3>0 DEF length
    <3> QED
      BY <3>1, ByteTyped
  <2>3. ASSUME ~ k < head
        PROVE  Byte(middle[(k - head) \div B + 1], (k - head) % B) \in Nat
    <3> HIDE DEF head
    <3>1. k - head \in Nat
      BY <1>1, <2>3
    <3>2. (k - head) % B \in 0 .. B - 1
      BY <1>1, <3>1, InBlock
    <3> QED
      BY <3>2, ByteTyped
  <2> HIDE DEF Byte, One, middle, behind, head, more, n
  <2> QED
    BY <2>1, <2>2, <2>3
<1>3. ReadBuffer(first, offset, len) = [p \in 1 .. len |-> At(p - 1)]
  BY DEF ReadBuffer
<1> HIDE DEF At
<1>4. \A p \in 1 .. len : At(p - 1) \in Nat
  BY <1>2
<1> QED
  BY <1>3, <1>4

LEMMA SeekTyped ==
    ASSUME NEW record \in Inode, NEW offset \in Nat
    PROVE  [record EXCEPT !.offset = offset] \in Inode
  BY DEF Inode

----------------------------------------------------------------------------
(* Induction.                                                              *)
(*                                                                         *)
(* Absolute follows a chain link by link.  What it does for every number   *)
(* of links is had from a least counterexample, as an induction over a set *)
(* of numbers.                                                             *)

Below == {pair \in Nat \X Nat : pair[1] < pair[2]}

\* Numbers do not descend forever.
LEMMA BelowIsWellFounded == IsWellFoundedOn(Below, Nat)
  BY NatLessThanWellFounded, Zenon DEF OpToRel, Below

\* A set of numbers has a least one.
LEMMA LeastOf ==
    ASSUME NEW T, T \subseteq Nat, T # {}
    PROVE  \E n \in T : \A m \in T : n <= m
<1>1. PICK n \in T : \A m \in T : <<m, n>> \notin Below
  BY BelowIsWellFounded, WFMin, Zenon
<1>2. ASSUME NEW m \in T PROVE n <= m
  <2>1. m \in Nat /\ n \in Nat /\ <<m, n>> \in Nat \X Nat
    OBVIOUS
  <2>2. ~ (<<m, n>>[1] < <<m, n>>[2])
    BY <1>1, <2>1, Zenon DEF Below
  <2> QED
    BY <2>1, <2>2
<1> QED
  BY <1>2

\* Induction for a set of numbers.
LEMMA AllNumbers ==
    ASSUME NEW P, 0 \in P, \A n \in Nat : n \in P => n + 1 \in P
    PROVE  Nat \subseteq P
<1> DEFINE T == Nat \ P
<1>1. SUFFICES ASSUME T # {} PROVE FALSE
  OBVIOUS
<1>2. PICK n \in T : \A m \in T : n <= m
  BY <1>1, LeastOf
<1>3. n \in Nat /\ n # 0 /\ n - 1 \in Nat /\ n - 1 \notin T
  BY <1>2
<1> QED
  BY <1>2, <1>3

----------------------------------------------------------------------------
(* The links of a chain. *)

Follow(t, c) == IF c \in DOMAIN t THEN t[c] ELSE Bad

IsWalk(t, first, n, w) ==
    w = [k \in 0 .. n |-> IF k = 0 THEN first ELSE Follow(t, w[k - 1])]

\* There is the function of all clusters up to the n-th, ...
LEMMA WalkExists ==
    ASSUME NEW t, NEW first
    PROVE  \A n \in Nat : \E w : IsWalk(t, first, n, w)
<1> DEFINE P == {n \in Nat : \E w : IsWalk(t, first, n, w)}
<1>1. 0 \in P
  <2>1. IsWalk(t, first, 0, [k \in 0 .. 0 |-> first])
    BY DEF IsWalk
  <2> QED
    BY <2>1
<1>2. ASSUME NEW n \in Nat, n \in P PROVE n + 1 \in P
  <2>1. PICK w : IsWalk(t, first, n, w)
    BY <1>2
  <2> DEFINE v == [k \in 0 .. n + 1 |-> IF k = n + 1 THEN Follow(t, w[n]) ELSE w[k]]
  <2>2. DOMAIN w = 0 .. n /\ \A k \in 0 .. n : w[k] = IF k = 0 THEN first ELSE Follow(t, w[k - 1])
    BY <2>1 DEF IsWalk
  <2>3. ASSUME NEW k \in 0 .. n + 1
        PROVE  v[k] = IF k = 0 THEN first ELSE Follow(t, v[k - 1])
    <3>1. CASE k = n + 1
      <4>1. n \in 0 .. n + 1 /\ n # n + 1 /\ k # 0 /\ k - 1 = n
        BY <3>1
      <4> QED
        BY <3>1, <4>1
    <3>2. CASE k # n + 1
      <4>1. k \in 0 .. n /\ (k # 0 => k - 1 \in 0 .. n + 1 /\ k - 1 # n + 1 /\ k - 1 \in 0 .. n)
        BY <3>2
      <4> QED
        BY <2>2, <3>2, <4>1
    <3> QED
      BY <3>1, <3>2
  <2>4. v = [k \in 0 .. n + 1 |-> v[k]]
    OBVIOUS
  <2>5. [k \in 0 .. n + 1 |-> v[k]]
          = [k \in 0 .. n + 1 |-> IF k = 0 THEN first ELSE Follow(t, v[k - 1])]
    BY <2>3
  <2>6. IsWalk(t, first, n + 1, v)
    <3> HIDE DEF v
    <3> QED
      BY <2>4, <2>5, Zenon DEF IsWalk
  <2> HIDE DEF v
  <2> QED
    BY <2>6
<1> HIDE DEF P
<1>3. Nat \subseteq P
  BY <1>1, <1>2, AllNumbers
<1> QED
  BY <1>3 DEF P

\* ... and it is the longer one's beginning.
LEMMA WalksAgree ==
    ASSUME NEW t, NEW first, NEW m \in Nat, NEW n \in Nat, NEW v, NEW w,
           IsWalk(t, first, m, v), IsWalk(t, first, n, w)
    PROVE  \A k \in Nat : k <= m /\ k <= n => v[k] = w[k]
<1> DEFINE P == {k \in Nat : k <= m /\ k <= n => v[k] = w[k]}
<1>1. /\ \A k \in 0 .. m : v[k] = IF k = 0 THEN first ELSE Follow(t, v[k - 1])
      /\ \A k \in 0 .. n : w[k] = IF k = 0 THEN first ELSE Follow(t, w[k - 1])
  BY DEF IsWalk
<1>2. 0 \in P
  BY <1>1
<1>3. ASSUME NEW k \in Nat, k \in P PROVE k + 1 \in P
  <2>1. SUFFICES ASSUME k + 1 <= m, k + 1 <= n PROVE v[k + 1] = w[k + 1]
    OBVIOUS
  <2>2. v[k] = w[k] /\ k + 1 \in 0 .. m /\ k + 1 \in 0 .. n /\ k + 1 # 0 /\ (k + 1) - 1 = k
    BY <1>3, <2>1
  <2> QED
    BY <1>1, <2>2
<1> HIDE DEF P
<1>4. Nat \subseteq P
  BY <1>2, <1>3, AllNumbers
<1> QED
  BY <1>4 DEF P

\* Absolute follows the links, one after the other.
LEMMA AbsoluteSteps ==
    ASSUME NEW t, NEW first
    PROVE  /\ Absolute(t, first, 0) = first
           /\ \A n \in Nat : Absolute(t, first, n + 1) = Follow(t, Absolute(t, first, n))
<1> DEFINE W(n) == CHOOSE w : IsWalk(t, first, n, w)
<1>1. \A n \in Nat : IsWalk(t, first, n, W(n))
  BY WalkExists
<1>2. \A n \in Nat : Absolute(t, first, n) = W(n)[n]
  BY DEF Absolute, IsWalk, Follow
<1> HIDE DEF W
<1>3. Absolute(t, first, 0) = first
  BY <1>1, <1>2 DEF IsWalk
<1>4. ASSUME NEW n \in Nat
      PROVE  Absolute(t, first, n + 1) = Follow(t, Absolute(t, first, n))
  <2>1. W(n + 1)[n + 1] = Follow(t, W(n + 1)[n])
    BY <1>1 DEF IsWalk
  <2>2. W(n + 1)[n] = W(n)[n]
    BY <1>1, WalksAgree
  <2> QED
    BY <1>2, <2>1, <2>2
<1> QED
  BY <1>3, <1>4

----------------------------------------------------------------------------
(* Where a chain can lead. *)

Table == [0 .. ENTRIES - 1 -> 0 .. ENTRIES - 1 \cup {END}]
Data == [0 .. CLUSTERS * S - 1 -> Block]

\* The entries of the table, END and Bad are three different things.
LEMMA TableNumbers ==
    /\ END \notin 0 .. ENTRIES - 1 /\ Bad \notin 0 .. ENTRIES - 1 /\ END # 0 /\ END # Bad
    /\ \A t \in Table : DOMAIN t = 0 .. ENTRIES - 1
  BY FatAssumption DEF END, Bad, Table

\* To a cluster of the table, to its end, or off it.
LEMMA AbsoluteTyped ==
    ASSUME NEW t \in Table, NEW first \in DOMAIN t
    PROVE  \A k \in Nat : Absolute(t, first, k) \in DOMAIN t \cup {END, Bad}
<1> DEFINE P == {k \in Nat : Absolute(t, first, k) \in DOMAIN t \cup {END, Bad}}
<1>1. 0 \in P
  BY AbsoluteSteps
<1>2. ASSUME NEW k \in Nat, k \in P PROVE k + 1 \in P
  <2>1. Follow(t, Absolute(t, first, k)) \in DOMAIN t \cup {END, Bad}
    BY TableNumbers DEF Follow, Table
  <2>2. Absolute(t, first, k + 1) = Follow(t, Absolute(t, first, k))
    BY AbsoluteSteps
  <2> QED
    BY <2>1, <2>2
<1> HIDE DEF P
<1>3. Nat \subseteq P
  BY <1>1, <1>2, AllNumbers
<1> QED
  BY <1>3 DEF P

----------------------------------------------------------------------------
(* What a block written makes of the card and the cluster table. *)

Strays == SUBSET Nat
Result == [table : Table, data : Data, strayed : Strays, ok : BOOLEAN]

LEMMA MarkedTyped ==
    ASSUME NEW t \in Table, NEW c
    PROVE  ClusterMarked(t, c) \in Table
  BY DEF ClusterMarked, Table

LEMMA FreeTyped ==
    ASSUME TypeOK, NEW c \in FreeCluster
    PROVE  c = Bad \/ (c \in 0 .. ENTRIES - 1 /\ table[c] = 0)
  BY DEF FreeCluster, Lowest, Free, TypeOK

\* What a block strays to is a number of a cluster, or the end of a chain.
LEMMA StrayTyped ==
    ASSUME NEW t \in Table, NEW s \in Strays, NEW first \in 0 .. ENTRIES - 1, NEW k \in Nat,
           Absolute(t, first, k) # Bad
    PROVE  s \cup {Absolute(t, first, k)} \in Strays
<1>1. DOMAIN t = 0 .. ENTRIES - 1
  BY TableNumbers
<1>2. Absolute(t, first, k) \in 0 .. ENTRIES - 1 \cup {END}
  BY <1>1, AbsoluteTyped
<1>3. ENTRIES \in Nat /\ END \in Nat
  BY FatAssumption DEF END
<1>4. Absolute(t, first, k) \in Nat
  BY <1>2, <1>3
<1> QED
  BY <1>4 DEF Strays

\* A file has a cluster for each of its blocks, or too few.
LEMMA PlaceTyped ==
    ASSUME NEW n \in Nat
    PROVE  n \div S \in Nat /\ Before(n) \in Nat
  BY FatAssumption DEF S, Before

LEMMA WriteBlockTyped ==
    ASSUME TypeOK, NEW t \in Table, NEW s \in Strays, NEW first \in 0 .. ENTRIES - 1, NEW n \in Nat,
           NEW block \in Block, NEW card \in BOOLEAN
    PROVE  WriteBlock(t, s, first, n, block, card) \in Result
<1> DEFINE cluster == Absolute(t, first, n \div S)
           sector == Sector(cluster, n)
<1>1. data \in Data
  BY DEF TypeOK, Data
<1>2. ASSUME sector \in DOMAIN data PROVE [data EXCEPT ![sector] = block] \in Data
  <2> HIDE DEF sector
  <2> QED
    BY <1>1, <1>2 DEF Data
<1>3. WriteBlock(t, s, first, n, block, card) =
        IF cluster = Bad \/ ~ card THEN State(t, data, s, FALSE)
        ELSE IF sector \in DOMAIN data THEN State(t, [data EXCEPT ![sector] = block], s, TRUE)
        ELSE State(t, data, s \cup {cluster}, TRUE)
  BY DEF WriteBlock
<1>4. cluster # Bad => s \cup {cluster} \in Strays
  BY PlaceTyped, StrayTyped
<1> HIDE DEF cluster, sector
<1> QED
  BY <1>1, <1>2, <1>3, <1>4 DEF State, Result

LEMMA LinkedTyped ==
    ASSUME TypeOK, NEW c \in FreeCluster, NEW first \in 0 .. ENTRIES - 1, NEW size \in Nat
    PROVE  Linked(table, strayed, first, size, c) \in Result
<1> DEFINE marked == ClusterMarked(table, c)
           last == LinkFrom(marked, first, size)
<1>1. data \in Data /\ table \in Table /\ strayed \in Strays
  BY DEF TypeOK, Data, Table, Strays
<1>2. marked \in Table
  BY <1>1, MarkedTyped
<1>3. Linked(table, strayed, first, size, c) =
        IF c = Bad THEN State(table, data, strayed, FALSE)
        ELSE IF last = Bad THEN State(marked, data, strayed, FALSE)
        ELSE IF last \in DOMAIN table THEN State([marked EXCEPT ![last] = c], data, strayed, TRUE)
        ELSE State(marked, data, strayed \cup {last}, TRUE)
  BY DEF Linked
<1>4. last # Bad => strayed \cup {last} \in Strays
  <2>1. size \div B \in Nat
    BY InBlock
  <2>2. Before((size \div B) \div S) \in Nat
    BY <2>1, PlaceTyped
  <2>3. last = Absolute(marked, first, Before((size \div B) \div S))
    BY DEF LinkFrom
  <2> HIDE DEF marked, last
  <2> QED
    BY <1>1, <1>2, <2>2, <2>3, StrayTyped
<1> HIDE DEF marked, last
<1>5. c # Bad => [marked EXCEPT ![last] = c] \in Table
  BY <1>2, FreeTyped DEF Table
<1> QED
  BY <1>1, <1>2, <1>3, <1>4, <1>5 DEF State, Result

LEMMA AppendTyped ==
    ASSUME TypeOK, NEW c \in FreeCluster, NEW first \in 0 .. ENTRIES - 1, NEW size \in Nat,
           NEW block \in Block, NEW card \in BOOLEAN
    PROVE  AppendBlock(first, size, block, card, c) \in Result
<1> DEFINE n == BlocksOf(size)
           linked == IF n % S = 0 THEN Linked(table, strayed, first, size, c)
                     ELSE State(table, data, strayed, TRUE)
<1>1. data \in Data /\ table \in Table /\ strayed \in Strays
  BY DEF TypeOK, Data, Table, Strays
<1>2. State(table, data, strayed, TRUE) \in Result
  BY <1>1 DEF State, Result
<1>3. linked \in Result
  BY <1>2, LinkedTyped
<1>4. AppendBlock(first, size, block, card, c) =
        IF linked.ok THEN WriteBlock(linked.table, linked.strayed, first, n, block, card)
        ELSE linked
  BY DEF AppendBlock
<1>5. n \in Nat
  <2>1. B \in Nat \ {0}
    BY FatAssumption DEF B
  <2>2. size + B - 1 \in Nat
    BY <2>1
  <2> QED
    BY <2>2, InBlock DEF BlocksOf
<1> HIDE DEF linked, n
<1>6. linked.table \in Table /\ linked.strayed \in Strays
  BY <1>3 DEF Result
<1> QED
  BY <1>3, <1>4, <1>5, <1>6, WriteBlockTyped

----------------------------------------------------------------------------
(* Every step. *)

LEMMA TypesInit == Init => Types
<1> SUFFICES ASSUME Init PROVE Types
  OBVIOUS
<1>1. NoEntry \in Entry /\ Blank \in Block
  BY FatAssumption DEF NoEntry, Entry, Blank, Block
<1>2. [flags |-> {}, offset |-> 0, name |-> NoName, entry |-> NoEntry] \in Inode
  BY <1>1 DEF Inode
<1>3. Idle \in Call /\ OK \in [ok : BOOLEAN, bytes : Seq(Nat)]
  BY DEF Idle, Call, OK
<1>4. table \in [0 .. ENTRIES - 1 -> 0 .. ENTRIES - 1 \cup {END}]
  BY FatAssumption DEF Init, END
<1> QED
  BY <1>1, <1>2, <1>3, <1>4 DEF Init, Types, TypeOK, CallBegun

LEMMA CardTyped == CardOutcome \subseteq BOOLEAN
  BY DEF CardOutcome

LEMMA ReplyTyped == OK \in [ok : BOOLEAN, bytes : Seq(Nat)] /\ ERR \in [ok : BOOLEAN, bytes : Seq(Nat)]
  BY DEF OK, ERR

LEMMA OpenedTyped ==
    ASSUME NEW flags \in OpenFlags, NEW offset \in Nat, NEW name \in Name, NEW entry \in Entry
    PROVE  Opened(flags, offset, name, entry) \in Inode
  BY DEF Opened, Inode

LEMMA NoEntryTyped == NoEntry \in Entry
  BY FatAssumption DEF NoEntry, Entry

LEMMA OpensKeepTypes ==
    ASSUME Types, NEW name \in Name, NEW flags \in OpenFlags,
           OpenExisting(name, flags) \/ OpenCreates(name, flags) \/ OpenFails(name, flags)
    PROVE  Types'
<1> USE DEF Types
<1>1. CASE OpenExisting(name, flags)
  <2>1. PICK fd \in Fd, s \in Slot :
          inode' = [inode EXCEPT ![fd] =
            Opened(flags, IF "O_APPEND" \in flags THEN dir[s].size ELSE 0, name, dir[s])]
    BY <1>1 DEF OpenExisting
  <2>2. dir[s] \in Entry /\ dir[s].size \in Nat
    BY DEF TypeOK, Entry
  <2>3. inode' \in [Fd -> Inode]
    BY <2>1, <2>2, OpenedTyped DEF TypeOK
  <2> QED
    BY <1>1, <2>3, ReplyTyped DEF OpenExisting, TypeOK, CallBegun, disk
<1>2. CASE OpenCreates(name, flags)
  <2>1. PICK fd \in Fd, s \in Slot, c \in FreeCluster :
          /\ c # Bad
          /\ table' = ClusterMarked(table, c)
          /\ LET entry == [name |-> name, first |-> c, size |-> 0]
             IN \E card \in CardOutcome :
                  \/ /\ dir' = [dir EXCEPT ![s] = entry]
                     /\ inode' = [inode EXCEPT ![fd] = Opened(flags, 0, name, entry)]
                     /\ reply' = OK
                  \/ /\ inode' = [inode EXCEPT ![fd] = Opened(flags, 0, name, NoEntry)]
                     /\ reply' = ERR
                     /\ UNCHANGED dir
          /\ UNCHANGED <<data, strayed, call, written>>
    BY <1>2 DEF OpenCreates
  <2> DEFINE entry == [name |-> name, first |-> c, size |-> 0]
  <2>2. entry \in Entry
    BY <2>1, FreeTyped DEF Entry
  <2>3. table' \in Table
    BY <2>1, MarkedTyped DEF TypeOK, Table
  <2>4. inode' \in [Fd -> Inode] /\ dir' \in [Slot -> Entry]
        /\ reply' \in [ok : BOOLEAN, bytes : Seq(Nat)]
    <3> HIDE DEF entry
    <3>1. Opened(flags, 0, name, entry) \in Inode /\ Opened(flags, 0, name, NoEntry) \in Inode
      BY <2>2, NoEntryTyped, OpenedTyped
    <3>2. \/ /\ dir' = [dir EXCEPT ![s] = entry]
             /\ inode' = [inode EXCEPT ![fd] = Opened(flags, 0, name, entry)]
             /\ reply' = OK
          \/ /\ inode' = [inode EXCEPT ![fd] = Opened(flags, 0, name, NoEntry)]
             /\ reply' = ERR
             /\ UNCHANGED dir
      BY <2>1 DEF entry
    <3> QED
      BY <2>2, <3>1, <3>2, ReplyTyped DEF TypeOK
  <2> HIDE DEF entry
  <2> QED
    BY <2>1, <2>3, <2>4 DEF TypeOK, CallBegun, Table
<1>3. CASE OpenFails(name, flags)
  <2>1. \/ UNCHANGED inode
        \/ \E fd \in Fd : inode' = [inode EXCEPT ![fd] = Opened(flags, 0, name, NoEntry)]
    BY <1>3 DEF OpenFails
  <2>2. inode' \in [Fd -> Inode]
    BY <2>1, NoEntryTyped, OpenedTyped DEF TypeOK
  <2> QED
    BY <1>3, <2>2, ReplyTyped DEF OpenFails, TypeOK, CallBegun, disk
<1> QED
  BY <1>1, <1>2, <1>3

LEMMA CloseKeepsTypes ==
    ASSUME Types, NEW fd \in Fd, Close(fd)
    PROVE  Types'
<1> USE DEF Types
<1>1. inode[fd] \in Inode /\ inode[fd].entry \in Entry
  BY DEF TypeOK, Inode
<1>2. [inode[fd] EXCEPT !.entry = NoEntry] \in Inode
  BY <1>1, NoEntryTyped DEF Inode
<1>3. \/ UNCHANGED <<dir, inode>>
      \/ /\ \/ UNCHANGED dir
            \/ \E s \in Slot : dir' = [dir EXCEPT ![s] = inode[fd].entry]
         /\ inode' = [inode EXCEPT ![fd].entry = NoEntry]
  BY DEF Close
<1>4. reply' \in [ok : BOOLEAN, bytes : Seq(Nat)]
  BY ReplyTyped DEF Close
<1>5. dir' \in [Slot -> Entry]
  BY <1>1, <1>3 DEF TypeOK
<1>6. inode' \in [Fd -> Inode]
  BY <1>2, <1>3 DEF TypeOK
<1> QED
  BY <1>4, <1>5, <1>6 DEF Close, TypeOK, CallBegun

\* A block written, whatever became of it.
LEMMA WroteKeepsTypes ==
    ASSUME Types, NEW fd \in Fd, NEW result \in Result, NEW offset \in Nat, NEW size \in Nat,
           NEW next \in Call, next.fd \in Fd, next.i > 0, NEW last \in BOOLEAN,
           Wrote(fd, result, offset, size), Continue(next, result, last), written' \in Nat
    PROVE  Types'
<1> USE DEF Types
<1>1. table' \in Table /\ data' \in Data /\ strayed' \in Strays /\ UNCHANGED dir
  BY DEF Wrote, Result
<1> DEFINE moved == [inode EXCEPT ![fd].offset = offset]
<1>2. moved \in [Fd -> Inode]
  BY DEF TypeOK, Inode
<1>3. inode' = [moved EXCEPT ![fd].entry.size = IF result.ok THEN size ELSE @]
  BY DEF Wrote
<1> HIDE DEF moved
<1>4. moved[fd] \in Inode /\ moved[fd].entry \in Entry
  BY <1>2 DEF Inode
<1>5. inode' \in [Fd -> Inode]
  <2> DEFINE set == IF result.ok THEN size ELSE moved[fd].entry.size
  <2>1. set \in Nat
    BY <1>4 DEF Entry
  <2>2. inode' = [moved EXCEPT ![fd].entry.size = set]
    BY <1>3
  <2> HIDE DEF set
  <2>3. [moved[fd].entry EXCEPT !.size = set] \in Entry
    BY <1>4, <2>1 DEF Entry
  <2>4. [moved[fd] EXCEPT !.entry.size = set] \in Inode
    BY <1>4, <2>3 DEF Inode
  <2> QED
    BY <1>2, <2>2, <2>4
<1>6. call' \in Call /\ CallBegun'
  BY DEF Continue, Idle, Call, CallBegun
<1>7. reply' \in [ok : BOOLEAN, bytes : Seq(Nat)]
  <2>1. UNCHANGED reply \/ reply' = [ok |-> result.ok, bytes |-> <<>>]
    BY DEF Continue
  <2>2. <<>> \in Seq(Nat) /\ result.ok \in BOOLEAN
    BY DEF Result
  <2>3. [ok |-> result.ok, bytes |-> <<>>] \in [ok : BOOLEAN, bytes : Seq(Nat)]
    BY <2>2, Zenon
  <2>4. reply \in [ok : BOOLEAN, bytes : Seq(Nat)]
    BY DEF TypeOK
  <2> QED
    BY <2>1, <2>3, <2>4
<1> QED
  BY <1>1, <1>5, <1>6, <1>7 DEF TypeOK, Table, Data, Strays

LEMMA WriteFileKeepsTypes ==
    ASSUME Types, NEW fd \in Fd, NEW len \in Nat, WriteFile(fd, len)
    PROVE  Types'
<1> USE DEF Types
<1> DEFINE entry == inode[fd].entry
           offset == inode[fd].offset
           n == offset \div B
           cluster == Absolute(table, entry.first, n \div S)
           end == offset + InFirst(offset, len)
           old == Contents(data, Sector(cluster, n))
           Put(k) == LET place == n * B + k
                     IN IF offset <= place /\ place < end
                        THEN written + place - offset + 1 ELSE old[k]
           block == [k \in 0 .. B - 1 |-> Put(k)]
           overwrites == entry.size = 0 \/ end <= entry.size \/ offset % B > 0
           next == [fd |-> fd, len |-> len, i |-> 1, from |-> offset,
                    size |-> entry.size, base |-> written]
           size == IF overwrites /\ end <= entry.size THEN entry.size ELSE end
           more == More(offset, len)
<1>1. inode[fd] \in Inode /\ offset \in Nat /\ entry.size \in Nat /\ written \in Nat
  BY DEF TypeOK, Inode, Entry
<1>2. end \in Nat
  <2>1. InFirst(offset, len) \in Nat
    BY <1>1, FirstFits
  <2> HIDE DEF offset
  <2> QED
    BY <1>1, <2>1
<1>3. size \in Nat
  BY <1>1, <1>2
<1>4. next \in Call /\ next.fd \in Fd /\ next.i > 0
  BY <1>1 DEF Call
<1>5. block \in Block
  <2>1. ASSUME NEW k \in 0 .. B - 1 PROVE Put(k) \in Nat
    <3>1. old[k] \in Nat
      BY ByteTyped DEF TypeOK
    <3>2. n * B + k \in Int
      <4>1. n \in Nat
        BY <1>1, InBlock
      <4>2. B \in Nat
        BY FatAssumption DEF B
      <4> HIDE DEF n
      <4> QED
        BY <4>1, <4>2
    <3> DEFINE place == n * B + k
    <3> HIDE DEF old, n, end, offset, place
    <3> QED
      BY <1>1, <3>1, <3>2 DEF place
  <2> HIDE DEF Put
  <2> QED
    BY <2>1 DEF Block
<1>6. PICK card \in CardOutcome, c \in FreeCluster :
        LET result == IF overwrites
                      THEN WriteBlock(table, strayed, entry.first, n, block, card)
                      ELSE AppendBlock(entry.first, entry.size, block, card, c)
        IN Wrote(fd, result, end, size) /\ Continue(next, result, more = 0)
  BY DEF WriteFile
<1> DEFINE result == IF overwrites
                     THEN WriteBlock(table, strayed, entry.first, n, block, card)
                     ELSE AppendBlock(entry.first, entry.size, block, card, c)
<1>7. result \in Result
  <2>1. table \in Table /\ strayed \in Strays /\ card \in BOOLEAN
    BY CardTyped DEF TypeOK, Table, Strays
  <2>2. entry.first \in 0 .. ENTRIES - 1 /\ entry.size \in Nat
    BY <1>1 DEF Inode, Entry
  <2>3. n \in Nat
    BY <1>1, InBlock
  <2> HIDE DEF block, n, entry, overwrites
  <2>4. WriteBlock(table, strayed, entry.first, n, block, card) \in Result
    BY <1>5, <2>1, <2>2, <2>3, WriteBlockTyped
  <2>5. AppendBlock(entry.first, entry.size, block, card, c) \in Result
    BY <1>5, <2>1, <2>2, AppendTyped
  <2> QED
    BY <2>4, <2>5
<1>8. Wrote(fd, result, end, size) /\ Continue(next, result, more = 0)
  BY <1>6
<1>9. written' \in Nat
  <2>1. written' = written + len
    BY DEF WriteFile
  <2> QED
    BY <1>1, <2>1
<1> HIDE DEF result, end, size, next, more
<1> QED
  BY <1>2, <1>3, <1>4, <1>7, <1>8, <1>9, WroteKeepsTypes

LEMMA WriteOnKeepsTypes ==
    ASSUME Types, WriteOn
    PROVE  Types'
<1> USE DEF Types
<1> DEFINE fd == call.fd
           entry == inode[fd].entry
           last == call.i = More(call.from, call.len)
           n == call.from \div B + call.i
           end == IF last THEN call.from + call.len ELSE (n + 1) * B
           Put(k) == IF n * B + k < end THEN call.base + n * B + k - call.from + 1 ELSE 0
           block == [k \in 0 .. B - 1 |-> Put(k)]
           next == [call EXCEPT !.i = @ + 1]
           size == IF end < entry.size THEN entry.size ELSE end
<1>1. /\ call \in Call /\ fd \in Fd /\ call.i \in Nat /\ call.i > 0
      /\ call.from \in Nat /\ call.len \in Nat /\ call.base \in Nat /\ written \in Nat
      /\ B \in Nat
  BY FatAssumption DEF TypeOK, CallBegun, Call, WriteOn, B
<1>2. inode[fd] \in Inode /\ entry.size \in Nat
  BY <1>1 DEF TypeOK, Inode, Entry
<1>3. n \in Nat /\ n * B \in Nat /\ n * B >= call.from /\ (n + 1) * B \in Nat
  <2>1. call.from \div B \in Nat
    BY <1>1, InBlock
  <2>2. n \in Nat
    BY <1>1, <2>1
  <2>3. n * B \in Nat /\ n * B >= call.from
    BY <1>1, BlockBehind
  <2> HIDE DEF n
  <2>4. (n + 1) * B \in Nat
    BY <1>1, <2>2
  <2> QED
    BY <2>2, <2>3, <2>4
<1>4. end \in Nat
  <2> HIDE DEF n, last
  <2> QED
    BY <1>1, <1>3
<1>5. size \in Nat
  <2> HIDE DEF end
  <2> QED
    BY <1>2, <1>4
<1>6. next \in Call /\ next.fd \in Fd /\ next.i > 0
  BY <1>1 DEF Call
<1>7. block \in Block
  <2>1. ASSUME NEW k \in 0 .. B - 1 PROVE Put(k) \in Nat
    <3> DEFINE start == n * B
    <3>1. start \in Nat /\ start >= call.from
      BY <1>3
    <3> HIDE DEF start, end
    <3>2. call.base + start + k - call.from + 1 \in Nat
      BY <1>1, <3>1
    <3> QED
      BY <3>2 DEF start
  <2> HIDE DEF Put
  <2> QED
    BY <2>1 DEF Block
<1>8. PICK card \in CardOutcome, c \in FreeCluster :
        LET result == IF end < entry.size
                      THEN WriteBlock(table, strayed, entry.first, n, block, card)
                      ELSE AppendBlock(entry.first, entry.size, block, card, c)
        IN Wrote(fd, result, end, size) /\ Continue(next, result, last)
  BY DEF WriteOn
<1> DEFINE result == IF end < entry.size
                     THEN WriteBlock(table, strayed, entry.first, n, block, card)
                     ELSE AppendBlock(entry.first, entry.size, block, card, c)
<1>9. result \in Result
  <2>1. table \in Table /\ strayed \in Strays /\ card \in BOOLEAN
    BY CardTyped DEF TypeOK, Table, Strays
  <2>2. entry.first \in 0 .. ENTRIES - 1 /\ entry.size \in Nat
    BY <1>2 DEF Inode, Entry
  <2>3. n \in Nat
    BY <1>3
  <2> HIDE DEF block, n, entry, end
  <2>4. WriteBlock(table, strayed, entry.first, n, block, card) \in Result
    BY <1>7, <2>1, <2>2, <2>3, WriteBlockTyped
  <2>5. AppendBlock(entry.first, entry.size, block, card, c) \in Result
    BY <1>7, <2>1, <2>2, AppendTyped
  <2> QED
    BY <2>4, <2>5
<1>10. Wrote(fd, result, end, size) /\ Continue(next, result, last)
  BY <1>8
<1>11. written' \in Nat /\ last \in BOOLEAN
  BY <1>1 DEF WriteOn
<1> HIDE DEF result, end, size, next, last, fd
<1> QED
  BY <1>1, <1>4, <1>5, <1>6, <1>9, <1>10, <1>11, WroteKeepsTypes

\* A step that changes no more than the offset of one descriptor and the reply.
LEMMA SoughtKeepsTypes ==
    ASSUME Types, UNCHANGED <<disk, call, written>>,
           NEW fd \in Fd, NEW offset \in Nat,
           inode' = inode \/ inode' = [inode EXCEPT ![fd].offset = offset],
           reply' \in [ok : BOOLEAN, bytes : Seq(Nat)]
    PROVE  Types'
<1>1. inode[fd] \in Inode /\ inode \in [Fd -> Inode]
  BY DEF Types, TypeOK
<1>2. [inode[fd] EXCEPT !.offset = offset] \in Inode
  BY <1>1, SeekTyped
<1>3. inode' \in [Fd -> Inode]
  BY <1>1, <1>2
<1> QED
  BY <1>3 DEF Types, TypeOK, CallBegun, disk

LEMMA ReadsKeepTypes ==
    ASSUME Types, NEW fd \in Fd, NEW len \in Nat,
           ReadFails(fd, len) \/ ReadFile(fd, len) \/ ReadPastEnd(fd, len)
    PROVE  Types'
<1>1. inode[fd].offset \in Nat /\ inode[fd].offset + len \in Nat
  BY DEF Types, TypeOK, Inode
<1>2. CASE ReadFails(fd, len)
  BY <1>1, <1>2, ReplyTyped, SoughtKeepsTypes DEF ReadFails
<1>3. CASE ReadFile(fd, len)
  <2> DEFINE bytes == ReadBuffer(inode[fd].entry.first, inode[fd].offset, len)
  <2>1. bytes \in Seq(Nat)
    BY <1>1, BufferTyped DEF Types, TypeOK
  <2>2. reply' = [ok |-> TRUE, bytes |-> bytes] /\ UNCHANGED <<disk, call, written>>
        /\ inode' = [inode EXCEPT ![fd].offset = inode[fd].offset + len]
    BY <1>3 DEF ReadFile
  <2> HIDE DEF bytes
  <2> QED
    BY <1>1, <2>1, <2>2, SoughtKeepsTypes
<1>4. CASE ReadPastEnd(fd, len)
  <2>1. [k \in 1 .. len |-> 0] \in Seq(Nat)
    OBVIOUS
  <2>2. /\ UNCHANGED <<disk, call, written>>
        /\ \/ /\ reply' = [ok |-> TRUE, bytes |-> [k \in 1 .. len |-> 0]]
              /\ inode' = [inode EXCEPT ![fd].offset = inode[fd].offset + len]
           \/ reply' = ERR /\ UNCHANGED inode
    BY <1>4 DEF ReadPastEnd
  <2>3. [ok |-> TRUE, bytes |-> [k \in 1 .. len |-> 0]] \in [ok : BOOLEAN, bytes : Seq(Nat)]
    BY <2>1, Zenon
  <2>4. reply' \in [ok : BOOLEAN, bytes : Seq(Nat)]
    BY <2>2, <2>3, ReplyTyped
  <2> QED
    BY <1>1, <2>2, <2>4, SoughtKeepsTypes
<1> QED
  BY <1>2, <1>3, <1>4

LEMMA SeekKeepsTypes ==
    ASSUME Types, NEW fd \in Fd, NEW offset \in Nat, Seek(fd, offset)
    PROVE  Types'
  BY ReplyTyped, SoughtKeepsTypes DEF Seek

LEMMA WriteFailsKeepsTypes ==
    ASSUME Types, NEW fd \in Fd, WriteFails(fd)
    PROVE  Types'
  BY ReplyTyped DEF WriteFails, Types, TypeOK, CallBegun, disk

LEMMA NextKeepsTypes == Types /\ [Next]_vars => Types'
<1> SUFFICES ASSUME Types, [Next]_vars PROVE Types'
  OBVIOUS
<1>1. ASSUME NEW name \in Name, NEW flags \in OpenFlags,
             OpenExisting(name, flags) \/ OpenCreates(name, flags) \/ OpenFails(name, flags)
      PROVE  Types'
  BY <1>1, OpensKeepTypes
<1>2. ASSUME NEW fd \in Fd, Close(fd) \/ WriteFails(fd)
      PROVE  Types'
  BY <1>2, CloseKeepsTypes, WriteFailsKeepsTypes
<1>3. ASSUME NEW fd \in Fd, NEW len \in 0 .. MAX_LEN,
             WriteFile(fd, len) \/ ReadFails(fd, len) \/ ReadFile(fd, len) \/ ReadPastEnd(fd, len)
      PROVE  Types'
  <2>1. len \in Nat
    OBVIOUS
  <2> QED
    BY <1>3, <2>1, WriteFileKeepsTypes, ReadsKeepTypes
<1>4. CASE WriteOn
  BY <1>4, WriteOnKeepsTypes
<1>5. ASSUME NEW fd \in Fd, NEW offset \in 0 .. MAX_OFFSET, Seek(fd, offset)
      PROVE  Types'
  <2>1. offset \in Nat
    OBVIOUS
  <2> QED
    BY <1>5, <2>1, SeekKeepsTypes
<1>6. CASE UNCHANGED vars
  BY <1>6 DEF vars, disk, Types, TypeOK, CallBegun
<1> QED
  BY <1>1, <1>2, <1>3, <1>4, <1>5, <1>6 DEF Next

\* The directory, the blocks, the cluster table and the descriptors hold what
\* their C types can, whatever programs do and wherever the card fails.
THEOREM FileTypes == Spec => []TypeOK
<1>1. Spec => []Types
  BY TypesInit, NextKeepsTypes, PTL DEF Spec
<1>2. Types => TypeOK
  BY DEF Types
<1> QED
  BY <1>1, <1>2, PTL

----------------------------------------------------------------------------
(* Clusters and names.                                                     *)
(*                                                                         *)
(* The argument needs nothing about where a chain leads: a cluster that is *)
(* linked was free, so nothing refers to it, and whatever cluster it is    *)
(* linked to, it is referred to once.  Cluster 0 must never be free: a     *)
(* link to it would read as a free entry.                                  *)

LinkInv == Types /\ table[0] # 0 /\ NoCrossLinks

LEMMA LinkInvInit == Init => LinkInv
<1> SUFFICES ASSUME Init PROVE LinkInv
  OBVIOUS
<1>1. Types
  BY TypesInit
<1>2. Files = {}
  BY DEF Init, Files, Entries, NoEntry
<1>3. \A c \in DOMAIN table : table[c] \in {0, END}
  BY DEF Init
<1>4. table[0] # 0
  BY FatAssumption DEF Init, END
<1> QED
  BY <1>1, <1>2, <1>3, <1>4 DEF LinkInv, NoCrossLinks, OneLink, OneFirst, FirstIsFirst, NoneFree

\* Files whose names and first clusters were there before.
OldFiles == \A f \in Files' : \E g \in Files : f.name = g.name /\ f.first = g.first

LEMMA SameLinks ==
    ASSUME NoCrossLinks, OldFiles, UNCHANGED table
    PROVE  NoCrossLinks'
<1> USE DEF NoCrossLinks, OldFiles
<1>1. OneLink'
  BY DEF OneLink
<1>2. OneFirst'
  BY DEF OneFirst
<1>3. FirstIsFirst'
  BY DEF FirstIsFirst
<1>4. NoneFree'
  BY DEF NoneFree
<1> QED
  BY <1>1, <1>2, <1>3, <1>4

\* A file has its first cluster in the table.
LEMMA FileTyped ==
    ASSUME TypeOK, NEW f \in Files
    PROVE  f \in Entry /\ f.first \in DOMAIN table
  BY DEF TypeOK, Files, Entries, Entry, Inode

\* A free cluster is marked.
LEMMA MarkedLinks ==
    ASSUME LinkInv, OldFiles, NEW c \in DOMAIN table, table[c] = 0,
           table' = [table EXCEPT ![c] = END]
    PROVE  NoCrossLinks' /\ table'[0] # 0
<1> USE DEF LinkInv, NoCrossLinks, OldFiles
<1>1. END \notin DOMAIN table /\ END # 0 /\ DOMAIN table' = DOMAIN table /\ DOMAIN table \subseteq Nat
  BY FatAssumption DEF Types, TypeOK, END
<1>2. \A d \in DOMAIN table : table'[d] = IF d = c THEN END ELSE table[d]
  OBVIOUS
<1>3. OneLink'
  BY <1>1, <1>2 DEF OneLink
<1>4. OneFirst'
  BY DEF OneFirst
<1>5. \A f \in Files' : f.first \in DOMAIN table /\ table[f.first] # 0
  BY FileTyped DEF Types, NoneFree
<1>6. FirstIsFirst'
  BY <1>1, <1>2, <1>5 DEF FirstIsFirst
<1>7. \A d \in DOMAIN table : table[d] \notin {0, END} => table[d] \in DOMAIN table
  BY DEF Types, TypeOK
<1>8. NoneFree'
  BY <1>1, <1>2, <1>5, <1>7 DEF NoneFree
<1>9. table'[0] # 0
  BY <1>1, <1>2 DEF Types, TypeOK
<1> QED
  BY <1>3, <1>4, <1>6, <1>8, <1>9

\* A free cluster is marked and linked to any cluster there is, which may be
\* itself as far as this argument knows.
LEMMA LinkedLinks ==
    ASSUME LinkInv, OldFiles, NEW c \in DOMAIN table, table[c] = 0, NEW last \in DOMAIN table,
           table' = [[table EXCEPT ![c] = END] EXCEPT ![last] = c]
    PROVE  NoCrossLinks' /\ table'[0] # 0
<1> USE DEF LinkInv, NoCrossLinks, OldFiles
<1>1. /\ END \notin DOMAIN table /\ END # 0 /\ DOMAIN table' = DOMAIN table
      /\ c # 0 /\ c # END
  BY FatAssumption DEF Types, TypeOK, END
<1>2. \A d \in DOMAIN table : table'[d] = IF d = last THEN c ELSE IF d = c THEN END ELSE table[d]
  OBVIOUS
<1>3. \A d \in DOMAIN table : table[d] # c
  BY <1>1 DEF NoneFree
<1>4. OneLink'
  BY <1>1, <1>2, <1>3 DEF OneLink
<1>5. OneFirst'
  BY DEF OneFirst
<1>6. \A f \in Files' : f.first \in DOMAIN table /\ table[f.first] # 0 /\ f.first # c
  BY FileTyped DEF Types, NoneFree
<1>7. FirstIsFirst'
  BY <1>1, <1>2, <1>6 DEF FirstIsFirst
<1>8. \A d \in DOMAIN table : table[d] \notin {0, END} => table[d] \in DOMAIN table
  BY DEF Types, TypeOK
<1>9. NoneFree'
  BY <1>1, <1>2, <1>6, <1>8 DEF NoneFree
<1>10. table'[0] # 0
  BY <1>1, <1>2 DEF Types, TypeOK
<1> QED
  BY <1>4, <1>5, <1>7, <1>9, <1>10

\* A free cluster is marked, and the first one of a new file.
LEMMA CreatedLinks ==
    ASSUME LinkInv, NEW name, NEW c \in DOMAIN table, table[c] = 0,
           \A f \in Files' : \/ f.first = c /\ f.name = name
                             \/ \E g \in Files : f.name = g.name /\ f.first = g.first,
           table' = [table EXCEPT ![c] = END]
    PROVE  NoCrossLinks' /\ table'[0] # 0
<1> USE DEF LinkInv, NoCrossLinks
<1>1. /\ END \notin DOMAIN table /\ END # 0 /\ DOMAIN table' = DOMAIN table
      /\ c # 0 /\ c # END
  BY FatAssumption DEF Types, TypeOK, END
<1>2. \A d \in DOMAIN table : table'[d] = IF d = c THEN END ELSE table[d]
  OBVIOUS
<1>3. \A d \in DOMAIN table : table[d] # c
  BY <1>1 DEF NoneFree
<1>4. OneLink'
  BY <1>1, <1>2 DEF OneLink
<1>5. \A g \in Files : g.first \in DOMAIN table /\ table[g.first] # 0 /\ g.first # c
  BY FileTyped DEF Types, NoneFree
<1>6. OneFirst'
  BY <1>5 DEF OneFirst
<1>7. \A f \in Files' : f.first \in DOMAIN table /\ (f.first = c \/ table[f.first] # 0)
  BY <1>5
<1>8. FirstIsFirst'
  <2> SUFFICES ASSUME NEW f \in Files', NEW d \in DOMAIN table PROVE table'[d] # f.first
    BY <1>1 DEF FirstIsFirst
  <2>1. CASE f.first = c
    BY <1>1, <1>2, <1>3, <2>1
  <2>2. CASE f.first # c
    BY <1>1, <1>2, <1>7, <2>2 DEF FirstIsFirst
  <2> QED
    BY <2>1, <2>2
<1>9. \A d \in DOMAIN table : table[d] \notin {0, END} => table[d] \in DOMAIN table
  BY DEF Types, TypeOK
<1>10. NoneFree'
  BY <1>1, <1>2, <1>7, <1>9 DEF NoneFree
<1>11. table'[0] # 0
  BY <1>1, <1>2 DEF Types, TypeOK
<1> QED
  BY <1>4, <1>6, <1>8, <1>10, <1>11

----------------------------------------------------------------------------
(* The steps. *)

\* The entries an operation may have put in the place of others.
LEMMA DescriptorsOnly ==
    ASSUME dir' = dir, inode \in [Fd -> Inode], inode' \in [Fd -> Inode],
           \A fd \in Fd : \/ inode'[fd].entry.name = NoName
                          \/ /\ inode'[fd].entry.name = inode[fd].entry.name
                             /\ inode'[fd].entry.first = inode[fd].entry.first
                          \/ \E s \in Slot : inode'[fd].entry = dir[s]
    PROVE  OldFiles
<1> SUFFICES ASSUME NEW f \in Files'
             PROVE  \E g \in Files : f.name = g.name /\ f.first = g.first
  BY DEF OldFiles
<1>1. f.name # NoName /\ (f \in {dir[s] : s \in Slot} \/ \E fd \in Fd : f = inode'[fd].entry)
  BY DEF Files, Entries
<1>2. ASSUME f \in {dir[s] : s \in Slot} PROVE f \in Files
  BY <1>1, <1>2 DEF Files, Entries
<1>3. ASSUME NEW fd \in Fd, f = inode'[fd].entry
      PROVE  \E g \in Files : f.name = g.name /\ f.first = g.first
  <2>1. CASE \E s \in Slot : inode'[fd].entry = dir[s]
    BY <1>2, <1>3, <2>1
  <2>2. CASE f.name = inode[fd].entry.name /\ f.first = inode[fd].entry.first
    <3>1. inode[fd].entry \in Files
      BY <1>1, <2>2 DEF Files, Entries
    <3> QED
      BY <2>2, <3>1
  <2> QED
    BY <1>1, <1>3, <2>1, <2>2
<1> QED
  BY <1>1, <1>2, <1>3

LEMMA SameFiles ==
    ASSUME LinkInv, UNCHANGED <<dir, table>>,
           \A fd \in Fd : \/ inode'[fd].entry.name = NoName
                          \/ /\ inode'[fd].entry.name = inode[fd].entry.name
                             /\ inode'[fd].entry.first = inode[fd].entry.first
                          \/ \E s \in Slot : inode'[fd].entry = dir[s],
           Types'
    PROVE  LinkInv'
<1>1. inode \in [Fd -> Inode] /\ inode' \in [Fd -> Inode]
  BY DEF LinkInv, Types, TypeOK
<1>2. OldFiles
  BY <1>1, DescriptorsOnly
<1> QED
  BY <1>2, SameLinks DEF LinkInv

LEMMA OpensKeepLinks ==
    ASSUME LinkInv, Types', NEW name \in Name, NEW flags \in OpenFlags,
           OpenExisting(name, flags) \/ OpenCreates(name, flags) \/ OpenFails(name, flags)
    PROVE  LinkInv'
<1>0. inode \in [Fd -> Inode] /\ inode' \in [Fd -> Inode] /\ dir \in [Slot -> Entry]
  BY DEF LinkInv, Types, TypeOK
<1>1. CASE OpenExisting(name, flags)
  <2>1. PICK fd \in Fd, s \in Slot :
          inode' = [inode EXCEPT ![fd] =
            Opened(flags, IF "O_APPEND" \in flags THEN dir[s].size ELSE 0, name, dir[s])]
    BY <1>1 DEF OpenExisting
  <2>2. inode'[fd].entry = dir[s] /\ \A g \in Fd : g # fd => inode'[g] = inode[g]
    BY <1>0, <2>1 DEF Opened
  <2>3. UNCHANGED <<dir, table>>
    BY <1>1 DEF OpenExisting, disk
  <2> QED
    BY <2>2, <2>3, SameFiles
<1>2. CASE OpenCreates(name, flags)
  <2>1. PICK fd \in Fd, s \in Slot, c \in FreeCluster :
          /\ c # Bad
          /\ table' = ClusterMarked(table, c)
          /\ LET entry == [name |-> name, first |-> c, size |-> 0]
             IN \/ /\ dir' = [dir EXCEPT ![s] = entry]
                   /\ inode' = [inode EXCEPT ![fd] = Opened(flags, 0, name, entry)]
                \/ /\ inode' = [inode EXCEPT ![fd] = Opened(flags, 0, name, NoEntry)]
                   /\ UNCHANGED dir
    BY <1>2 DEF OpenCreates
  <2>2. c \in DOMAIN table /\ table[c] = 0 /\ table' = [table EXCEPT ![c] = END]
    BY <2>1, FreeTyped DEF LinkInv, Types, TypeOK, ClusterMarked
  <2>3. CASE /\ dir' = [dir EXCEPT ![s] = [name |-> name, first |-> c, size |-> 0]]
             /\ inode' = [inode EXCEPT ![fd] =
                            Opened(flags, 0, name, [name |-> name, first |-> c, size |-> 0])]
    <3>1. /\ inode'[fd].entry = [name |-> name, first |-> c, size |-> 0]
          /\ \A g \in Fd : g # fd => inode'[g] = inode[g]
      BY <1>0, <2>3 DEF Opened
    <3>2. /\ dir'[s] = [name |-> name, first |-> c, size |-> 0]
          /\ \A t \in Slot : t # s => dir'[t] = dir[t]
      BY <1>0, <2>3
    <3>3. \A f \in Files' : f = [name |-> name, first |-> c, size |-> 0] \/ f \in Files
      BY <3>1, <3>2 DEF Files, Entries
    <3>4. \A f \in Files' : \/ f.first = c /\ f.name = name
                            \/ \E g \in Files : f.name = g.name /\ f.first = g.first
      BY <3>3
    <3>5. NoCrossLinks' /\ table'[0] # 0
      BY <2>2, <3>4, CreatedLinks
    <3> QED
      BY <3>5 DEF LinkInv
  <2>4. CASE inode' = [inode EXCEPT ![fd] = Opened(flags, 0, name, NoEntry)] /\ UNCHANGED dir
    <3>1. inode'[fd].entry.name = NoName /\ \A g \in Fd : g # fd => inode'[g] = inode[g]
      BY <1>0, <2>4 DEF Opened, NoEntry
    <3>2. OldFiles
      BY <1>0, <2>4, <3>1, DescriptorsOnly
    <3> QED
      BY <2>2, <3>2, MarkedLinks DEF LinkInv
  <2> QED
    BY <2>1, <2>3, <2>4
<1>3. CASE OpenFails(name, flags)
  <2>1. \/ UNCHANGED inode
        \/ \E fd \in Fd : inode' = [inode EXCEPT ![fd] = Opened(flags, 0, name, NoEntry)]
    BY <1>3 DEF OpenFails
  <2>2. \A g \in Fd : inode'[g].entry.name = NoName \/ inode'[g] = inode[g]
    BY <1>0, <2>1 DEF Opened, NoEntry
  <2>3. UNCHANGED <<dir, table>>
    BY <1>3 DEF OpenFails, disk
  <2> QED
    BY <2>2, <2>3, SameFiles
<1> QED
  BY <1>1, <1>2, <1>3

LEMMA CloseKeepsLinks ==
    ASSUME LinkInv, Types', NEW fd \in Fd, Close(fd)
    PROVE  LinkInv'
<1>0. inode \in [Fd -> Inode] /\ dir \in [Slot -> Entry]
  BY DEF LinkInv, Types, TypeOK
<1>1. table' = table
  BY DEF Close
<1>2. CASE UNCHANGED <<dir, inode>>
  BY <1>1, <1>2, SameFiles
<1>3. ASSUME \/ UNCHANGED dir
             \/ \E s \in Slot : dir' = [dir EXCEPT ![s] = inode[fd].entry],
             inode' = [inode EXCEPT ![fd].entry = NoEntry]
      PROVE  LinkInv'
  <2>1. \A g \in Fd : inode'[g].entry.name = NoName \/ inode'[g] = inode[g]
    BY <1>0, <1>3 DEF NoEntry, Inode
  <2>2. \A s \in Slot : dir'[s] = dir[s] \/ dir'[s] = inode[fd].entry
    BY <1>0, <1>3
  <2>3. \A f \in Files' : f \in Files
    BY <2>1, <2>2 DEF Files, Entries
  <2> QED
    BY <1>1, <2>3, SameLinks DEF LinkInv, OldFiles
<1> QED
  BY <1>2, <1>3 DEF Close

----------------------------------------------------------------------------
(* Writing. *)

\* What one block written can make of the cluster table.
Grown(t, c) ==
    \/ t = table
    \/ /\ c \in DOMAIN table /\ table[c] = 0
       /\ \/ t = [table EXCEPT ![c] = END]
          \/ \E last \in DOMAIN table : t = [[table EXCEPT ![c] = END] EXCEPT ![last] = c]

LEMMA LinkedGrows ==
    ASSUME TypeOK, NEW c \in FreeCluster, NEW first, NEW size
    PROVE  Grown(Linked(table, strayed, first, size, c).table, c)
<1> DEFINE marked == [table EXCEPT ![c] = END]
           last == LinkFrom(marked, first, size)
<1>1. Linked(table, strayed, first, size, c) =
        IF c = Bad THEN State(table, data, strayed, FALSE)
        ELSE IF last = Bad THEN State(marked, data, strayed, FALSE)
        ELSE IF last \in DOMAIN table THEN State([marked EXCEPT ![last] = c], data, strayed, TRUE)
        ELSE State(marked, data, strayed \cup {last}, TRUE)
  BY DEF Linked, ClusterMarked
<1>2. c # Bad => c \in DOMAIN table /\ table[c] = 0
  BY FreeTyped DEF TypeOK
<1> HIDE DEF last, marked
<1>3. \/ Linked(table, strayed, first, size, c).table = table
      \/ /\ c # Bad
         /\ \/ Linked(table, strayed, first, size, c).table = marked
            \/ /\ last \in DOMAIN table
               /\ Linked(table, strayed, first, size, c).table = [marked EXCEPT ![last] = c]
  <2>1. CASE c = Bad
    BY <1>1, <2>1 DEF State
  <2>2. CASE c # Bad /\ (last = Bad \/ last \notin DOMAIN table)
    <3>1. \/ Linked(table, strayed, first, size, c) = State(marked, data, strayed, FALSE)
          \/ Linked(table, strayed, first, size, c) = State(marked, data, strayed \cup {last}, TRUE)
      BY <1>1, <2>2
    <3> QED
      BY <2>2, <3>1 DEF State
  <2>3. CASE c # Bad /\ last # Bad /\ last \in DOMAIN table
    <3>1. Linked(table, strayed, first, size, c)
            = State([marked EXCEPT ![last] = c], data, strayed, TRUE)
      BY <1>1, <2>3
    <3> QED
      BY <2>3, <3>1 DEF State
  <2> QED
    BY <2>1, <2>2, <2>3
<1> QED
  BY <1>2, <1>3 DEF Grown, marked

LEMMA BlockGrows ==
    ASSUME TypeOK, NEW c \in FreeCluster, NEW first, NEW n, NEW size, NEW block, NEW card
    PROVE  /\ Grown(WriteBlock(table, strayed, first, n, block, card).table, c)
           /\ Grown(AppendBlock(first, size, block, card, c).table, c)
<1>1. \A t, s, m : WriteBlock(t, s, first, m, block, card).table = t
  <2> TAKE t, s, m
  <2> DEFINE cluster == Absolute(t, first, m \div S)
             sector == Sector(cluster, m)
  <2>1. WriteBlock(t, s, first, m, block, card) =
          IF cluster = Bad \/ ~ card THEN State(t, data, s, FALSE)
          ELSE IF sector \in DOMAIN data THEN State(t, [data EXCEPT ![sector] = block], s, TRUE)
          ELSE State(t, data, s \cup {cluster}, TRUE)
    BY DEF WriteBlock
  <2> HIDE DEF cluster, sector
  <2> QED
    BY <2>1 DEF State
<1> DEFINE blocks == BlocksOf(size)
           linked == IF blocks % S = 0 THEN Linked(table, strayed, first, size, c)
                     ELSE State(table, data, strayed, TRUE)
<1>2. AppendBlock(first, size, block, card, c) =
        IF linked.ok THEN WriteBlock(linked.table, linked.strayed, first, blocks, block, card)
        ELSE linked
  BY DEF AppendBlock
<1>3. Grown(linked.table, c)
  <2>1. Grown(State(table, data, strayed, TRUE).table, c)
    BY DEF Grown, State
  <2>2. Grown(Linked(table, strayed, first, size, c).table, c)
    BY LinkedGrows
  <2>3. linked \in {Linked(table, strayed, first, size, c), State(table, data, strayed, TRUE)}
    <3> HIDE DEF blocks
    <3> QED
      BY Zenon
  <2> HIDE DEF linked
  <2> QED
    BY <2>1, <2>2, <2>3
<1> HIDE DEF linked, blocks
<1>4. AppendBlock(first, size, block, card, c).table = linked.table
  BY <1>1, <1>2
<1> QED
  BY <1>1, <1>3, <1>4 DEF Grown

LEMMA WroteKeepsLinks ==
    ASSUME LinkInv, Types', NEW fd \in Fd, NEW result, NEW c, NEW offset, NEW size,
           Wrote(fd, result, offset, size), Grown(result.table, c)
    PROVE  LinkInv'
<1>1. inode \in [Fd -> Inode] /\ inode' \in [Fd -> Inode]
  BY DEF LinkInv, Types, TypeOK
<1>2. \A g \in Fd : /\ inode'[g].entry.name = inode[g].entry.name
                    /\ inode'[g].entry.first = inode[g].entry.first
  BY <1>1 DEF Wrote, Inode, Entry
<1>3. OldFiles
  BY <1>1, <1>2, DescriptorsOnly DEF Wrote
<1>4. Grown(table', c)
  BY DEF Wrote
<1>5. NoCrossLinks' /\ table'[0] # 0
  BY <1>3, <1>4, SameLinks, MarkedLinks, LinkedLinks DEF Grown, LinkInv
<1> QED
  BY <1>5 DEF LinkInv

LEMMA WriteFileKeepsLinks ==
    ASSUME LinkInv, Types', NEW fd \in Fd, NEW len \in Nat, WriteFile(fd, len)
    PROVE  LinkInv'
<1> DEFINE entry == inode[fd].entry
           offset == inode[fd].offset
           n == offset \div B
           end == offset + InFirst(offset, len)
           old == Contents(data, Sector(Absolute(table, entry.first, n \div S), n))
           block == [k \in 0 .. B - 1 |-> LET place == n * B + k
                                          IN IF offset <= place /\ place < end
                                             THEN written + place - offset + 1 ELSE old[k]]
           overwrites == entry.size = 0 \/ end <= entry.size \/ offset % B > 0
           size == IF overwrites /\ end <= entry.size THEN entry.size ELSE end
<1>1. PICK card \in CardOutcome, c \in FreeCluster :
        LET result == IF overwrites
                      THEN WriteBlock(table, strayed, entry.first, n, block, card)
                      ELSE AppendBlock(entry.first, entry.size, block, card, c)
        IN Wrote(fd, result, end, size)
  BY DEF WriteFile
<1> DEFINE result == IF overwrites
                     THEN WriteBlock(table, strayed, entry.first, n, block, card)
                     ELSE AppendBlock(entry.first, entry.size, block, card, c)
<1>2. Wrote(fd, result, end, size)
  BY <1>1
<1>3. Grown(result.table, c)
  <2> HIDE DEF block, n, entry, overwrites
  <2> QED
    BY BlockGrows DEF LinkInv, Types
<1> HIDE DEF result, end, size
<1> QED
  BY <1>2, <1>3, WroteKeepsLinks

LEMMA WriteOnKeepsLinks ==
    ASSUME LinkInv, Types', WriteOn
    PROVE  LinkInv'
<1> DEFINE fd == call.fd
           entry == inode[fd].entry
           n == call.from \div B + call.i
           end == IF call.i = More(call.from, call.len) THEN call.from + call.len
                  ELSE (n + 1) * B
           block == [k \in 0 .. B - 1 |-> IF n * B + k < end
                                          THEN call.base + n * B + k - call.from + 1 ELSE 0]
           size == IF end < entry.size THEN entry.size ELSE end
<1>1. PICK card \in CardOutcome, c \in FreeCluster :
        LET result == IF end < entry.size
                      THEN WriteBlock(table, strayed, entry.first, n, block, card)
                      ELSE AppendBlock(entry.first, entry.size, block, card, c)
        IN Wrote(fd, result, end, size)
  BY DEF WriteOn
<1> DEFINE result == IF end < entry.size
                     THEN WriteBlock(table, strayed, entry.first, n, block, card)
                     ELSE AppendBlock(entry.first, entry.size, block, card, c)
<1>2. Wrote(fd, result, end, size)
  BY <1>1
<1>3. Grown(result.table, c)
  <2> HIDE DEF block, n, entry, end
  <2> QED
    BY BlockGrows DEF LinkInv, Types
<1>4. fd \in Fd
  BY DEF WriteOn, LinkInv, Types, CallBegun
<1> HIDE DEF result, end, size, fd
<1> QED
  BY <1>2, <1>3, <1>4, WroteKeepsLinks

\* The steps that write nothing and leave the descriptors' entries alone.
LEMMA OthersKeepLinks ==
    ASSUME LinkInv, Types', UNCHANGED <<dir, table>>,
           \/ inode' = inode
           \/ \E fd \in Fd : \E offset : inode' = [inode EXCEPT ![fd].offset = offset]
    PROVE  LinkInv'
<1>1. inode \in [Fd -> Inode]
  BY DEF LinkInv, Types, TypeOK
<1>2. \A fd \in Fd : inode'[fd].entry = inode[fd].entry
  BY <1>1 DEF Inode
<1> QED
  BY <1>2, SameFiles

LEMMA NextKeepsLinks == LinkInv /\ [Next]_vars => LinkInv'
<1> SUFFICES ASSUME LinkInv, [Next]_vars PROVE LinkInv'
  OBVIOUS
<1>0. Types'
  BY NextKeepsTypes DEF LinkInv
<1>1. ASSUME NEW name \in Name, NEW flags \in OpenFlags,
             OpenExisting(name, flags) \/ OpenCreates(name, flags) \/ OpenFails(name, flags)
      PROVE  LinkInv'
  BY <1>0, <1>1, OpensKeepLinks
<1>2. ASSUME NEW fd \in Fd, Close(fd)
      PROVE  LinkInv'
  BY <1>0, <1>2, CloseKeepsLinks
<1>3. ASSUME NEW fd \in Fd, NEW len \in 0 .. MAX_LEN, WriteFile(fd, len)
      PROVE  LinkInv'
  <2>1. len \in Nat
    OBVIOUS
  <2> QED
    BY <1>0, <1>3, <2>1, WriteFileKeepsLinks
<1>4. CASE WriteOn
  BY <1>0, <1>4, WriteOnKeepsLinks
<1>5. ASSUME NEW fd \in Fd, NEW len \in 0 .. MAX_LEN,
             ReadFails(fd, len) \/ ReadFile(fd, len) \/ ReadPastEnd(fd, len)
      PROVE  LinkInv'
  BY <1>0, <1>5, OthersKeepLinks DEF ReadFails, ReadFile, ReadPastEnd, disk
<1>6. ASSUME NEW fd \in Fd, NEW offset \in 0 .. MAX_OFFSET, Seek(fd, offset)
      PROVE  LinkInv'
  BY <1>0, <1>6, OthersKeepLinks DEF Seek, disk
<1>7. ASSUME NEW fd \in Fd, WriteFails(fd)
      PROVE  LinkInv'
  BY <1>0, <1>7, OthersKeepLinks DEF WriteFails, disk
<1>8. CASE UNCHANGED vars
  BY <1>0, <1>8, OthersKeepLinks DEF vars, disk
<1> QED
  BY <1>1, <1>2, <1>3, <1>4, <1>5, <1>6, <1>7, <1>8 DEF Next

\* On a card of any size and with any number of files and descriptors, no
\* cluster belongs to two files or twice to one (fat_find_free_cluster,
\* fat_append_cluster, fat_create_file, fat_close_file).
THEOREM NoSharedClusters == Spec => []NoCrossLinks
<1>1. Spec => []LinkInv
  BY LinkInvInit, NextKeepsLinks, PTL DEF Spec
<1>2. LinkInv => NoCrossLinks
  BY DEF LinkInv
<1> QED
  BY <1>1, <1>2, PTL

----------------------------------------------------------------------------
(* Names. *)

\* What close writes back has the name it looks for, or none.
NameInv ==
    /\ Types /\ NamesUnique
    /\ \A fd \in Fd : inode[fd].entry.name \in {NoName, inode[fd].name}

LEMMA NameInvInit == Init => NameInv
  BY TypesInit DEF Init, NameInv, NamesUnique, NoEntry

LEMMA SameNames ==
    ASSUME NameInv, Types', dir' = dir,
           \A fd \in Fd : \/ inode'[fd].entry.name \in {NoName, inode'[fd].name}
                          \/ /\ inode'[fd].entry.name = inode[fd].entry.name
                             /\ inode'[fd].name = inode[fd].name
    PROVE  NameInv'
<1>1. NamesUnique'
  BY DEF NameInv, NamesUnique
<1>2. \A fd \in Fd : inode'[fd].entry.name \in {NoName, inode'[fd].name}
  BY DEF NameInv
<1> QED
  BY <1>1, <1>2 DEF NameInv

LEMMA OpensKeepNames ==
    ASSUME NameInv, Types', NEW name \in Name, NEW flags \in OpenFlags,
           OpenExisting(name, flags) \/ OpenCreates(name, flags) \/ OpenFails(name, flags)
    PROVE  NameInv'
<1>0. inode \in [Fd -> Inode] /\ dir \in [Slot -> Entry]
  BY DEF NameInv, Types, TypeOK
<1>1. CASE OpenExisting(name, flags)
  <2>1. PICK fd \in Fd, s \in Slot :
          /\ dir[s].name = name
          /\ inode' = [inode EXCEPT ![fd] =
               Opened(flags, IF "O_APPEND" \in flags THEN dir[s].size ELSE 0, name, dir[s])]
    BY <1>1 DEF OpenExisting, Found, Lowest
  <2>2. /\ inode'[fd].entry.name = inode'[fd].name
        /\ \A g \in Fd : g # fd => inode'[g] = inode[g]
    BY <1>0, <2>1 DEF Opened
  <2>3. dir' = dir
    BY <1>1 DEF OpenExisting, disk
  <2> QED
    BY <2>2, <2>3, SameNames
<1>2. CASE OpenCreates(name, flags)
  <2>1. PICK fd \in Fd, s \in Slot, c \in FreeCluster :
          /\ ~ Exists(name)
          /\ LET entry == [name |-> name, first |-> c, size |-> 0]
             IN \/ /\ dir' = [dir EXCEPT ![s] = entry]
                   /\ inode' = [inode EXCEPT ![fd] = Opened(flags, 0, name, entry)]
                \/ /\ inode' = [inode EXCEPT ![fd] = Opened(flags, 0, name, NoEntry)]
                   /\ UNCHANGED dir
    BY <1>2 DEF OpenCreates
  <2>2. \A g \in Fd : \/ inode'[g].entry.name \in {NoName, inode'[g].name}
                      \/ inode'[g] = inode[g]
    BY <1>0, <2>1 DEF Opened, NoEntry
  <2>3. CASE dir' = dir
    BY <2>2, <2>3, SameNames
  <2>4. CASE dir' = [dir EXCEPT ![s] = [name |-> name, first |-> c, size |-> 0]]
    <3>1. dir'[s].name = name /\ \A t \in Slot : t # s => dir'[t].name = dir[t].name /\ dir[t].name # name
      BY <1>0, <2>1, <2>4 DEF Exists
    <3>2. NamesUnique'
      BY <3>1 DEF NameInv, NamesUnique
    <3> QED
      BY <2>2, <3>2 DEF NameInv
  <2> QED
    BY <2>1, <2>3, <2>4
<1>3. CASE OpenFails(name, flags)
  <2>1. \/ UNCHANGED inode
        \/ \E fd \in Fd : inode' = [inode EXCEPT ![fd] = Opened(flags, 0, name, NoEntry)]
    BY <1>3 DEF OpenFails
  <2>2. \A g \in Fd : inode'[g].entry.name = NoName \/ inode'[g] = inode[g]
    BY <1>0, <2>1 DEF Opened, NoEntry
  <2>3. dir' = dir
    BY <1>3 DEF OpenFails, disk
  <2> QED
    BY <2>2, <2>3, SameNames
<1> QED
  BY <1>1, <1>2, <1>3

LEMMA CloseKeepsNames ==
    ASSUME NameInv, Types', NEW fd \in Fd, Close(fd)
    PROVE  NameInv'
<1>0. inode \in [Fd -> Inode] /\ dir \in [Slot -> Entry]
  BY DEF NameInv, Types, TypeOK
<1>1. CASE UNCHANGED <<dir, inode>>
  BY <1>1, SameNames
<1>2. ASSUME \/ UNCHANGED dir
             \/ \E s \in Slot : /\ dir[s].name = inode[fd].name
                                /\ dir' = [dir EXCEPT ![s] = inode[fd].entry],
             inode' = [inode EXCEPT ![fd].entry = NoEntry]
      PROVE  NameInv'
  <2>1. \A g \in Fd : inode'[g].entry.name = NoName \/ inode'[g] = inode[g]
    BY <1>0, <1>2 DEF NoEntry, Inode
  <2>2. \A s \in Slot : dir'[s].name \in {NoName, dir[s].name}
    BY <1>0, <1>2 DEF NameInv
  <2>3. NamesUnique'
    BY <2>2 DEF NameInv, NamesUnique
  <2> QED
    BY <2>1, <2>3 DEF NameInv
<1> QED
  BY <1>1, <1>2 DEF Close, Found, Lowest

\* A step of every other operation.
LEMMA OthersKeepNames ==
    ASSUME NameInv, Types', dir' = dir,
           \A fd \in Fd : /\ inode'[fd].entry.name = inode[fd].entry.name
                          /\ inode'[fd].name = inode[fd].name
    PROVE  NameInv'
  BY SameNames

LEMMA WroteKeepsNames ==
    ASSUME NameInv, Types', NEW fd \in Fd, NEW result, NEW offset, NEW size,
           Wrote(fd, result, offset, size)
    PROVE  NameInv'
<1>1. inode \in [Fd -> Inode]
  BY DEF NameInv, Types, TypeOK
<1>2. dir' = dir /\ \A g \in Fd : /\ inode'[g].entry.name = inode[g].entry.name
                                  /\ inode'[g].name = inode[g].name
  BY <1>1 DEF Wrote, Inode, Entry
<1> QED
  BY <1>2, OthersKeepNames

LEMMA SoughtKeepsNames ==
    ASSUME NameInv, Types', dir' = dir,
           inode' = inode \/ \E fd \in Fd : \E offset : inode' = [inode EXCEPT ![fd].offset = offset]
    PROVE  NameInv'
<1>1. inode \in [Fd -> Inode]
  BY DEF NameInv, Types, TypeOK
<1>2. \A g \in Fd : inode'[g].entry.name = inode[g].entry.name /\ inode'[g].name = inode[g].name
  BY <1>1 DEF Inode
<1> QED
  BY <1>2, OthersKeepNames

LEMMA NextKeepsNames == NameInv /\ [Next]_vars => NameInv'
<1> SUFFICES ASSUME NameInv, [Next]_vars PROVE NameInv'
  OBVIOUS
<1>0. Types'
  BY NextKeepsTypes DEF NameInv
<1>1. ASSUME NEW name \in Name, NEW flags \in OpenFlags,
             OpenExisting(name, flags) \/ OpenCreates(name, flags) \/ OpenFails(name, flags)
      PROVE  NameInv'
  BY <1>0, <1>1, OpensKeepNames
<1>2. ASSUME NEW fd \in Fd, Close(fd)
      PROVE  NameInv'
  BY <1>0, <1>2, CloseKeepsNames
<1>3. ASSUME NEW fd \in Fd, NEW len \in 0 .. MAX_LEN, WriteFile(fd, len)
      PROVE  NameInv'
  <2>1. \E result, offset, size : Wrote(fd, result, offset, size)
    BY <1>3, Zenon DEF WriteFile
  <2> QED
    BY <1>0, <2>1, WroteKeepsNames
<1>4. CASE WriteOn
  <2>1. \E result, offset, size : Wrote(call.fd, result, offset, size)
    BY <1>4, Zenon DEF WriteOn
  <2>2. call.fd \in Fd
    BY <1>4 DEF WriteOn, NameInv, Types, CallBegun
  <2> QED
    BY <1>0, <2>1, <2>2, WroteKeepsNames
<1>5. ASSUME NEW fd \in Fd, NEW len \in 0 .. MAX_LEN,
             ReadFails(fd, len) \/ ReadFile(fd, len) \/ ReadPastEnd(fd, len)
      PROVE  NameInv'
  BY <1>0, <1>5, SoughtKeepsNames DEF ReadFails, ReadFile, ReadPastEnd, disk
<1>6. ASSUME NEW fd \in Fd, WriteFails(fd) \/ \E offset \in 0 .. MAX_OFFSET : Seek(fd, offset)
      PROVE  NameInv'
  BY <1>0, <1>6, SoughtKeepsNames DEF WriteFails, Seek, disk
<1>7. CASE UNCHANGED vars
  BY <1>0, <1>7, SoughtKeepsNames DEF vars, disk
<1> QED
  BY <1>1, <1>2, <1>3, <1>4, <1>5, <1>6, <1>7 DEF Next

\* A file name has one directory entry, whatever is closed twice and opened in
\* between (fat_create_file, fat_set_dir_entry).
THEOREM OneEntryPerName == Spec => []NamesUnique
<1>1. Spec => []NameInv
  BY NameInvInit, NextKeepsNames, PTL DEF Spec
<1>2. NameInv => NamesUnique
  BY DEF NameInv
<1> QED
  BY <1>1, <1>2, PTL

----------------------------------------------------------------------------
(***************************************************************************)
(* The chains of clusters, and that files keep apart, for every card.      *)
(*                                                                         *)
(* Facts about a chain are had by induction on how far it is followed      *)
(* (AllNumbers, AbsoluteSteps): in a table that NoCrossLinks describes two *)
(* chains have no cluster in common (ChainsApart), and one does not return *)
(* to a cluster (ChainOnce).                                               *)
(***************************************************************************)

----------------------------------------------------------------------------
(* Chains of a table in which no cluster has two that lead to it. *)

\* Nothing leads to the first cluster of a chain, and it is in use.
Starts(t, c) == c \in DOMAIN t /\ t[c] # 0 /\ \A d \in DOMAIN t : t[d] # c

Linear(t) ==
    /\ \A c, d \in DOMAIN t : t[c] = t[d] /\ t[c] \notin {0, END} => c = d
    /\ \A c \in DOMAIN t : t[c] \notin {0, END} => t[t[c]] # 0

\* What comes before a cluster of the table is in the table, too.
LEMMA ChainBack ==
    ASSUME NEW t \in Table, NEW first, NEW k \in Nat,
           Absolute(t, first, k + 1) \in DOMAIN t
    PROVE  /\ Absolute(t, first, k) \in DOMAIN t
           /\ Absolute(t, first, k + 1) = t[Absolute(t, first, k)]
  BY AbsoluteSteps, TableNumbers DEF Follow

\* ... so that a chain is in the table up to any of its clusters.
LEMMA ChainPrefix ==
    ASSUME NEW t \in Table, NEW first, NEW n \in Nat, Absolute(t, first, n) \in DOMAIN t
    PROVE  \A k \in 0 .. n : Absolute(t, first, k) \in DOMAIN t
<1> DEFINE P == {j \in Nat : j <= n => Absolute(t, first, n - j) \in DOMAIN t}
<1>1. 0 \in P
  OBVIOUS
<1>2. ASSUME NEW j \in Nat, j \in P PROVE j + 1 \in P
  <2>1. SUFFICES ASSUME j + 1 <= n PROVE Absolute(t, first, n - (j + 1)) \in DOMAIN t
    OBVIOUS
  <2>2. n - (j + 1) \in Nat /\ n - j = (n - (j + 1)) + 1
    BY <2>1
  <2>3. Absolute(t, first, (n - (j + 1)) + 1) \in DOMAIN t
    BY <1>2, <2>1, <2>2
  <2> QED
    BY <2>2, <2>3, ChainBack
<1> HIDE DEF P
<1>3. Nat \subseteq P
  BY <1>1, <1>2, AllNumbers
<1>4. ASSUME NEW k \in 0 .. n PROVE Absolute(t, first, k) \in DOMAIN t
  <2>1. n - k \in Nat /\ n - k <= n /\ n - (n - k) = k
    OBVIOUS
  <2>2. n - k \in P
    BY <1>3, <2>1
  <2> QED
    BY <2>1, <2>2 DEF P
<1> QED
  BY <1>4

\* A chain has no free cluster.
LEMMA ChainUsed ==
    ASSUME NEW t \in Table, Linear(t), NEW first, Starts(t, first)
    PROVE  \A k \in Nat : LET c == Absolute(t, first, k) IN c \in DOMAIN t => t[c] # 0
<1> DEFINE P == {k \in Nat : LET c == Absolute(t, first, k) IN c \in DOMAIN t => t[c] # 0}
<1>1. 0 \in P
  BY AbsoluteSteps DEF Starts
<1>2. ASSUME NEW k \in Nat, k \in P PROVE k + 1 \in P
  <2>1. SUFFICES ASSUME Absolute(t, first, k + 1) \in DOMAIN t
                 PROVE  t[Absolute(t, first, k + 1)] # 0
    OBVIOUS
  <2>2. /\ Absolute(t, first, k) \in DOMAIN t
        /\ Absolute(t, first, k + 1) = t[Absolute(t, first, k)]
    BY <2>1, ChainBack
  <2>3. t[Absolute(t, first, k)] \notin {0, END}
    BY <1>2, <2>1, <2>2, TableNumbers
  <2> QED
    BY <2>2, <2>3 DEF Linear
<1> HIDE DEF P
<1>3. Nat \subseteq P
  BY <1>1, <1>2, AllNumbers
<1> QED
  BY <1>3 DEF P

\* Two chains have no cluster in common.
LEMMA ChainsApart ==
    ASSUME NEW t \in Table, Linear(t), NEW f, Starts(t, f), NEW g, Starts(t, g), f # g
    PROVE  \A j, k \in Nat :
              Absolute(t, f, j) \in DOMAIN t => Absolute(t, f, j) # Absolute(t, g, k)
<1> DEFINE P == {j \in Nat : \A k \in Nat :
                    Absolute(t, f, j) \in DOMAIN t => Absolute(t, f, j) # Absolute(t, g, k)}
<1>1. 0 \in P
  <2>1. ASSUME NEW k \in Nat, Absolute(t, f, 0) = Absolute(t, g, k) PROVE FALSE
    <3>1. f = Absolute(t, g, k) /\ f \in DOMAIN t
      BY <2>1, AbsoluteSteps DEF Starts
    <3>2. k # 0
      BY <3>1, AbsoluteSteps
    <3>3. k - 1 \in Nat /\ k = (k - 1) + 1
      BY <3>2
    <3>4. Absolute(t, g, k - 1) \in DOMAIN t /\ f = t[Absolute(t, g, k - 1)]
      BY <3>1, <3>3, ChainBack
    <3> QED
      BY <3>4 DEF Starts
  <2> QED
    BY <2>1
<1>2. ASSUME NEW j \in Nat, j \in P PROVE j + 1 \in P
  <2>1. SUFFICES ASSUME NEW k \in Nat, Absolute(t, f, j + 1) \in DOMAIN t,
                        Absolute(t, f, j + 1) = Absolute(t, g, k)
                 PROVE  FALSE
    OBVIOUS
  <2>2. /\ Absolute(t, f, j) \in DOMAIN t
        /\ Absolute(t, f, j + 1) = t[Absolute(t, f, j)]
    BY <2>1, ChainBack
  <2>3. k # 0
    BY <2>1, <2>2, AbsoluteSteps DEF Starts
  <2>4. k - 1 \in Nat /\ k = (k - 1) + 1
    BY <2>3
  <2>5. /\ Absolute(t, g, k - 1) \in DOMAIN t
        /\ Absolute(t, g, k) = t[Absolute(t, g, k - 1)]
    BY <2>1, <2>4, ChainBack
  <2>6. t[Absolute(t, f, j)] \notin {0, END}
    BY <2>1, <2>2, ChainUsed, TableNumbers
  <2>7. Absolute(t, f, j) = Absolute(t, g, k - 1)
    BY <2>1, <2>2, <2>5, <2>6 DEF Linear
  <2> QED
    BY <1>2, <2>2, <2>4, <2>7
<1> HIDE DEF P
<1>3. Nat \subseteq P
  BY <1>1, <1>2, AllNumbers
<1> QED
  BY <1>3 DEF P

\* A chain does not come back to a cluster.
LEMMA ChainOnce ==
    ASSUME NEW t \in Table, Linear(t), NEW first, Starts(t, first)
    PROVE  \A j, k \in Nat :
              Absolute(t, first, j) \in DOMAIN t /\ Absolute(t, first, j) = Absolute(t, first, k)
                 => j = k
<1> DEFINE P == {j \in Nat : \A k \in Nat :
                    Absolute(t, first, j) \in DOMAIN t
                    /\ Absolute(t, first, j) = Absolute(t, first, k) => j = k}
<1>0. ASSUME NEW k \in Nat, Absolute(t, first, k) = first, k # 0 PROVE FALSE
  <2>1. k - 1 \in Nat /\ k = (k - 1) + 1
    BY <1>0
  <2>2. Absolute(t, first, (k - 1) + 1) \in DOMAIN t
    BY <1>0, <2>1 DEF Starts
  <2>3. Absolute(t, first, k - 1) \in DOMAIN t /\ first = t[Absolute(t, first, k - 1)]
    BY <1>0, <2>1, <2>2, ChainBack
  <2> QED
    BY <2>3 DEF Starts
<1>1. 0 \in P
  BY <1>0, AbsoluteSteps
<1>2. ASSUME NEW j \in Nat, j \in P PROVE j + 1 \in P
  <2>1. SUFFICES ASSUME NEW k \in Nat, Absolute(t, first, j + 1) \in DOMAIN t,
                        Absolute(t, first, j + 1) = Absolute(t, first, k)
                 PROVE  j + 1 = k
    OBVIOUS
  <2>2. /\ Absolute(t, first, j) \in DOMAIN t
        /\ Absolute(t, first, j + 1) = t[Absolute(t, first, j)]
    BY <2>1, ChainBack
  <2>3. k # 0
    BY <1>0, <2>1, AbsoluteSteps
  <2>4. k - 1 \in Nat /\ k = (k - 1) + 1
    BY <2>3
  <2>5. /\ Absolute(t, first, k - 1) \in DOMAIN t
        /\ Absolute(t, first, k) = t[Absolute(t, first, k - 1)]
    BY <2>1, <2>4, ChainBack
  <2>6. t[Absolute(t, first, j)] \notin {0, END}
    BY <2>1, <2>2, ChainUsed, TableNumbers
  <2>7. Absolute(t, first, j) = Absolute(t, first, k - 1)
    BY <2>1, <2>2, <2>5, <2>6 DEF Linear
  <2>8. j = k - 1
    BY <1>2, <2>2, <2>4, <2>7
  <2> QED
    BY <2>4, <2>8
<1> HIDE DEF P
<1>3. Nat \subseteq P
  BY <1>1, <1>2, AllNumbers
<1> QED
  BY <1>3 DEF P

\* A chain stays what it is if its clusters keep what they hold.
LEMMA SameChain ==
    ASSUME NEW t \in Table, NEW u \in Table, NEW first,
           \A k \in Nat : LET c == Absolute(t, first, k) IN c \in DOMAIN t => u[c] = t[c]
    PROVE  \A k \in Nat : Absolute(u, first, k) = Absolute(t, first, k)
<1> DEFINE P == {k \in Nat : Absolute(u, first, k) = Absolute(t, first, k)}
<1>1. 0 \in P
  BY AbsoluteSteps
<1>2. ASSUME NEW k \in Nat, k \in P PROVE k + 1 \in P
  <2>1. Absolute(u, first, k) = Absolute(t, first, k) /\ DOMAIN u = DOMAIN t
    BY <1>2, TableNumbers
  <2>2. Follow(u, Absolute(u, first, k)) = Follow(t, Absolute(t, first, k))
    BY <2>1 DEF Follow
  <2>3. Absolute(u, first, k + 1) = Absolute(t, first, k + 1)
    BY <2>2, AbsoluteSteps
  <2> QED
    BY <2>3
<1> HIDE DEF P
<1>3. Nat \subseteq P
  BY <1>1, <1>2, AllNumbers
<1> QED
  BY <1>3 DEF P

\* The links of the table and the first clusters of files.
LEMMA LinksLinear ==
    ASSUME LinkInv
    PROVE  /\ table \in Table /\ Linear(table) /\ table[0] # 0
           /\ \A f \in Files : Starts(table, f.first)
<1>1. table \in Table
  BY DEF LinkInv, Types, TypeOK, Table
<1>2. Linear(table)
  BY DEF LinkInv, NoCrossLinks, OneLink, NoneFree, Linear
<1>3. \A f \in Files : Starts(table, f.first)
  BY FileTyped DEF LinkInv, Types, NoCrossLinks, FirstIsFirst, NoneFree, Starts
<1> QED
  BY <1>1, <1>2, <1>3 DEF LinkInv

\* Marking a free cluster changes no chain.
LEMMA MarkedLinear ==
    ASSUME NEW t \in Table, Linear(t), t[0] # 0, NEW c \in DOMAIN t, t[c] = 0
    PROVE  LET u == ClusterMarked(t, c)
           IN /\ u \in Table /\ Linear(u) /\ u[0] # 0
              /\ c # 0 /\ u[c] = END /\ \A d \in DOMAIN u : u[d] # c
              /\ \A first : Starts(t, first) =>
                    /\ Starts(u, first) /\ first # c
                    /\ \A k \in Nat : Absolute(u, first, k) = Absolute(t, first, k)
<1> DEFINE u == ClusterMarked(t, c)
<1>1. /\ u \in Table /\ DOMAIN u = DOMAIN t /\ c # 0 /\ c # END
      /\ \A d \in DOMAIN t : u[d] = IF d = c THEN END ELSE t[d]
  BY MarkedTyped, TableNumbers DEF ClusterMarked, Table
<1> HIDE DEF u
<1>2. \A d \in DOMAIN t : t[d] \in DOMAIN t \cup {END} /\ t[d] # c
  BY <1>1 DEF Linear, Table
<1>3. 0 \in DOMAIN t
  BY FatAssumption DEF Table
<1>4. Linear(u)
  BY <1>1, <1>2, TableNumbers DEF Linear
<1>5. u[0] # 0 /\ u[c] = END /\ \A d \in DOMAIN u : u[d] # c
  BY <1>1, <1>2, <1>3
<1>6. ASSUME NEW first, Starts(t, first)
      PROVE  /\ Starts(u, first) /\ first # c
             /\ \A k \in Nat : Absolute(u, first, k) = Absolute(t, first, k)
  <2>1. first # c
    BY <1>6 DEF Starts
  <2>2. Starts(u, first)
    BY <1>1, <1>6, <2>1, TableNumbers DEF Starts
  <2>3. \A k \in Nat : LET d == Absolute(t, first, k) IN d \in DOMAIN t => u[d] = t[d]
    BY <1>1, <1>6, ChainUsed
  <2> QED
    BY <1>1, <2>1, <2>2, <2>3, SameChain
<1> QED
  BY <1>1, <1>4, <1>5, <1>6 DEF u

\* Linking a marked cluster to one of the table.
LEMMA LinkedLinear ==
    ASSUME NEW t \in Table, Linear(t), t[0] # 0, NEW c \in DOMAIN t, c # 0, t[c] # 0,
           \A d \in DOMAIN t : t[d] # c, NEW last \in DOMAIN t
    PROVE  LET u == [t EXCEPT ![last] = c]
           IN /\ u \in Table /\ Linear(u) /\ u[0] # 0
              /\ \A d \in DOMAIN t : u[d] = IF d = last THEN c ELSE t[d]
              /\ \A first : Starts(t, first) /\ first # c => Starts(u, first)
<1> DEFINE u == [t EXCEPT ![last] = c]
<1>1. /\ u \in Table /\ DOMAIN u = DOMAIN t
      /\ \A d \in DOMAIN t : u[d] = IF d = last THEN c ELSE t[d]
  BY DEF Table
<1> HIDE DEF u
<1>2. \A d \in DOMAIN t : t[d] \in DOMAIN t \cup {END}
  BY DEF Table
<1>3. 0 \in DOMAIN t
  BY FatAssumption DEF Table
<1>4. Linear(u)
  BY <1>1, <1>2, TableNumbers DEF Linear
<1>5. \A first : Starts(t, first) /\ first # c => Starts(u, first)
  BY <1>1 DEF Starts
<1> QED
  BY <1>1, <1>3, <1>4, <1>5 DEF u

----------------------------------------------------------------------------
(* Sectors. *)

\* Clusters are S blocks apart, ...
LEMMA Multiples ==
    ASSUME NEW x \in Int, NEW y \in Int, x < y
    PROVE  x * S \in Int /\ y * S \in Int /\ y * S >= x * S + S
<1>1. S \in Nat /\ S > 0
  BY FatAssumption DEF S
<1> DEFINE z == y - x
<1>2. z \in Nat /\ z > 0 /\ y = x + z
  OBVIOUS
<1> HIDE DEF z
<1>3. y * S = x * S + z * S /\ z * S >= S /\ x * S \in Int /\ z * S \in Int
  BY <1>1, <1>2, SMTT(30)
<1> QED
  BY <1>1, <1>3

\* ... and a block is in one of them.
LEMMA InCluster ==
    ASSUME NEW n \in Nat
    PROVE  /\ S \in Nat /\ S > 0
           /\ n \div S \in Nat /\ n % S \in Nat /\ n % S < S /\ n = S * (n \div S) + (n % S)
  BY FatAssumption DEF S

LEMMA ClusterOf ==
    ASSUME NEW n \in Nat
    PROVE  n \div S \in Nat
  BY InCluster

\* Two clusters have no sector in common.
LEMMA SectorsApart ==
    ASSUME NEW c \in Int, NEW d \in Int, NEW m \in Nat, NEW n \in Nat,
           Sector(c, m) = Sector(d, n)
    PROVE  c = d /\ m % S = n % S
<1> DEFINE x == c - 2
           y == d - 2
           a == m % S
           b == n % S
<1>1. x \in Int /\ y \in Int /\ a \in Nat /\ b \in Nat /\ S \in Nat /\ a < S /\ b < S
  BY InCluster
<1>2. x * S + a = y * S + b
  BY DEF Sector
<1> HIDE DEF x, y, a, b
<1>3. ~ x < y
  BY <1>1, <1>2, Multiples
<1>4. ~ y < x
  BY <1>1, <1>2, Multiples
<1>5. x = y
  BY <1>1, <1>3, <1>4
<1>6. x * S \in Int
  BY <1>1
<1>7. a = b
  BY <1>1, <1>2, <1>5, <1>6
<1> QED
  BY <1>5, <1>7 DEF x, y, a, b

\* The clusters whose sectors are in the data area.
LEMMA SectorInside ==
    ASSUME NEW c \in Int, NEW n \in Nat
    PROVE  Sector(c, n) \in 0 .. CLUSTERS * S - 1 <=> c \in 2 .. CLUSTERS + 1
<1> DEFINE x == c - 2
           a == n % S
<1>0. CLUSTERS \in Nat /\ S \in Nat
  BY FatAssumption DEF S
<1>1. x \in Int /\ a \in Nat /\ S \in Nat /\ a < S /\ CLUSTERS \in Nat /\ CLUSTERS * S \in Int
  BY <1>0, InCluster
<1>2. Sector(c, n) = x * S + a
  BY DEF Sector
<1> HIDE DEF x, a
<1>3. 0 * S = 0 /\ x * S \in Int
  BY <1>1
<1>4. ASSUME x < 0 PROVE x * S + a < 0
  <2>1. 0 * S >= x * S + S
    BY <1>1, <1>4, Multiples
  <2> QED
    BY <1>1, <1>3, <2>1
<1>5. ASSUME 0 <= x PROVE x * S >= 0
  <2>1. CASE x = 0
    BY <1>3, <2>1
  <2>2. CASE 0 < x
    <3>1. x * S >= 0 * S + S
      BY <1>1, <2>2, Multiples
    <3> QED
      BY <1>1, <1>3, <3>1
  <2> QED
    BY <1>1, <1>5, <2>1, <2>2
<1>6. ASSUME x < CLUSTERS PROVE x * S + a < CLUSTERS * S
  <2>1. CLUSTERS * S >= x * S + S
    BY <1>1, <1>6, Multiples
  <2> QED
    BY <1>1, <1>3, <2>1
<1>7. ASSUME CLUSTERS <= x PROVE x * S >= CLUSTERS * S
  <2>1. CASE x = CLUSTERS
    BY <1>3, <2>1
  <2>2. CASE CLUSTERS < x
    <3>1. x * S >= CLUSTERS * S + S
      BY <1>1, <2>2, Multiples
    <3> QED
      BY <1>1, <1>3, <3>1
  <2> QED
    BY <1>1, <1>7, <2>1, <2>2
<1>8. x * S + a \in 0 .. CLUSTERS * S - 1 <=> 0 <= x /\ x < CLUSTERS
  BY <1>1, <1>3, <1>4, <1>5, <1>6, <1>7
<1>9. c \in 2 .. CLUSTERS + 1 <=> 0 <= x /\ x < CLUSTERS
  BY <1>1 DEF x
<1> QED
  BY <1>2, <1>8, <1>9

----------------------------------------------------------------------------
(* The bytes of a file, and what a block written to another file does to   *)
(* them.  The data area has fewer clusters than the table can number, so   *)
(* that 0xffff, which is behind a chain, is behind it, too.                *)

\* The block of a byte.
LEMMA BlockOf ==
    ASSUME NEW size \in Nat, NEW p \in 1 .. size
    PROVE  /\ (p - 1) \div B \in Nat /\ ((p - 1) \div B) \div S \in Nat
<1>1. p - 1 \in Nat
  OBVIOUS
<1>2. (p - 1) \div B \in Nat
  BY <1>1, InBlock
<1> QED
  BY <1>2, InCluster

\* Files are the same if their chains and the blocks there are.
LEMMA SameBytes ==
    ASSUME NEW t, NEW u, NEW d, NEW e, NEW first, NEW size \in Nat,
           \A k \in Nat : Absolute(u, first, k) = Absolute(t, first, k),
           \A k, n \in Nat : Contents(e, Sector(Absolute(t, first, k), n))
                                = Contents(d, Sector(Absolute(t, first, k), n))
    PROVE  FileBytes(u, e, first, size) = FileBytes(t, d, first, size)
<1> DEFINE At(s, f, p) == LET n == (p - 1) \div B
                          IN Contents(f, Sector(Absolute(s, first, n \div S), n))[(p - 1) % B]
<1>1. ASSUME NEW p \in 1 .. size PROVE At(u, e, p) = At(t, d, p)
  <2> DEFINE n == (p - 1) \div B
  <2>1. n \in Nat /\ n \div S \in Nat
    BY BlockOf
  <2> HIDE DEF n
  <2>2. Absolute(u, first, n \div S) = Absolute(t, first, n \div S)
    BY <2>1
  <2>3. Contents(e, Sector(Absolute(t, first, n \div S), n))
          = Contents(d, Sector(Absolute(t, first, n \div S), n))
    BY <2>1
  <2> QED
    BY <2>2, <2>3 DEF n
<1>2. /\ FileBytes(u, e, first, size) = [p \in 1 .. size |-> At(u, e, p)]
      /\ FileBytes(t, d, first, size) = [p \in 1 .. size |-> At(t, d, p)]
  BY DEF FileBytes
<1> HIDE DEF At
<1> QED
  BY <1>1, <1>2

\* What fat_write_block does.
LEMMA BlockWritten ==
    ASSUME NEW t, NEW s, NEW first, NEW n, NEW block, NEW card
    PROVE  LET r == WriteBlock(t, s, first, n, block, card)
               sector == Sector(Absolute(t, first, n \div S), n)
           IN /\ r.table = t
              /\ r.data = data \/ (sector \in DOMAIN data /\ r.data = [data EXCEPT ![sector] = block])
<1> DEFINE cluster == Absolute(t, first, n \div S)
           sector == Sector(cluster, n)
<1>1. WriteBlock(t, s, first, n, block, card) =
        IF cluster = Bad \/ ~ card THEN State(t, data, s, FALSE)
        ELSE IF sector \in DOMAIN data THEN State(t, [data EXCEPT ![sector] = block], s, TRUE)
        ELSE State(t, data, s \cup {cluster}, TRUE)
  BY DEF WriteBlock
<1> HIDE DEF cluster, sector
<1>2. CASE cluster = Bad \/ ~ card
  BY <1>1, <1>2 DEF State, sector, cluster
<1>3. CASE ~ (cluster = Bad \/ ~ card) /\ sector \in DOMAIN data
  <2>1. WriteBlock(t, s, first, n, block, card) = State(t, [data EXCEPT ![sector] = block], s, TRUE)
    BY <1>1, <1>3
  <2> QED
    BY <1>3, <2>1 DEF State, sector, cluster
<1>4. CASE ~ (cluster = Bad \/ ~ card) /\ sector \notin DOMAIN data
  <2>1. WriteBlock(t, s, first, n, block, card) = State(t, data, s \cup {cluster}, TRUE)
    BY <1>1, <1>4
  <2> QED
    BY <2>1 DEF State, sector, cluster
<1> QED
  BY <1>2, <1>3, <1>4

\* A block written through one chain is not one of another chain.
LEMMA WriteBlockApart ==
    ASSUME CLUSTERS < 65534, data \in Data,
           NEW t \in Table, Linear(t), NEW f, Starts(t, f), NEW g, Starts(t, g), f # g,
           NEW s, NEW n \in Nat, NEW block, NEW card
    PROVE  \A k, m \in Nat :
              Contents(WriteBlock(t, s, g, n, block, card).data, Sector(Absolute(t, f, k), m))
                 = Contents(data, Sector(Absolute(t, f, k), m))
<1> SUFFICES ASSUME NEW k \in Nat, NEW m \in Nat
             PROVE  Contents(WriteBlock(t, s, g, n, block, card).data, Sector(Absolute(t, f, k), m))
                      = Contents(data, Sector(Absolute(t, f, k), m))
  OBVIOUS
<1> DEFINE c == Absolute(t, f, k)
           d == Absolute(t, g, n \div S)
           r == WriteBlock(t, s, g, n, block, card)
<1>1. n \div S \in Nat
  BY ClusterOf
<1>2. c \in DOMAIN t \cup {END, Bad} /\ d \in DOMAIN t \cup {END, Bad}
  BY <1>1, AbsoluteTyped DEF Starts
<1>3. DOMAIN t \cup {END, Bad} \subseteq Int
  BY FatAssumption DEF Table, END, Bad
<1>4. r.data = data \/ (Sector(d, n) \in DOMAIN data /\ r.data = [data EXCEPT ![Sector(d, n)] = block])
  BY BlockWritten
<1>5. c \in DOMAIN t => c # d
  BY <1>1, ChainsApart
<1> HIDE DEF c, d, r
<1>6. ASSUME Sector(d, n) \in DOMAIN data PROVE Sector(c, m) # Sector(d, n)
  <2>1. d \in 2 .. CLUSTERS + 1
    BY <1>2, <1>3, <1>6, SectorInside DEF Data
  <2>2. d # END /\ d # Bad
    <3>1. CLUSTERS + 1 < 65535 /\ CLUSTERS \in Nat
      BY FatAssumption
    <3> QED
      BY <2>1, <3>1 DEF END, Bad
  <2>3. c # d
    BY <1>2, <1>5, <2>2
  <2> QED
    BY <1>2, <1>3, <2>3, SectorsApart
<1>7. Contents(r.data, Sector(c, m)) = Contents(data, Sector(c, m))
  BY <1>4, <1>6 DEF Contents
<1> QED
  BY <1>7 DEF c, r

\* How many links fat_append_cluster follows.
LEMMA BeforeCounts ==
    ASSUME NEW size \in Nat
    PROVE  Before((size \div B) \div S) \in Nat
<1>1. (size \div B) \div S \in Nat
  BY InBlock, InCluster
<1> HIDE DEF B
<1> DEFINE q == (size \div B) \div S
<1> HIDE DEF q
<1>2. q \in Nat => Before(q) \in Nat
  BY FatAssumption DEF Before
<1> QED
  BY <1>1, <1>2 DEF q

\* What fat_append_cluster does: nothing, a cluster marked, or linked as well.
LEMMA ClusterLinked ==
    ASSUME TypeOK, NEW c \in FreeCluster, NEW first, NEW size
    PROVE  LET r == Linked(table, strayed, first, size, c)
               marked == ClusterMarked(table, c)
               last == LinkFrom(marked, first, size)
           IN /\ r.data = data
              /\ \/ r.table = table
                 \/ /\ c \in DOMAIN table /\ table[c] = 0
                    /\ \/ r.table = marked
                       \/ last \in DOMAIN table /\ r.table = [marked EXCEPT ![last] = c]
<1> DEFINE marked == ClusterMarked(table, c)
           last == LinkFrom(marked, first, size)
<1>1. Linked(table, strayed, first, size, c) =
        IF c = Bad THEN State(table, data, strayed, FALSE)
        ELSE IF last = Bad THEN State(marked, data, strayed, FALSE)
        ELSE IF last \in DOMAIN table THEN State([marked EXCEPT ![last] = c], data, strayed, TRUE)
        ELSE State(marked, data, strayed \cup {last}, TRUE)
  BY DEF Linked
<1>2. c # Bad => c \in DOMAIN table /\ table[c] = 0
  BY FreeTyped DEF TypeOK
<1> HIDE DEF last, marked
<1>3. CASE c = Bad
  BY <1>1, <1>3 DEF State
<1>4. CASE c # Bad /\ last = Bad
  <2>1. Linked(table, strayed, first, size, c) = State(marked, data, strayed, FALSE)
    BY <1>1, <1>4
  <2> QED
    BY <1>2, <1>4, <2>1 DEF State, marked
<1>5. CASE c # Bad /\ last # Bad /\ last \in DOMAIN table
  <2>1. Linked(table, strayed, first, size, c)
          = State([marked EXCEPT ![last] = c], data, strayed, TRUE)
    BY <1>1, <1>5
  <2> QED
    BY <1>2, <1>5, <2>1 DEF State, marked, last
<1>6. CASE c # Bad /\ last # Bad /\ last \notin DOMAIN table
  <2>1. Linked(table, strayed, first, size, c) = State(marked, data, strayed \cup {last}, TRUE)
    BY <1>1, <1>6
  <2> QED
    BY <1>2, <1>6, <2>1 DEF State, marked
<1> QED
  BY <1>3, <1>4, <1>5, <1>6

\* Appending a cluster to a file leaves the chains of others alone.
LEMMA LinkedApart ==
    ASSUME LinkInv, NEW f, Starts(table, f), NEW g, Starts(table, g), f # g,
           NEW c \in FreeCluster, NEW size \in Nat
    PROVE  LET r == Linked(table, strayed, g, size, c)
           IN /\ r.data = data
              /\ r.table \in Table /\ Linear(r.table) /\ Starts(r.table, f) /\ Starts(r.table, g)
              /\ \A k \in Nat : Absolute(r.table, f, k) = Absolute(table, f, k)
<1> DEFINE r == Linked(table, strayed, g, size, c)
           marked == ClusterMarked(table, c)
           last == LinkFrom(marked, g, size)
<1>0. TypeOK /\ table \in Table /\ Linear(table) /\ table[0] # 0
  BY LinksLinear DEF LinkInv, Types
<1>1. /\ r.data = data
      /\ \/ r.table = table
         \/ /\ c \in DOMAIN table /\ table[c] = 0
            /\ \/ r.table = marked
               \/ last \in DOMAIN table /\ r.table = [marked EXCEPT ![last] = c]
  BY <1>0, ClusterLinked
<1> HIDE DEF r
<1>2. CASE r.table = table
  BY <1>0, <1>1, <1>2 DEF r
<1>3. ASSUME c \in DOMAIN table, table[c] = 0,
             \/ r.table = marked
             \/ last \in DOMAIN table /\ r.table = [marked EXCEPT ![last] = c]
      PROVE  /\ r.table \in Table /\ Linear(r.table) /\ Starts(r.table, f) /\ Starts(r.table, g)
             /\ \A k \in Nat : Absolute(r.table, f, k) = Absolute(table, f, k)
  <2>1. /\ marked \in Table /\ Linear(marked) /\ marked[0] # 0
        /\ c # 0 /\ marked[c] = END /\ \A d \in DOMAIN marked : marked[d] # c
        /\ Starts(marked, f) /\ f # c /\ Starts(marked, g) /\ g # c
        /\ \A k \in Nat : Absolute(marked, f, k) = Absolute(table, f, k)
    BY <1>0, <1>3, MarkedLinear
  <2>2. CASE r.table = marked
    BY <2>1, <2>2
  <2>3. CASE last \in DOMAIN table /\ r.table = [marked EXCEPT ![last] = c]
    <3>1. DOMAIN marked = DOMAIN table
      BY <1>0, <2>1, TableNumbers
    <3>2. marked[c] # 0
      BY <2>1, TableNumbers
    <3>3. /\ r.table \in Table /\ Linear(r.table)
          /\ \A d \in DOMAIN marked : r.table[d] = IF d = last THEN c ELSE marked[d]
          /\ Starts(r.table, f) /\ Starts(r.table, g)
      <4> HIDE DEF marked, last
      <4>1. c \in DOMAIN marked /\ last \in DOMAIN marked
        BY <1>3, <2>3, <3>1
      <4> DEFINE u == [marked EXCEPT ![last] = c]
      <4>2. /\ u \in Table /\ Linear(u)
            /\ \A d \in DOMAIN marked : u[d] = IF d = last THEN c ELSE marked[d]
            /\ \A first : Starts(marked, first) /\ first # c => Starts(u, first)
        BY <2>1, <3>2, <4>1, LinkedLinear
      <4>3. r.table = u
        BY <2>3
      <4> HIDE DEF u
      <4> QED
        BY <2>1, <4>2, <4>3
    <3>4. last = Absolute(marked, g, Before((size \div B) \div S))
      BY DEF LinkFrom
    <3>5. \A k \in Nat : Absolute(marked, f, k) \in DOMAIN marked => Absolute(marked, f, k) # last
      BY <2>1, <3>4, BeforeCounts, ChainsApart
    <3> HIDE DEF marked, last
    <3>6. \A k \in Nat : LET d == Absolute(marked, f, k) IN d \in DOMAIN marked => r.table[d] = marked[d]
      BY <3>3, <3>5
    <3>7. \A k \in Nat : Absolute(r.table, f, k) = Absolute(marked, f, k)
      BY <2>1, <3>3, <3>6, SameChain
    <3> QED
      BY <2>1, <3>3, <3>7
  <2> QED
    BY <1>3, <2>2, <2>3
<1> QED
  BY <1>1, <1>2, <1>3 DEF r

\* A block written or appended to one file leaves the bytes of another alone.
LEMMA BlockApart ==
    ASSUME CLUSTERS < 65534, LinkInv, NEW f \in Files, NEW g \in Files, f.first # g.first,
           NEW c \in FreeCluster, NEW n \in Nat, NEW block, NEW card, NEW r,
           \/ r = WriteBlock(table, strayed, g.first, n, block, card)
           \/ r = AppendBlock(g.first, g.size, block, card, c)
    PROVE  FileBytes(r.table, r.data, f.first, f.size) = FileBytes(table, data, f.first, f.size)
<1>1. /\ table \in Table /\ Linear(table) /\ Starts(table, f.first) /\ Starts(table, g.first)
      /\ data \in Data /\ TypeOK
  BY LinksLinear DEF LinkInv, Types, TypeOK, Data
<1>2. f.size \in Nat /\ g.size \in Nat
  BY <1>1, FileTyped DEF Entry
<1>3. ASSUME NEW t \in Table, Linear(t), Starts(t, f.first), Starts(t, g.first),
             \A k \in Nat : Absolute(t, f.first, k) = Absolute(table, f.first, k),
             NEW s, NEW m \in Nat
      PROVE  LET q == WriteBlock(t, s, g.first, m, block, card)
             IN FileBytes(q.table, q.data, f.first, f.size) = FileBytes(table, data, f.first, f.size)
  <2> DEFINE q == WriteBlock(t, s, g.first, m, block, card)
             sector == Sector(Absolute(t, g.first, m \div S), m)
  <2>1. /\ q.table = t
        /\ \/ q.data = data
           \/ sector \in DOMAIN data /\ q.data = [data EXCEPT ![sector] = block]
    BY BlockWritten
  <2>2. \A k, i \in Nat : Contents(q.data, Sector(Absolute(t, f.first, k), i))
                             = Contents(data, Sector(Absolute(t, f.first, k), i))
    BY <1>1, <1>3, WriteBlockApart
  <2> HIDE DEF q
  <2>3. \A k, i \in Nat : Contents(q.data, Sector(Absolute(table, f.first, k), i))
                             = Contents(data, Sector(Absolute(table, f.first, k), i))
    BY <1>3, <2>2
  <2>4. FileBytes(t, q.data, f.first, f.size) = FileBytes(table, data, f.first, f.size)
    BY <1>2, <1>3, <2>3, SameBytes
  <2> QED
    BY <2>1, <2>4 DEF q
<1>4. LET q == WriteBlock(table, strayed, g.first, n, block, card)
      IN FileBytes(q.table, q.data, f.first, f.size) = FileBytes(table, data, f.first, f.size)
  BY <1>1, <1>3
<1>5. LET q == AppendBlock(g.first, g.size, block, card, c)
      IN FileBytes(q.table, q.data, f.first, f.size) = FileBytes(table, data, f.first, f.size)
  <2> DEFINE m == BlocksOf(g.size)
             linked == IF m % S = 0 THEN Linked(table, strayed, g.first, g.size, c)
                       ELSE State(table, data, strayed, TRUE)
             q == AppendBlock(g.first, g.size, block, card, c)
  <2>1. q = IF linked.ok THEN WriteBlock(linked.table, linked.strayed, g.first, m, block, card)
            ELSE linked
    BY DEF AppendBlock
  <2>2. m \in Nat
    <3>1. g.size + B - 1 \in Nat
      BY <1>2, FatAssumption DEF B
    <3> QED
      BY <3>1, InBlock DEF BlocksOf
  <2>3. /\ linked.data = data
        /\ linked.table \in Table /\ Linear(linked.table)
        /\ Starts(linked.table, f.first) /\ Starts(linked.table, g.first)
        /\ \A k \in Nat : Absolute(linked.table, f.first, k) = Absolute(table, f.first, k)
    <3>1. CASE m % S = 0
      <4>1. linked = Linked(table, strayed, g.first, g.size, c)
        BY <3>1
      <4> HIDE DEF linked
      <4> QED
        BY <1>1, <1>2, <4>1, LinkedApart
    <3>2. CASE m % S # 0
      <4>1. linked = State(table, data, strayed, TRUE)
        BY <3>2
      <4> HIDE DEF linked
      <4>2. linked.table = table /\ linked.data = data
        BY <4>1 DEF State
      <4> QED
        BY <1>1, <4>2
    <3> HIDE DEF linked, m
    <3> QED
      BY <3>1, <3>2
  <2> HIDE DEF linked, m, q
  <2>4. CASE linked.ok
    <3>1. q = WriteBlock(linked.table, linked.strayed, g.first, m, block, card)
      BY <2>1, <2>4
    <3> QED
      BY <1>3, <2>2, <2>3, <3>1 DEF q
  <2>5. CASE ~ linked.ok
    <3>1. q = linked
      BY <2>1, <2>5
    <3>2. FileBytes(linked.table, data, f.first, f.size) = FileBytes(table, data, f.first, f.size)
      BY <1>2, <2>3, SameBytes
    <3> QED
      BY <2>3, <3>1, <3>2 DEF q
  <2> QED
    BY <2>4, <2>5
<1> QED
  BY <1>4, <1>5

----------------------------------------------------------------------------
(* Writing, in names of its own. *)

PlaceOf(fd) == inode[fd].offset \div B
EndOf(fd, len) == inode[fd].offset + InFirst(inode[fd].offset, len)
Overwrites(fd, len) ==
    \/ inode[fd].entry.size = 0 \/ EndOf(fd, len) <= inode[fd].entry.size
    \/ inode[fd].offset % B > 0
SizeOf(fd, len) ==
    IF Overwrites(fd, len) /\ EndOf(fd, len) <= inode[fd].entry.size THEN inode[fd].entry.size
    ELSE EndOf(fd, len)
BlockFor(fd, len) ==
    LET offset == inode[fd].offset
        n == PlaceOf(fd)
        old == Contents(data, Sector(Absolute(table, inode[fd].entry.first, n \div S), n))
    IN [k \in 0 .. B - 1 |-> LET place == n * B + k
                             IN IF offset <= place /\ place < EndOf(fd, len)
                                THEN written + place - offset + 1 ELSE old[k]]
CallFor(fd, len) == [fd |-> fd, len |-> len, i |-> 1, from |-> inode[fd].offset,
                     size |-> inode[fd].entry.size, base |-> written]

\* What a block written through a descriptor can make of the card and the table.
Over(fd, n, block, card) == WriteBlock(table, strayed, inode[fd].entry.first, n, block, card)
Behind(fd, block, card, c) ==
    AppendBlock(inode[fd].entry.first, inode[fd].entry.size, block, card, c)

\* WriteFile and WriteOn in these names.
LEMMA WriteFileSteps ==
    ASSUME NEW fd \in Fd, NEW len, WriteFile(fd, len)
    PROVE  /\ call = Idle /\ IsOpen(fd) /\ Writable(fd)
           /\ Absolute(table, inode[fd].entry.first, PlaceOf(fd) \div S) # Bad
           /\ \E card \in CardOutcome, c \in FreeCluster :
                LET r == IF Overwrites(fd, len) THEN Over(fd, PlaceOf(fd), BlockFor(fd, len), card)
                         ELSE Behind(fd, BlockFor(fd, len), card, c)
                IN /\ Wrote(fd, r, EndOf(fd, len), SizeOf(fd, len))
                   /\ Continue(CallFor(fd, len), r, More(inode[fd].offset, len) = 0)
  BY Zenon DEF WriteFile, Over, Behind, PlaceOf, EndOf, Overwrites, SizeOf, BlockFor, CallFor

OnPlace == call.from \div B + call.i
OnLast == call.i = More(call.from, call.len)
OnEnd == IF OnLast THEN call.from + call.len ELSE (OnPlace + 1) * B
OnOver == OnEnd < inode[call.fd].entry.size
OnSize == IF OnOver THEN inode[call.fd].entry.size ELSE OnEnd
OnBlock == [k \in 0 .. B - 1 |-> IF OnPlace * B + k < OnEnd
                                 THEN call.base + OnPlace * B + k - call.from + 1 ELSE 0]

LEMMA WriteOnSteps ==
    ASSUME WriteOn
    PROVE  /\ call # Idle
           /\ \E card \in CardOutcome, c \in FreeCluster :
                LET r == IF OnOver THEN Over(call.fd, OnPlace, OnBlock, card)
                         ELSE Behind(call.fd, OnBlock, card, c)
                IN /\ Wrote(call.fd, r, OnEnd, OnSize)
                   /\ Continue([call EXCEPT !.i = @ + 1], r, OnLast)
  BY Zenon DEF WriteOn, Over, Behind, OnPlace, OnLast, OnEnd, OnOver, OnSize, OnBlock

----------------------------------------------------------------------------
(* Files keep apart. *)

\* The call between two blocks writes to a file that is open, so that its
\* descriptor holds an entry with the name of the file.
CallOpen == call # Idle => IsOpen(call.fd)

ApartInv == LinkInv /\ NameInv /\ CallOpen

LEMMA ApartInvInit == Init => ApartInv
  BY LinkInvInit, NameInvInit DEF ApartInv, CallOpen, Init

\* A block written leaves its descriptor open.
LEMMA WroteKeepsOpen ==
    ASSUME Types, NEW fd \in Fd, IsOpen(fd), NEW result, NEW offset, NEW size,
           Wrote(fd, result, offset, size), call' = Idle \/ call'.fd = fd
    PROVE  CallOpen'
<1>1. inode \in [Fd -> Inode]
  BY DEF Types, TypeOK
<1>2. inode'[fd].entry.name = inode[fd].entry.name
  BY <1>1 DEF Wrote, Inode, Entry
<1> QED
  BY <1>2 DEF CallOpen, IsOpen

LEMMA NextKeepsOpen == Types /\ CallOpen /\ [Next]_vars => CallOpen'
<1> SUFFICES ASSUME Types, CallOpen, [Next]_vars PROVE CallOpen'
  OBVIOUS
<1>1. ASSUME NEW fd \in Fd, NEW len \in 0 .. MAX_LEN, WriteFile(fd, len) PROVE CallOpen'
  <2>1. /\ IsOpen(fd)
        /\ \E result, offset, size, last :
              Wrote(fd, result, offset, size) /\ Continue(CallFor(fd, len), result, last)
    BY <1>1, WriteFileSteps
  <2>2. CallFor(fd, len).fd = fd
    BY DEF CallFor
  <2>3. call' = Idle \/ call'.fd = fd
    BY <2>1, <2>2 DEF Continue
  <2> QED
    BY <2>1, <2>3, WroteKeepsOpen
<1>2. CASE WriteOn
  <2>1. PICK result, offset, size, last :
          Wrote(call.fd, result, offset, size) /\ Continue([call EXCEPT !.i = @ + 1], result, last)
    BY <1>2, WriteOnSteps
  <2>2. call.fd \in Fd /\ IsOpen(call.fd) /\ call \in Call
    BY <1>2 DEF WriteOn, Types, TypeOK, CallBegun, CallOpen
  <2>3. [call EXCEPT !.i = @ + 1].fd = call.fd
    BY <2>2 DEF Call
  <2>4. call' = Idle \/ call'.fd = call.fd
    BY <2>1, <2>3 DEF Continue
  <2> QED
    BY <2>1, <2>2, <2>4, WroteKeepsOpen
<1>3. ASSUME call = Idle, UNCHANGED call PROVE CallOpen'
  BY <1>3 DEF CallOpen
<1>4. CASE UNCHANGED vars
  BY <1>4 DEF vars, CallOpen, IsOpen
<1>5. ASSUME NEW name \in Name, NEW flags \in OpenFlags,
             OpenExisting(name, flags) \/ OpenCreates(name, flags) \/ OpenFails(name, flags)
      PROVE  CallOpen'
  BY <1>3, <1>5 DEF OpenExisting, OpenCreates, OpenFails
<1>6. ASSUME NEW fd \in Fd, Close(fd) \/ WriteFails(fd)
      PROVE  CallOpen'
  BY <1>3, <1>6 DEF Close, WriteFails
<1>7. ASSUME NEW fd \in Fd, NEW len \in 0 .. MAX_LEN,
             ReadFails(fd, len) \/ ReadFile(fd, len) \/ ReadPastEnd(fd, len)
      PROVE  CallOpen'
  BY <1>3, <1>7 DEF ReadFails, ReadFile, ReadPastEnd
<1>8. ASSUME NEW fd \in Fd, NEW offset \in 0 .. MAX_OFFSET, Seek(fd, offset)
      PROVE  CallOpen'
  BY <1>3, <1>8 DEF Seek
<1> QED
  BY <1>1, <1>2, <1>4, <1>5, <1>6, <1>7, <1>8 DEF Next

Outcome(fd, n, r) ==
    \E block, card : \E c \in FreeCluster : r = Over(fd, n, block, card) \/ r = Behind(fd, block, card, c)

\* A step that writes writes over a block, or appends one.
LEMMA WriteFileOutcome ==
    ASSUME NEW fd \in Fd, NEW len, WriteFile(fd, len)
    PROVE  /\ IsOpen(fd)
           /\ \E r : Outcome(fd, PlaceOf(fd), r) /\ table' = r.table /\ data' = r.data
<1> DEFINE r(card, c) == IF Overwrites(fd, len)
                         THEN Over(fd, PlaceOf(fd), BlockFor(fd, len), card)
                         ELSE Behind(fd, BlockFor(fd, len), card, c)
<1>0. PICK card \in CardOutcome, c \in FreeCluster :
        Wrote(fd, r(card, c), EndOf(fd, len), SizeOf(fd, len))
  BY WriteFileSteps
<1>1. table' = r(card, c).table /\ data' = r(card, c).data
  BY <1>0 DEF Wrote
<1>2. \/ r(card, c) = Over(fd, PlaceOf(fd), BlockFor(fd, len), card)
      \/ r(card, c) = Behind(fd, BlockFor(fd, len), card, c)
  BY Zenon
<1>3. Outcome(fd, PlaceOf(fd), r(card, c))
  BY <1>2, Zenon DEF Outcome
<1> HIDE DEF r
<1> QED
  BY <1>1, <1>3, WriteFileSteps

LEMMA WriteOnOutcome ==
    ASSUME WriteOn
    PROVE  \E r : Outcome(call.fd, OnPlace, r) /\ table' = r.table /\ data' = r.data
<1> DEFINE r(card, c) == IF OnOver THEN Over(call.fd, OnPlace, OnBlock, card)
                         ELSE Behind(call.fd, OnBlock, card, c)
<1>1. PICK card \in CardOutcome, c \in FreeCluster :
        table' = r(card, c).table /\ data' = r(card, c).data
  BY WriteOnSteps DEF Wrote
<1>2. \/ r(card, c) = Over(call.fd, OnPlace, OnBlock, card)
      \/ r(card, c) = Behind(call.fd, OnBlock, card, c)
  BY Zenon
<1>3. Outcome(call.fd, OnPlace, r(card, c))
  BY <1>2, Zenon DEF Outcome
<1> HIDE DEF r
<1> QED
  BY <1>1, <1>3

\* A block written through a descriptor changes no file of another name.
LEMMA OtherFileKept ==
    ASSUME CLUSTERS < 65534, ApartInv, NEW fd \in Fd, IsOpen(fd),
           NEW s \in Slot, dir[s].name # NoName, dir[s].name # inode[fd].name,
           NEW n \in Nat, NEW r, Outcome(fd, n, r)
    PROVE  FileBytes(r.table, r.data, dir[s].first, dir[s].size)
             = FileBytes(table, data, dir[s].first, dir[s].size)
<1> DEFINE f == dir[s]
           g == inode[fd].entry
<1>1. f \in Files /\ g \in Files
  BY DEF Files, Entries, IsOpen
<1>2. g.name = inode[fd].name
  BY DEF ApartInv, NameInv, IsOpen
<1>3. f.first # g.first
  BY <1>1, <1>2 DEF ApartInv, LinkInv, NoCrossLinks, OneFirst
<1>4. PICK block, card : \E c \in FreeCluster :
        r = Over(fd, n, block, card) \/ r = Behind(fd, block, card, c)
  BY DEF Outcome
<1>5. PICK c \in FreeCluster : r = Over(fd, n, block, card) \/ r = Behind(fd, block, card, c)
  BY <1>4
<1>6. \/ r = WriteBlock(table, strayed, g.first, n, block, card)
      \/ r = AppendBlock(g.first, g.size, block, card, c)
  BY <1>5 DEF Over, Behind
<1> HIDE DEF f, g
<1>7. LinkInv
  BY DEF ApartInv
<1>8. FileBytes(r.table, r.data, f.first, f.size) = FileBytes(table, data, f.first, f.size)
  <2>1. CASE r = WriteBlock(table, strayed, g.first, n, block, card)
    BY <1>1, <1>3, <1>7, <2>1, BlockApart
  <2>2. CASE r = AppendBlock(g.first, g.size, block, card, c)
    BY <1>1, <1>3, <1>7, <2>2, BlockApart
  <2> QED
    BY <1>6, <2>1, <2>2
<1> QED
  BY <1>8 DEF f

\* The cluster of a new file is not one of a file there is.
LEMMA CreatingKeepsFiles ==
    ASSUME LinkInv, NEW s \in Slot, dir[s].name # NoName,
           NEW name \in Name, NEW flags \in OpenFlags, OpenCreates(name, flags)
    PROVE  FileBytes(table', data', dir[s].first, dir[s].size)
             = FileBytes(table, data, dir[s].first, dir[s].size)
<1> DEFINE f == dir[s]
<1>1. PICK c \in FreeCluster : c # Bad /\ table' = ClusterMarked(table, c) /\ data' = data
  BY DEF OpenCreates
<1>2. c \in DOMAIN table /\ table[c] = 0
  BY <1>1, FreeTyped DEF LinkInv, Types, TypeOK
<1>3. f \in Files
  BY DEF Files, Entries
<1>4. f.size \in Nat
  BY <1>3, FileTyped DEF LinkInv, Types, Entry
<1>5. \A k \in Nat : Absolute(ClusterMarked(table, c), f.first, k) = Absolute(table, f.first, k)
  BY <1>2, <1>3, LinksLinear, MarkedLinear
<1> HIDE DEF f
<1>6. FileBytes(ClusterMarked(table, c), data, f.first, f.size) = FileBytes(table, data, f.first, f.size)
  BY <1>4, <1>5, SameBytes
<1> QED
  BY <1>1, <1>6 DEF f

\* Whatever programs do and wherever the card fails, a write changes no file
\* but its own, not even one that starts past the end of its chain
\* (fat_write_file, fat_get_absolute_cluster).
THEOREM FilesKeepApart ==
    ASSUME CLUSTERS < 65534
    PROVE  Spec => FilesApart
<1> DEFINE Kept == \A s \in Slot :
          LET f == dir[s]
          IN f.name # NoName
             /\ FileBytes(table, data, f.first, f.size) # FileBytes(table', data', f.first, f.size)
             => \E fd \in Fd : /\ inode[fd].name = f.name
                               /\ fd = call.fd \/ \E len \in 0 .. MAX_LEN : WriteFile(fd, len)
<1>1. ApartInv /\ [Next]_vars => ApartInv'
  BY NextKeepsLinks, NextKeepsNames, NextKeepsOpen DEF ApartInv, LinkInv
<1>2. ApartInv /\ [Next]_vars => [Kept]_<<table, data>>
  <2> SUFFICES ASSUME ApartInv, Next, ~ UNCHANGED <<table, data>>,
                      NEW s \in Slot, dir[s].name # NoName,
                      FileBytes(table, data, dir[s].first, dir[s].size)
                        # FileBytes(table', data', dir[s].first, dir[s].size)
               PROVE  \E fd \in Fd : /\ inode[fd].name = dir[s].name
                                     /\ fd = call.fd \/ \E len \in 0 .. MAX_LEN : WriteFile(fd, len)
    BY DEF vars, disk
  <2>1. ASSUME NEW fd \in Fd, NEW len \in 0 .. MAX_LEN, WriteFile(fd, len)
        PROVE  inode[fd].name = dir[s].name
    <3>1. inode[fd].offset \in Nat
      BY DEF ApartInv, LinkInv, Types, TypeOK, Inode
    <3>2. PlaceOf(fd) \in Nat
      BY <3>1, InBlock DEF PlaceOf
    <3> QED
      BY <2>1, <3>2, WriteFileOutcome, OtherFileKept
  <2>2. CASE WriteOn
    <3>1. call.fd \in Fd /\ IsOpen(call.fd) /\ call.from \in Nat /\ call.i \in Nat
      BY <2>2 DEF WriteOn, ApartInv, LinkInv, Types, TypeOK, Call, CallBegun, CallOpen
    <3>2. OnPlace \in Nat
      BY <3>1, InBlock DEF OnPlace
    <3>3. inode[call.fd].name = dir[s].name
      BY <2>2, <3>1, <3>2, WriteOnOutcome, OtherFileKept
    <3> QED
      BY <3>1, <3>3
  <2>3. ASSUME NEW name \in Name, NEW flags \in OpenFlags, OpenCreates(name, flags) PROVE FALSE
    BY <2>3, CreatingKeepsFiles DEF ApartInv
  <2>4. ASSUME NEW name \in Name, NEW flags \in OpenFlags,
               OpenExisting(name, flags) \/ OpenFails(name, flags)
        PROVE  FALSE
    BY <2>4 DEF OpenExisting, OpenFails, disk
  <2>5. ASSUME NEW fd \in Fd, Close(fd) \/ WriteFails(fd) PROVE FALSE
    BY <2>5 DEF Close, WriteFails, disk
  <2>6. ASSUME NEW fd \in Fd, NEW len \in 0 .. MAX_LEN,
               ReadFails(fd, len) \/ ReadFile(fd, len) \/ ReadPastEnd(fd, len)
        PROVE  FALSE
    BY <2>6 DEF ReadFails, ReadFile, ReadPastEnd, disk
  <2>7. ASSUME NEW fd \in Fd, NEW offset \in 0 .. MAX_OFFSET, Seek(fd, offset) PROVE FALSE
    BY <2>7 DEF Seek, disk
  <2> QED
    BY <2>1, <2>2, <2>3, <2>4, <2>5, <2>6, <2>7 DEF Next
<1>3. Spec => [][Kept]_<<table, data>>
  <2> HIDE DEF Kept
  <2> QED
    BY ApartInvInit, <1>1, <1>2, PTL DEF Spec
<1> QED
  BY <1>3 DEF FilesApart

=============================================================================
