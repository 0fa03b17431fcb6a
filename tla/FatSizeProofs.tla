--------------------------- MODULE FatSizeProofs ---------------------------
(***************************************************************************)
(* Files have room for their bytes and blocks go where the table leads,    *)
(* when programs are careful, for every card, wherever it fails.           *)
(*                                                                         *)
(* The argument (SizeInv): a file that is open has one descriptor, whose   *)
(* entry is the larger one; it grows from a whole number of blocks, so     *)
(* that the block before the new one is in its chain, and the new one in   *)
(* the same cluster or in the one that is linked behind it.                *)
(***************************************************************************)
EXTENDS FatProofs, FiniteSetTheorems

----------------------------------------------------------------------------
(* Multiples and quotients. *)

\* Multiples are a factor apart.
LEMMA Multiple ==
    ASSUME NEW m \in Nat \ {0}, NEW x \in Int, NEW y \in Int, x < y
    PROVE  x * m \in Int /\ y * m \in Int /\ y * m >= x * m + m
<1> DEFINE z == y - x
<1>1. z \in Nat /\ z > 0 /\ y = x + z
  OBVIOUS
<1> HIDE DEF z
<1>2. y * m = x * m + z * m /\ z * m >= m /\ x * m \in Int /\ z * m \in Int
  BY <1>1, SMTT(30)
<1> QED
  BY <1>2

\* What division finds.
LEMMA Quotient ==
    ASSUME NEW m \in Nat \ {0}, NEW a \in Nat, NEW q \in Int, q * m <= a, a < q * m + m
    PROVE  a \div m = q
<1> DEFINE p == a \div m
<1>1. p \in Int /\ p * m \in Int /\ q * m \in Int /\ p * m <= a /\ a < p * m + m
  <2>1. p \in Int /\ a = m * p + (a % m) /\ a % m \in 0 .. m - 1
    OBVIOUS
  <2>2. m * p = p * m /\ p * m \in Int /\ q * m \in Int
    BY <2>1
  <2> HIDE DEF p
  <2> QED
    BY <2>1, <2>2
<1> HIDE DEF p
<1>2. ~ p < q
  BY <1>1, Multiple
<1>3. ~ q < p
  BY <1>1, Multiple
<1> QED
  BY <1>1, <1>2, <1>3 DEF p

\* A multiple below a number has a factor below its quotient.
LEMMA QuotientBound ==
    ASSUME NEW m \in Nat \ {0}, NEW a \in Nat, NEW n \in Int
    PROVE  a \div m \in Nat /\ n * m \in Int /\ (n * m <= a <=> n <= a \div m)
<1> DEFINE p == a \div m
<1>1. p \in Nat /\ a = m * p + (a % m) /\ a % m \in 0 .. m - 1
  OBVIOUS
<1>2. m * p = p * m /\ p * m \in Int /\ n * m \in Int
  BY <1>1
<1> HIDE DEF p
<1>3. p * m <= a /\ a < p * m + m
  BY <1>1, <1>2
<1>4. ASSUME n < p PROVE n * m <= a
  BY <1>1, <1>2, <1>3, <1>4, Multiple
<1>5. ASSUME p < n PROVE n * m > a
  BY <1>1, <1>2, <1>3, <1>5, Multiple
<1> QED
  BY <1>1, <1>2, <1>3, <1>4, <1>5 DEF p

LEMMA Sizes == B \in Nat \ {0} /\ S \in Nat \ {0}
  BY FatAssumption DEF B, S

\* One block more.
LEMMA OneMore ==
    ASSUME NEW n \in Int
    PROVE  n * B \in Int /\ (n + 1) * B = n * B + B
<1>1. B \in Int
  BY Sizes
<1> QED
  BY <1>1, SMTT(30)

\* A file of whole blocks has as many blocks as that.
LEMMA WholeBlocks ==
    ASSUME NEW n \in Nat
    PROVE  n * B \in Nat /\ (n * B) \div B = n /\ BlocksOf(n * B) = n
<1>1. n * B \in Nat /\ B \in Nat \ {0}
  BY Sizes
<1> DEFINE a == n * B
<1>2. a \div B = n
  BY <1>1, Quotient
<1>3. a + B - 1 \in Nat /\ n * B <= a + B - 1 /\ a + B - 1 < n * B + B
  BY <1>1
<1>4. (a + B - 1) \div B = n
  <2> DEFINE b == a + B - 1
  <2>1. b \in Nat /\ n * B <= b /\ b < n * B + B
    BY <1>3
  <2> HIDE DEF b
  <2>2. b \div B = n
    BY <1>1, <2>1, Quotient
  <2> QED
    BY <2>2 DEF b
<1> QED
  BY <1>1, <1>2, <1>4 DEF BlocksOf

\* The clusters of a block and of the one before it.
LEMMA ClusterBefore ==
    ASSUME NEW n \in Nat, n > 0
    PROVE  /\ n % S = 0 => n \div S > 0 /\ (n - 1) \div S = n \div S - 1
           /\ n % S # 0 => (n - 1) \div S = n \div S
<1> DEFINE q == n \div S
           r == n % S
<1>1. q \in Nat /\ r \in 0 .. S - 1 /\ n = S * q + r /\ S \in Nat \ {0} /\ n - 1 \in Nat
  BY Sizes
<1>2. S * q = q * S /\ q * S \in Int /\ 0 * S = 0
  BY <1>1
<1> HIDE DEF q, r
<1>3. ASSUME r = 0 PROVE q > 0 /\ (n - 1) \div S = q - 1
  <2>1. q > 0
    BY <1>1, <1>2, <1>3
  <2>2. q * S >= (q - 1) * S + S /\ (q - 1) * S \in Int
    BY <1>1, Multiple
  <2>3. (q - 1) * S + S = q * S
    BY <1>1, SMTT(30)
  <2>4. (q - 1) * S <= n - 1 /\ n - 1 < (q - 1) * S + S
    BY <1>1, <1>2, <1>3, <2>2, <2>3
  <2> QED
    BY <1>1, <2>1, <2>4, Quotient
<1>4. ASSUME r # 0 PROVE (n - 1) \div S = q
  <2>1. q * S <= n - 1 /\ n - 1 < q * S + S
    BY <1>1, <1>2, <1>4
  <2> QED
    BY <1>1, <2>1, Quotient
<1> QED
  BY <1>3, <1>4 DEF q, r

\* Later blocks are in later clusters.
LEMMA ClusterGrows ==
    ASSUME NEW k \in Nat, NEW n \in Nat, k <= n
    PROVE  k \div S \in Nat /\ n \div S \in Nat /\ k \div S <= n \div S
<1> DEFINE p == k \div S
<1>1. p \in Nat /\ p * S <= k /\ p * S \in Int
  BY Sizes, QuotientBound
<1> HIDE DEF p
<1>2. p * S <= n
  BY <1>1
<1>3. n \div S \in Nat /\ p <= n \div S
  BY <1>1, <1>2, Sizes, QuotientBound
<1> QED
  BY <1>1, <1>3 DEF p

----------------------------------------------------------------------------
(* Chains that are long enough. *)

\* Every block that has a byte of a file of that size lies in a cluster of its
\* chain.
Backed(t, first, size) ==
    \A n \in Nat : n * B < size => Absolute(t, first, n \div S) \in DOMAIN t

\* A cluster linked to one of a chain follows it there.
LEMMA LinkedChain ==
    ASSUME NEW t \in Table, Linear(t), NEW first, Starts(t, first), NEW k \in Nat,
           Absolute(t, first, k) \in DOMAIN t, NEW c,
           NEW u \in Table,
           \A d \in DOMAIN t : u[d] = IF d = Absolute(t, first, k) THEN c ELSE t[d]
    PROVE  /\ \A j \in 0 .. k : Absolute(u, first, j) = Absolute(t, first, j)
           /\ Absolute(u, first, k + 1) = c
<1> DEFINE P == {j \in Nat : j <= k => Absolute(u, first, j) = Absolute(t, first, j)}
<1>0. DOMAIN u = DOMAIN t
  BY TableNumbers
<1>1. 0 \in P
  <2>1. Absolute(u, first, 0) = first /\ Absolute(t, first, 0) = first
    BY AbsoluteSteps
  <2> QED
    BY <2>1
<1>2. ASSUME NEW j \in Nat, j \in P PROVE j + 1 \in P
  <2>1. SUFFICES ASSUME j + 1 <= k
                 PROVE  Absolute(u, first, j + 1) = Absolute(t, first, j + 1)
    OBVIOUS
  <2>2. Absolute(u, first, j) = Absolute(t, first, j)
    BY <1>2, <2>1
  <2>3. Absolute(t, first, j) # Absolute(t, first, k)
    BY <2>1, ChainOnce
  <2>4. Follow(u, Absolute(t, first, j)) = Follow(t, Absolute(t, first, j))
    BY <1>0, <2>3 DEF Follow
  <2>5. Absolute(u, first, j + 1) = Follow(u, Absolute(u, first, j))
    BY AbsoluteSteps
  <2>6. Absolute(t, first, j + 1) = Follow(t, Absolute(t, first, j))
    BY AbsoluteSteps
  <2> QED
    BY <2>2, <2>4, <2>5, <2>6
<1> HIDE DEF P
<1>3. Nat \subseteq P
  BY <1>1, <1>2, AllNumbers
<1>4. \A j \in 0 .. k : Absolute(u, first, j) = Absolute(t, first, j)
  BY <1>3 DEF P
<1>5. Absolute(u, first, k) = Absolute(t, first, k)
  BY <1>4
<1>6. Follow(u, Absolute(t, first, k)) = c
  BY <1>0 DEF Follow
<1>7. Absolute(u, first, k + 1) = Follow(u, Absolute(u, first, k))
  BY AbsoluteSteps
<1>8. Absolute(u, first, k + 1) = c
  BY <1>5, <1>6, <1>7
<1> QED
  BY <1>4, <1>8

\* A chain that reaches the cluster of a block backs all blocks before it.
LEMMA BackedTo ==
    ASSUME NEW t \in Table, NEW first, NEW n \in Nat, NEW size \in Int, size <= (n + 1) * B,
           Absolute(t, first, n \div S) \in DOMAIN t
    PROVE  Backed(t, first, size)
<1> SUFFICES ASSUME NEW m \in Nat, m * B < size PROVE Absolute(t, first, m \div S) \in DOMAIN t
  BY DEF Backed
<1>1. ~ n + 1 <= m
  <2> DEFINE x == (n + 1) * B
             y == m * B
  <2>1. x \in Int /\ y \in Int /\ y < x
    BY OneMore
  <2>2. n + 1 = m => x = y
    OBVIOUS
  <2>3. n + 1 < m => y >= x + B /\ B \in Int /\ B > 0
    BY Sizes, Multiple
  <2> HIDE DEF x, y
  <2> QED
    BY <2>1, <2>2, <2>3
<1>2. m \div S \in 0 .. n \div S /\ n \div S \in Nat
  BY <1>1, ClusterGrows
<1> QED
  BY <1>2, ChainPrefix

\* The last whole block is backed.
LEMMA LastBacked ==
    ASSUME NEW t \in Table, NEW first, NEW n \in Nat, n > 0, Backed(t, first, n * B)
    PROVE  /\ (n - 1) \div S \in Nat
           /\ Absolute(t, first, (n - 1) \div S) \in DOMAIN t
<1>1. n - 1 \in Nat /\ (n - 1) + 1 = n
  OBVIOUS
<1>2. (n - 1) * B \in Int /\ n * B = (n - 1) * B + B /\ B > 0
  BY <1>1, OneMore, Sizes
<1>3. (n - 1) * B < n * B
  BY <1>2, Sizes
<1> QED
  BY <1>1, <1>3, ClusterOf DEF Backed

\* A chain that is the same up to there backs the same blocks.
LEMMA BackedStays ==
    ASSUME NEW t \in Table, NEW u \in Table, NEW first, NEW n \in Nat, n > 0,
           Backed(t, first, n * B),
           Absolute(u, first, (n - 1) \div S) = Absolute(t, first, (n - 1) \div S)
    PROVE  Backed(u, first, n * B)
<1>1. Absolute(u, first, (n - 1) \div S) \in DOMAIN u
  BY LastBacked, TableNumbers
<1>2. n - 1 \in Nat /\ (n - 1) + 1 = n /\ n * B \in Int
  BY OneMore
<1>3. n * B <= ((n - 1) + 1) * B
  BY <1>2
<1> QED
  BY <1>1, <1>2, <1>3, BackedTo

\* The same chain, or a smaller file, is backed as well.
LEMMA BackedSame ==
    ASSUME NEW t \in Table, NEW u \in Table, NEW first, NEW size,
           \A k \in Nat : Absolute(u, first, k) = Absolute(t, first, k),
           Backed(t, first, size)
    PROVE  Backed(u, first, size)
  BY TableNumbers, ClusterOf DEF Backed

LEMMA BackedLess ==
    ASSUME NEW t, NEW first, NEW size \in Int, NEW less \in Int, less <= size, Backed(t, first, size)
    PROVE  Backed(t, first, less)
<1>1. \A m \in Nat : m * B \in Int
  BY OneMore
<1> QED
  BY <1>1 DEF Backed

----------------------------------------------------------------------------
(* What one block does to the table. *)

\* fat_write_block.
LEMMA BlockOutcome ==
    ASSUME NEW t, NEW s, NEW first, NEW n, NEW block, NEW card
    PROVE  LET r == WriteBlock(t, s, first, n, block, card)
               cluster == Absolute(t, first, n \div S)
           IN /\ r.table = t
              /\ r.ok => cluster # Bad
              /\ \/ r.strayed = s
                 \/ /\ cluster # Bad /\ Sector(cluster, n) \notin DOMAIN data
                    /\ r.strayed = s \cup {cluster}
<1> DEFINE r == WriteBlock(t, s, first, n, block, card)
           cluster == Absolute(t, first, n \div S)
           sector == Sector(cluster, n)
<1>1. r = IF cluster = Bad \/ ~ card THEN State(t, data, s, FALSE)
          ELSE IF sector \in DOMAIN data THEN State(t, [data EXCEPT ![sector] = block], s, TRUE)
          ELSE State(t, data, s \cup {cluster}, TRUE)
  BY DEF WriteBlock
<1> HIDE DEF r, cluster, sector
<1>2. CASE cluster = Bad \/ ~ card
  <2>1. r = State(t, data, s, FALSE)
    BY <1>1, <1>2
  <2> QED
    BY <2>1 DEF State, r, cluster, sector
<1>3. CASE ~ (cluster = Bad \/ ~ card) /\ sector \in DOMAIN data
  <2>1. r = State(t, [data EXCEPT ![sector] = block], s, TRUE)
    BY <1>1, <1>3
  <2> QED
    BY <1>3, <2>1 DEF State, r, cluster, sector
<1>4. CASE ~ (cluster = Bad \/ ~ card) /\ sector \notin DOMAIN data
  <2>1. r = State(t, data, s \cup {cluster}, TRUE)
    BY <1>1, <1>4
  <2>2. /\ r.table = t /\ r.strayed = s \cup {cluster}
        /\ cluster # Bad /\ sector \notin DOMAIN data
    BY <1>4, <2>1 DEF State
  <2> QED
    BY <2>2 DEF r, cluster, sector
<1> QED
  BY <1>2, <1>3, <1>4

\* fat_append_block, with and without a new cluster.
LEMMA AppendCases ==
    ASSUME NEW first, NEW size, NEW block, NEW card, NEW c
    PROVE  LET n == BlocksOf(size)
               l == Linked(table, strayed, first, size, c)
               r == AppendBlock(first, size, block, card, c)
           IN \/ n % S # 0 /\ r = WriteBlock(table, strayed, first, n, block, card)
              \/ n % S = 0 /\ l.ok /\ r = WriteBlock(l.table, l.strayed, first, n, block, card)
              \/ n % S = 0 /\ ~ l.ok /\ r = l
<1> DEFINE n == BlocksOf(size)
           l == Linked(table, strayed, first, size, c)
           s == State(table, data, strayed, TRUE)
           linked == IF n % S = 0 THEN l ELSE s
           r == AppendBlock(first, size, block, card, c)
<1>1. r = IF linked.ok THEN WriteBlock(linked.table, linked.strayed, first, n, block, card)
          ELSE linked
  BY DEF AppendBlock
<1>2. s.ok /\ s.table = table /\ s.strayed = strayed
  BY DEF State
<1> HIDE DEF n, l, s, r
<1>3. CASE n % S = 0
  <2>1. linked = l
    BY <1>3
  <2> HIDE DEF linked
  <2> QED
    BY <1>1, <1>3, <2>1 DEF n, l, r
<1>4. CASE n % S # 0
  <2>1. linked = s
    BY <1>4
  <2> HIDE DEF linked
  <2> QED
    BY <1>1, <1>2, <1>4, <2>1 DEF n, l, r
<1> QED
  BY <1>3, <1>4

\* fat_append_cluster finds the last cluster of a file whose whole blocks are
\* backed, and the new one follows it.
LEMMA LinkedBehind ==
    ASSUME LinkInv, NEW first, Starts(table, first), NEW n \in Nat, n > 0, n % S = 0,
           Backed(table, first, n * B), NEW c \in FreeCluster
    PROVE  LET r == Linked(table, strayed, first, n * B, c)
           IN /\ r.strayed = strayed
              /\ r.table \in Table
              /\ Linear(r.table) /\ Starts(r.table, first) /\ r.data = data
              /\ \A j \in 0 .. (n - 1) \div S : Absolute(r.table, first, j) = Absolute(table, first, j)
              /\ r.ok => /\ c \in DOMAIN table /\ table[c] = 0
                         /\ Absolute(r.table, first, n \div S) = c
<1> DEFINE size == n * B
           r == Linked(table, strayed, first, size, c)
           marked == ClusterMarked(table, c)
           k == (n - 1) \div S
           last == Absolute(table, first, k)
<1>1. table \in Table /\ Linear(table) /\ table[0] # 0
  BY LinksLinear
<1>2. n \div S > 0 /\ n \div S \in Nat /\ k = n \div S - 1 /\ k \in Nat /\ n \div S = k + 1
  BY ClusterBefore, ClusterOf
<1>3. last \in DOMAIN table
  BY <1>1, LastBacked
<1>4. Before((size \div B) \div S) = k
  <2>1. size \div B = n
    BY WholeBlocks
  <2> HIDE DEF size
  <2>2. Before(n \div S) = k
    BY <1>2 DEF Before
  <2> QED
    BY <2>1, <2>2
<1>5. r = IF c = Bad THEN State(table, data, strayed, FALSE)
          ELSE IF LinkFrom(marked, first, size) = Bad THEN State(marked, data, strayed, FALSE)
          ELSE IF LinkFrom(marked, first, size) \in DOMAIN table
          THEN State([marked EXCEPT ![LinkFrom(marked, first, size)] = c], data, strayed, TRUE)
          ELSE State(marked, data, strayed \cup {LinkFrom(marked, first, size)}, TRUE)
  BY DEF Linked
<1>6. LinkFrom(marked, first, size) = Absolute(marked, first, k)
  BY <1>4 DEF LinkFrom
<1> HIDE DEF size, r, marked, k, last
<1>7. CASE c = Bad
  <2>1. r = State(table, data, strayed, FALSE)
    BY <1>5, <1>7
  <2>2. r.table = table /\ r.strayed = strayed /\ r.data = data /\ ~ r.ok
    BY <2>1 DEF State
  <2> QED
    BY <1>1, <2>2 DEF r, size
<1>8. CASE c # Bad
  <2>1. c \in DOMAIN table /\ table[c] = 0
    BY <1>8, FreeTyped DEF LinkInv, Types, TypeOK
  <2>2. /\ marked \in Table /\ Linear(marked) /\ marked[0] # 0
        /\ c # 0 /\ marked[c] = END /\ \A d \in DOMAIN marked : marked[d] # c
        /\ Starts(marked, first) /\ first # c
        /\ \A j \in Nat : Absolute(marked, first, j) = Absolute(table, first, j)
    BY <1>1, <2>1, MarkedLinear DEF marked
  <2>3. Absolute(marked, first, k) = last /\ last # Bad /\ DOMAIN marked = DOMAIN table
    BY <1>1, <1>2, <1>3, <2>2, TableNumbers DEF last
  <2> DEFINE u == [marked EXCEPT ![last] = c]
  <2>4. r = State(u, data, strayed, TRUE)
    BY <1>3, <1>5, <1>6, <1>8, <2>3
  <2>5. r.table = u /\ r.strayed = strayed /\ r.data = data /\ r.ok
    BY <2>4 DEF State
  <2>6. marked[c] # 0 /\ c \in DOMAIN marked /\ last \in DOMAIN marked
    BY <1>3, <2>1, <2>2, <2>3, TableNumbers
  <2>7. u \in Table /\ \A d \in DOMAIN marked : u[d] = IF d = last THEN c ELSE marked[d]
    BY <2>2, <2>6, LinkedLinear
  <2>10. Linear(u) /\ Starts(u, first)
    BY <2>2, <2>6, LinkedLinear
  <2> HIDE DEF u
  <2>8. /\ \A j \in 0 .. k : Absolute(u, first, j) = Absolute(marked, first, j)
        /\ Absolute(u, first, k + 1) = c
    BY <1>2, <2>2, <2>3, <2>6, <2>7, LinkedChain
  <2>9. /\ \A j \in 0 .. k : Absolute(u, first, j) = Absolute(table, first, j)
        /\ Absolute(u, first, n \div S) = c
    BY <1>2, <2>2, <2>8
  <2> QED
    BY <2>1, <2>5, <2>7, <2>9, <2>10 DEF r, size, k
<1> QED
  BY <1>7, <1>8

\* Cluster 1 is never free, and nothing leads to it.
Reserved(t) == t[1] # 0 /\ \A c \in DOMAIN t : t[c] # 1

\* Where a chain leads, the table has an entry, and the card a cluster if it has
\* that many.
LEMMA ChainInTable ==
    ASSUME LinkInv, Reserved(table),
           NEW f \in Files, f.first \notin {0, 1}, NEW n \in Nat, NEW d \in DOMAIN table,
           table[d] = 0 \/ \E k \in Nat : d = Absolute(table, f.first, k)
    PROVE  d \in 2 .. ENTRIES - 1 /\ (Sector(d, n) \notin DOMAIN data => d > CLUSTERS + 1)
<1>1. table \in Table /\ Linear(table) /\ table[0] # 0 /\ Starts(table, f.first)
  BY LinksLinear
<1>2. d \notin {0, 1}
  <2>1. CASE table[d] = 0
    BY <1>1, <2>1 DEF Reserved
  <2>2. ASSUME NEW k \in Nat, d = Absolute(table, f.first, k) PROVE d \notin {0, 1}
    <3>1. CASE k = 0
      <4>1. d = f.first
        BY <2>2, <3>1, AbsoluteSteps
      <4> QED
        BY <4>1
    <3>2. CASE k # 0
      <4>1. k - 1 \in Nat /\ k = (k - 1) + 1
        BY <3>2
      <4> DEFINE e == Absolute(table, f.first, k - 1)
      <4>2. Absolute(table, f.first, (k - 1) + 1) \in DOMAIN table
        BY <2>2, <4>1
      <4>3. e \in DOMAIN table /\ d = table[e]
        BY <1>1, <2>2, <4>1, <4>2, ChainBack
      <4>4. table[e] # 0
        BY <1>1, <4>1, <4>3, ChainUsed
      <4> QED
        BY <4>3, <4>4, <1>1 DEF Reserved
    <3> QED
      BY <3>1, <3>2
  <2> QED
    BY <2>1, <2>2
<1>3. d \in 0 .. ENTRIES - 1
  BY <1>1, TableNumbers
<1>4. d \in 2 .. ENTRIES - 1 /\ d \in Int /\ CLUSTERS \in Nat
  BY <1>2, <1>3, FatAssumption
<1>5. DOMAIN data = 0 .. CLUSTERS * S - 1
  BY DEF LinkInv, Types, TypeOK
<1>6. d \in 2 .. CLUSTERS + 1 => Sector(d, n) \in DOMAIN data
  BY <1>4, <1>5, SectorInside
<1> QED
  BY <1>4, <1>6

\* A block written in a cluster of the chain.
LEMMA OverBacks ==
    ASSUME NEW first, NEW n \in Nat, Absolute(table, first, n \div S) \in DOMAIN table,
           NEW block, NEW card
    PROVE  LET r == WriteBlock(table, strayed, first, n, block, card)
           IN /\ r.table = table
              /\ r.strayed = strayed
                 \/ \E d \in DOMAIN table : /\ r.strayed = strayed \cup {d}
                                            /\ Sector(d, n) \notin DOMAIN data
                                            /\ \E k \in Nat : d = Absolute(table, first, k)
<1>1. n \div S \in Nat
  BY ClusterOf
<1> QED
  BY <1>1, BlockOutcome

\* A block appended to a file whose blocks are all backed.
LEMMA AppendBacks ==
    ASSUME LinkInv, NEW first, Starts(table, first), NEW n \in Nat, n > 0,
           Backed(table, first, n * B), NEW c \in FreeCluster, NEW block, NEW card
    PROVE  LET r == AppendBlock(first, n * B, block, card, c)
           IN /\ Backed(r.table, first, n * B)
              /\ r.ok => Backed(r.table, first, (n + 1) * B)
              /\ r.strayed = strayed
                 \/ \E d \in DOMAIN table :
                      /\ r.strayed = strayed \cup {d}
                      /\ Sector(d, n) \notin DOMAIN data
                      /\ table[d] = 0 \/ \E k \in Nat : d = Absolute(table, first, k)
<1> DEFINE size == n * B
           l == Linked(table, strayed, first, size, c)
           r == AppendBlock(first, size, block, card, c)
<1>1. table \in Table /\ BlocksOf(size) = n /\ n \div S \in Nat /\ (n + 1) * B \in Int
  BY LinksLinear, WholeBlocks, ClusterOf, OneMore
<1>2. ASSUME n % S # 0, r = WriteBlock(table, strayed, first, n, block, card)
      PROVE  /\ Backed(r.table, first, size)
             /\ r.ok => Backed(r.table, first, (n + 1) * B)
             /\ r.strayed = strayed
                \/ \E d \in DOMAIN table : /\ r.strayed = strayed \cup {d}
                                           /\ Sector(d, n) \notin DOMAIN data
                                           /\ \E k \in Nat : d = Absolute(table, first, k)
  <2>1. Absolute(table, first, n \div S) \in DOMAIN table
    <3>1. (n - 1) \div S = n \div S
      BY <1>2, ClusterBefore
    <3> QED
      BY <1>1, <3>1, LastBacked
  <2>2. Backed(table, first, (n + 1) * B)
    BY <1>1, <2>1, BackedTo
  <2> HIDE DEF r
  <2>3. /\ r.table = table
        /\ r.strayed = strayed
           \/ \E d \in DOMAIN table : /\ r.strayed = strayed \cup {d}
                                      /\ Sector(d, n) \notin DOMAIN data
                                      /\ \E k \in Nat : d = Absolute(table, first, k)
    BY <1>2, <2>1, OverBacks
  <2> QED
    BY <2>2, <2>3
<1>3. ASSUME n % S = 0
      PROVE  /\ l.strayed = strayed /\ l.table \in Table /\ Backed(l.table, first, size)
             /\ l.ok => /\ c \in DOMAIN table /\ table[c] = 0
                        /\ Absolute(l.table, first, n \div S) = c
                        /\ Backed(l.table, first, (n + 1) * B)
  <2>0. (n - 1) \div S \in Nat /\ (n - 1) \div S \in 0 .. (n - 1) \div S
    BY ClusterOf
  <2>1. /\ l.strayed = strayed /\ l.table \in Table
        /\ Absolute(l.table, first, (n - 1) \div S) = Absolute(table, first, (n - 1) \div S)
        /\ l.ok => /\ c \in DOMAIN table /\ table[c] = 0
                   /\ Absolute(l.table, first, n \div S) = c
    BY <1>3, <2>0, LinkedBehind
  <2> HIDE DEF l
  <2>2. Backed(l.table, first, size)
    BY <1>1, <2>1, BackedStays
  <2>3. ASSUME l.ok PROVE Backed(l.table, first, (n + 1) * B)
    <3>1. Absolute(l.table, first, n \div S) \in DOMAIN l.table
      BY <1>1, <2>1, <2>3, TableNumbers
    <3> QED
      BY <1>1, <2>1, <3>1, BackedTo
  <2> QED
    BY <2>1, <2>2, <2>3
<1>4. ASSUME n % S = 0, l.ok, r = WriteBlock(l.table, l.strayed, first, n, block, card)
      PROVE  /\ Backed(r.table, first, size)
             /\ r.ok => Backed(r.table, first, (n + 1) * B)
             /\ r.strayed = strayed
                \/ \E d \in DOMAIN table : /\ r.strayed = strayed \cup {d}
                                           /\ Sector(d, n) \notin DOMAIN data /\ table[d] = 0
  <2> HIDE DEF r, l
  <2>1. /\ r.table = l.table
        /\ \/ r.strayed = l.strayed
           \/ /\ Sector(Absolute(l.table, first, n \div S), n) \notin DOMAIN data
              /\ r.strayed = l.strayed \cup {Absolute(l.table, first, n \div S)}
    BY <1>4, BlockOutcome
  <2> QED
    BY <1>3, <1>4, <2>1
<1>5. \/ n % S # 0 /\ r = WriteBlock(table, strayed, first, n, block, card)
      \/ n % S = 0 /\ l.ok /\ r = WriteBlock(l.table, l.strayed, first, n, block, card)
      \/ n % S = 0 /\ ~ l.ok /\ r = l
  <2> HIDE DEF size
  <2> QED
    BY <1>1, AppendCases
<1> HIDE DEF r, l
<1>6. CASE n % S = 0 /\ ~ l.ok /\ r = l
  BY <1>3, <1>6 DEF r
<1>7. CASE n % S # 0 /\ r = WriteBlock(table, strayed, first, n, block, card)
  BY <1>2, <1>7 DEF r
<1>8. CASE n % S = 0 /\ l.ok /\ r = WriteBlock(l.table, l.strayed, first, n, block, card)
  BY <1>4, <1>8 DEF r
<1> QED
  BY <1>5, <1>6, <1>7, <1>8

\* It leaves the chains of other files alone.
LEMMA AppendApart ==
    ASSUME LinkInv, NEW f, Starts(table, f), NEW g, Starts(table, g), f # g,
           NEW size \in Nat, NEW c \in FreeCluster, NEW block, NEW card
    PROVE  \A k \in Nat : Absolute(AppendBlock(g, size, block, card, c).table, f, k)
                            = Absolute(table, f, k)
<1> DEFINE n == BlocksOf(size)
           l == Linked(table, strayed, g, size, c)
           r == AppendBlock(g, size, block, card, c)
<1>1. \A k \in Nat : Absolute(l.table, f, k) = Absolute(table, f, k)
  BY LinkedApart
<1>2. \/ r = WriteBlock(table, strayed, g, n, block, card)
      \/ r = WriteBlock(l.table, l.strayed, g, n, block, card)
      \/ r = l
  BY AppendCases
<1> HIDE DEF l, n, r
<1>3. r.table = table \/ r.table = l.table
  BY <1>2, BlockOutcome
<1>4. \A k \in Nat : Absolute(r.table, f, k) = Absolute(table, f, k)
  BY <1>1, <1>3
<1> QED
  BY <1>4 DEF r

----------------------------------------------------------------------------
(* Where careful writes begin and end. *)

\* The first block of a call ends in the block it starts in, and at its end
\* when there are more.
LEMMA FirstBlock ==
    ASSUME NEW offset \in Nat, NEW len \in Nat
    PROVE  LET n == offset \div B
               end == offset + InFirst(offset, len)
           IN /\ n \in Nat /\ n * B \in Nat /\ (n + 1) * B \in Nat
              /\ n * B <= offset /\ offset < (n + 1) * B
              /\ offset % B = 0 <=> offset = n * B
              /\ end \in Nat /\ end <= offset + len /\ end <= (n + 1) * B
              /\ len > 0 => offset < end
              /\ More(offset, len) # 0 => end = (n + 1) * B
<1> DEFINE n == offset \div B
           a == offset % B
           p == len \div B
           b == len % B
           x == n * B
           y == p * B
<1>1. /\ n \in Nat /\ a \in Nat /\ a < B /\ offset = B * n + a
      /\ p \in Nat /\ b \in Nat /\ b < B /\ len = B * p + b
      /\ B \in Nat \ {0}
  BY InBlock, Sizes
<1>2. x \in Nat /\ y \in Nat /\ (n + 1) * B = x + B /\ offset = x + a /\ len = y + b
  BY <1>1, OneMore
<1>3. p > 0 => y >= B
  <2>1. p > 0 => y >= 0 * B + B /\ 0 * B = 0
    BY <1>1, Multiple
  <2> QED
    BY <1>1, <2>1
<1>4. /\ More(offset, len) = p + (IF b + a > B THEN 1 ELSE 0)
      /\ InFirst(offset, len) = IF len < B - a THEN len ELSE B - a
  BY DEF More, InFirst
<1> HIDE DEF n, a, p, b, x, y
<1>5. InFirst(offset, len) \in Nat /\ InFirst(offset, len) <= len /\ InFirst(offset, len) <= B - a
  BY <1>1, <1>2, <1>4
<1>6. len > 0 => InFirst(offset, len) > 0
  BY <1>1, <1>4
<1>7. More(offset, len) # 0 => InFirst(offset, len) = B - a
  BY <1>1, <1>2, <1>3, <1>4
<1> QED
  BY <1>1, <1>2, <1>5, <1>6, <1>7 DEF n, a, x

\* The last block of a call ends in its block, and not before it.
LEMMA LastBlock ==
    ASSUME NEW from \in Nat, NEW len \in Nat
    PROVE  LET n == from \div B + More(from, len)
           IN n * B <= from + len /\ from + len <= (n + 1) * B
<1> DEFINE q == from \div B
           a == from % B
           p == len \div B
           b == len % B
           m == IF b + a > B THEN 1 ELSE 0
           n == q + (p + m)
<1>1. /\ q \in Nat /\ a \in Nat /\ a < B /\ from = B * q + a
      /\ p \in Nat /\ b \in Nat /\ b < B /\ len = B * p + b
      /\ B \in Nat \ {0}
  BY InBlock, Sizes
<1>2. More(from, len) = p + m
  BY DEF More
<1>3. (n + 1) * B = n * B + B /\ n * B \in Int
  BY <1>1, OneMore
<1>4. n * B = B * q + B * p + (IF b + a > B THEN B ELSE 0) /\ B * q \in Nat /\ B * p \in Nat
  <2>1. m = 0 => n * B = B * q + B * p
    <3> HIDE DEF q, p, m
    <3> QED
      BY <1>1, SMTT(30)
  <2>2. m = 1 => n * B = B * q + B * p + B
    <3> HIDE DEF q, p, m
    <3> QED
      BY <1>1, SMTT(30)
  <2>3. B * q \in Nat /\ B * p \in Nat
    BY <1>1
  <2> QED
    BY <2>1, <2>2, <2>3
<1> HIDE DEF q, a, p, b, n
<1>5. n * B <= from + len /\ from + len <= n * B + B
  BY <1>1, <1>4
<1>6. n = from \div B + More(from, len)
  BY <1>2 DEF n, q
<1> QED
  BY <1>3, <1>5, <1>6

\* A careful write over a block has the block in its chain.
LEMMA CarefulOver ==
    ASSUME TypeOK, NEW fd \in Fd, inode[fd].entry.first \in DOMAIN table, NEW len \in Nat,
           CarefulWrite(fd, len), Overwrites(fd, len),
           Backed(table, inode[fd].entry.first, inode[fd].entry.size)
    PROVE  /\ PlaceOf(fd) \in Nat
           /\ Absolute(table, inode[fd].entry.first, PlaceOf(fd) \div S) \in DOMAIN table
<1> DEFINE offset == inode[fd].offset
           size == inode[fd].entry.size
           first == inode[fd].entry.first
           n == PlaceOf(fd)
           end == EndOf(fd, len)
<1>1. offset \in Nat /\ size \in Nat
  BY DEF TypeOK, Inode, Entry
<1>2. /\ n \in Nat /\ n * B \in Nat /\ n * B <= offset
      /\ offset % B = 0 <=> offset = n * B
      /\ end \in Nat /\ end <= offset + len
      /\ len > 0 => offset < end
  BY <1>1, FirstBlock DEF PlaceOf, EndOf
<1>3. len > 0 /\ (offset = size \/ offset < size)
  BY DEF CarefulWrite
<1>4. size = 0 \/ end <= size \/ offset % B > 0
  BY DEF Overwrites
<1>5. Absolute(table, first, 0) = first
  BY AbsoluteSteps
<1>6. size = 0 => n \div S = 0
  <2>1. size = 0 => n * B = 0
    BY <1>1, <1>2, <1>3
  <2>2. 0 < n => n * B >= 0 * B + B /\ 0 * B = 0 /\ B > 0
    BY <1>2, Sizes, Multiple
  <2>3. 0 \div S = 0
    BY Sizes
  <2> DEFINE x == n * B
  <2>4. 0 < n => x > 0
    BY <1>2, <2>2, Sizes
  <2>5. size = 0 => x = 0
    BY <2>1
  <2> HIDE DEF x, n, size
  <2>6. size = 0 => n = 0
    BY <1>2, <2>4, <2>5
  <2> QED
    BY <2>3, <2>6
<1>7. size # 0 => n * B < size
  <2>1. offset % B \in Nat
    BY <1>1, InBlock
  <2> HIDE DEF n, size, offset, end
  <2> QED
    BY <1>1, <1>2, <1>3, <1>4, <2>1
<1>8. size # 0 => Absolute(table, first, n \div S) \in DOMAIN table
  BY <1>2, <1>7 DEF Backed
<1> HIDE DEF n, size
<1>9. Absolute(table, first, n \div S) \in DOMAIN table
  BY <1>5, <1>6, <1>8
<1> QED
  BY <1>2, <1>9 DEF n

\* Any other careful write appends to a file of whole blocks.
LEMMA CarefulBehind ==
    ASSUME TypeOK, NEW fd \in Fd, NEW len \in Nat,
           CarefulWrite(fd, len), ~ Overwrites(fd, len)
    PROVE  /\ PlaceOf(fd) \in Nat /\ PlaceOf(fd) > 0
           /\ inode[fd].entry.size = PlaceOf(fd) * B
<1> DEFINE offset == inode[fd].offset
           size == inode[fd].entry.size
           n == PlaceOf(fd)
           end == EndOf(fd, len)
<1>1. offset \in Nat /\ size \in Nat
  BY DEF TypeOK, Inode, Entry
<1>2. /\ n \in Nat /\ n * B \in Nat
      /\ offset % B = 0 <=> offset = n * B
      /\ end \in Nat /\ end <= offset + len /\ offset % B \in Nat
  BY <1>1, FirstBlock, InBlock DEF PlaceOf, EndOf
<1>3. offset = size \/ (offset + len <= size \/ offset % B > 0)
  BY DEF CarefulWrite
<1>4. size # 0 /\ ~ end <= size /\ ~ offset % B > 0
  BY DEF Overwrites
<1>5. n = 0 => n * B = 0
  BY Sizes
<1> HIDE DEF n, size, offset, end
<1>6. n \in Nat /\ n > 0 /\ size = n * B
  BY <1>1, <1>2, <1>3, <1>4, <1>5
<1> QED
  BY <1>6 DEF n, size

\* What the file grows to.
LEMMA CarefulSize ==
    ASSUME TypeOK, NEW fd \in Fd, NEW len \in Nat, CarefulWrite(fd, len)
    PROVE  /\ SizeOf(fd, len) \in Nat /\ inode[fd].entry.size <= SizeOf(fd, len)
           /\ SizeOf(fd, len) = inode[fd].entry.size \/ SizeOf(fd, len) <= (PlaceOf(fd) + 1) * B
           /\ ~ Overwrites(fd, len) => SizeOf(fd, len) <= (PlaceOf(fd) + 1) * B
           /\ More(inode[fd].offset, len) # 0 => SizeOf(fd, len) = (PlaceOf(fd) + 1) * B
<1> DEFINE offset == inode[fd].offset
           size == inode[fd].entry.size
           n == PlaceOf(fd)
           end == EndOf(fd, len)
<1>1. offset \in Nat /\ size \in Nat
  BY DEF TypeOK, Inode, Entry
<1>2. /\ n \in Nat /\ (n + 1) * B \in Nat /\ offset < (n + 1) * B
      /\ end \in Nat /\ end <= (n + 1) * B
      /\ More(offset, len) # 0 => end = (n + 1) * B
  BY <1>1, FirstBlock DEF PlaceOf, EndOf
<1>3. offset = size \/ More(offset, len) = 0
  BY DEF CarefulWrite
<1>4. SizeOf(fd, len) = IF Overwrites(fd, len) /\ end <= size THEN size ELSE end
  BY DEF SizeOf
<1>5. ~ Overwrites(fd, len) => end > size
  BY <1>1, <1>2 DEF Overwrites
<1> HIDE DEF n, size, offset, end
<1>6. /\ SizeOf(fd, len) \in Nat /\ size <= SizeOf(fd, len)
      /\ SizeOf(fd, len) = size \/ SizeOf(fd, len) <= (n + 1) * B
      /\ ~ Overwrites(fd, len) => SizeOf(fd, len) <= (n + 1) * B
      /\ More(offset, len) # 0 => SizeOf(fd, len) = (n + 1) * B
  BY <1>1, <1>2, <1>3, <1>4, <1>5
<1> QED
  BY <1>6 DEF n, size, offset

----------------------------------------------------------------------------
(* What holds when programs are careful. *)

FilesBacked == \A f \in Files : Backed(table, f.first, f.size)

\* A file is open once, and its descriptor holds all of it.
OneHandle ==
    \A fd, g \in Fd : IsOpen(fd) /\ inode[fd].entry.name = inode[g].entry.name => fd = g
Grows == \A fd \in Fd, s \in Slot :
    IsOpen(fd) /\ dir[s].name = inode[fd].entry.name => dir[s].size <= inode[fd].entry.size

\* Between two blocks of a call the file ends with the last of them.
CallPlace == call # Idle =>
    call.i <= More(call.from, call.len) /\ inode[call.fd].entry.size = OnPlace * B

SizeInv == ApartInv /\ FilesBacked /\ OneHandle /\ Grows /\ CallPlace

\* A block of a file that leaves the others alone, and the file backed.
BlockKept(fd, n, r, size) ==
    LET first == inode[fd].entry.first
    IN /\ \A f : Starts(table, f) /\ f # first =>
             \A k \in Nat : Absolute(r.table, f, k) = Absolute(table, f, k)
       /\ Backed(r.table, first, inode[fd].entry.size)
       /\ r.ok => Backed(r.table, first, size)
       /\ r.strayed = strayed
          \/ \E d \in DOMAIN table :
               /\ r.strayed = strayed \cup {d}
               /\ Sector(d, n) \notin DOMAIN data
               /\ table[d] = 0 \/ \E k \in Nat : d = Absolute(table, first, k)

\* A descriptor that is open has a file, with a chain.
LEMMA OpenFile ==
    ASSUME SizeInv, NEW fd \in Fd, IsOpen(fd)
    PROVE  /\ LinkInv /\ TypeOK /\ table \in Table /\ Linear(table)
           /\ inode[fd].entry \in Files /\ inode[fd].entry.size \in Nat
           /\ inode[fd].entry.first \in DOMAIN table /\ Starts(table, inode[fd].entry.first)
           /\ Backed(table, inode[fd].entry.first, inode[fd].entry.size)
<1>1. LinkInv /\ TypeOK /\ table \in Table /\ Linear(table)
  BY LinksLinear DEF SizeInv, ApartInv, LinkInv, Types
<1>2. inode[fd].entry \in Files
  BY DEF IsOpen, Files, Entries
<1>3. inode[fd].entry \in Entry /\ inode[fd].entry.first \in DOMAIN table
  BY <1>1, <1>2, FileTyped
<1>4. inode[fd].entry.size \in Nat
  BY <1>3 DEF Entry
<1>5. Starts(table, inode[fd].entry.first)
  BY <1>1, <1>2, LinksLinear
<1>6. Backed(table, inode[fd].entry.first, inode[fd].entry.size)
  BY <1>2 DEF SizeInv, FilesBacked
<1> QED
  BY <1>1, <1>2, <1>3, <1>4, <1>5, <1>6

\* A block over another, or in a cluster the chain has.
LEMMA OverKept ==
    ASSUME SizeInv, NEW fd \in Fd, IsOpen(fd), NEW n \in Nat, NEW size \in Nat,
           Absolute(table, inode[fd].entry.first, n \div S) \in DOMAIN table,
           size = inode[fd].entry.size \/ size <= (n + 1) * B,
           NEW block, NEW card, NEW r, r = Over(fd, n, block, card)
    PROVE  BlockKept(fd, n, r, size)
<1> DEFINE first == inode[fd].entry.first
<1>1. table \in Table /\ Backed(table, first, inode[fd].entry.size)
  BY OpenFile
<1>2. Backed(table, first, size)
  <2>1. CASE size = inode[fd].entry.size
    BY <1>1, <2>1
  <2>2. CASE size <= (n + 1) * B
    BY <1>1, <2>2, BackedTo
  <2> QED
    BY <2>1, <2>2
<1>3. r = WriteBlock(table, strayed, first, n, block, card)
  BY DEF Over
<1> HIDE DEF first
<1>4. Absolute(table, first, n \div S) \in DOMAIN table
  BY DEF first
<1>5. /\ r.table = table
      /\ r.strayed = strayed
         \/ \E d \in DOMAIN table : /\ r.strayed = strayed \cup {d}
                                    /\ Sector(d, n) \notin DOMAIN data
                                    /\ \E k \in Nat : d = Absolute(table, first, k)
  BY <1>3, <1>4, OverBacks
<1> QED
  BY <1>1, <1>2, <1>5 DEF BlockKept, first

\* A block appended.
LEMMA BehindKept ==
    ASSUME SizeInv, NEW fd \in Fd, IsOpen(fd), NEW n \in Nat, n > 0, NEW size \in Nat,
           inode[fd].entry.size = n * B, size <= (n + 1) * B,
           NEW block, NEW card, NEW c \in FreeCluster, NEW r, r = Behind(fd, block, card, c)
    PROVE  BlockKept(fd, n, r, size)
<1> DEFINE first == inode[fd].entry.first
<1>1. /\ LinkInv /\ Starts(table, first) /\ Backed(table, first, n * B)
      /\ n * B \in Nat /\ (n + 1) * B \in Int
  BY OpenFile, WholeBlocks, OneMore
<1>2. r = AppendBlock(first, n * B, block, card, c)
  BY DEF Behind
<1> HIDE DEF first
<1>3. /\ Backed(r.table, first, n * B)
      /\ r.ok => Backed(r.table, first, (n + 1) * B)
      /\ r.strayed = strayed
         \/ \E d \in DOMAIN table :
              /\ r.strayed = strayed \cup {d}
              /\ Sector(d, n) \notin DOMAIN data
              /\ table[d] = 0 \/ \E k \in Nat : d = Absolute(table, first, k)
  BY <1>1, <1>2, AppendBacks
<1>4. r.ok => Backed(r.table, first, size)
  BY <1>1, <1>3, BackedLess
<1>5. \A f : Starts(table, f) /\ f # first =>
         \A k \in Nat : Absolute(r.table, f, k) = Absolute(table, f, k)
  BY <1>1, <1>2, AppendApart
<1> QED
  BY <1>3, <1>4, <1>5 DEF BlockKept, first

\* A careful call's first block.
LEMMA CarefulFile ==
    ASSUME SizeInv, NEW fd \in Fd, NEW len \in Nat, CarefulWrite(fd, len), WriteFile(fd, len)
    PROVE  /\ call = Idle /\ IsOpen(fd) /\ PlaceOf(fd) \in Nat
           /\ \E r : /\ BlockKept(fd, PlaceOf(fd), r, SizeOf(fd, len))
                     /\ Wrote(fd, r, EndOf(fd, len), SizeOf(fd, len))
                     /\ Continue(CallFor(fd, len), r, More(inode[fd].offset, len) = 0)
<1> DEFINE n == PlaceOf(fd)
           size == SizeOf(fd, len)
           r(card, c) == IF Overwrites(fd, len) THEN Over(fd, n, BlockFor(fd, len), card)
                         ELSE Behind(fd, BlockFor(fd, len), card, c)
<1>0. PICK card \in CardOutcome, c \in FreeCluster :
        /\ Wrote(fd, r(card, c), EndOf(fd, len), size)
        /\ Continue(CallFor(fd, len), r(card, c), More(inode[fd].offset, len) = 0)
  BY WriteFileSteps
<1>1. call = Idle /\ IsOpen(fd)
  BY WriteFileSteps
<1>2. /\ TypeOK /\ inode[fd].entry.first \in DOMAIN table
      /\ Backed(table, inode[fd].entry.first, inode[fd].entry.size)
  BY <1>1, OpenFile
<1>3. /\ size \in Nat
      /\ size = inode[fd].entry.size \/ size <= (n + 1) * B
      /\ ~ Overwrites(fd, len) => size <= (n + 1) * B
  BY <1>2, CarefulSize
<1>4. CASE Overwrites(fd, len)
  <2>1. n \in Nat /\ Absolute(table, inode[fd].entry.first, n \div S) \in DOMAIN table
    BY <1>2, <1>4, CarefulOver
  <2>2. r(card, c) = Over(fd, n, BlockFor(fd, len), card)
    BY <1>4
  <2> HIDE DEF n, r, size
  <2>3. BlockKept(fd, n, r(card, c), size)
    BY <1>1, <1>3, <2>1, <2>2, OverKept
  <2> QED
    BY <1>0, <1>1, <2>1, <2>3 DEF n, size
<1>5. CASE ~ Overwrites(fd, len)
  <2>1. n \in Nat /\ n > 0 /\ inode[fd].entry.size = n * B
    BY <1>2, <1>5, CarefulBehind
  <2>2. r(card, c) = Behind(fd, BlockFor(fd, len), card, c)
    BY <1>5
  <2> HIDE DEF n, r, size
  <2>3. BlockKept(fd, n, r(card, c), size)
    BY <1>1, <1>3, <1>5, <2>1, <2>2, BehindKept
  <2> QED
    BY <1>0, <1>1, <2>1, <2>3 DEF n, size
<1> QED
  BY <1>4, <1>5

\* ... and its later ones, which all append.
LEMMA CarefulOn ==
    ASSUME SizeInv, WriteOn
    PROVE  /\ call # Idle /\ call \in Call /\ call.fd \in Fd /\ IsOpen(call.fd)
           /\ OnPlace \in Nat /\ OnEnd \in Nat /\ call.i <= More(call.from, call.len)
           /\ inode[call.fd].entry.size <= OnEnd
           /\ \E r : /\ BlockKept(call.fd, OnPlace, r, OnEnd)
                     /\ Wrote(call.fd, r, OnEnd, OnEnd)
                     /\ Continue([call EXCEPT !.i = @ + 1], r, OnLast)
<1> DEFINE fd == call.fd
           n == OnPlace
           size == inode[fd].entry.size
           r(card, c) == IF OnOver THEN Over(fd, n, OnBlock, card)
                         ELSE Behind(fd, OnBlock, card, c)
<1>0. PICK card \in CardOutcome, c \in FreeCluster :
        /\ Wrote(fd, r(card, c), OnEnd, OnSize)
        /\ Continue([call EXCEPT !.i = @ + 1], r(card, c), OnLast)
  BY WriteOnSteps
<1>1. call # Idle /\ call \in Call /\ fd \in Fd /\ IsOpen(fd) /\ call.i > 0
  BY WriteOnSteps DEF SizeInv, ApartInv, LinkInv, Types, TypeOK, CallBegun, CallOpen
<1>2. call.from \in Nat /\ call.len \in Nat /\ call.i \in Nat
  BY <1>1 DEF Call
<1>3. call.i <= More(call.from, call.len) /\ size = n * B
  BY <1>1 DEF SizeInv, CallPlace
<1>4. call.from \div B \in Nat
  BY <1>2, InBlock
<1>5. n \in Nat /\ n > 0
  BY <1>1, <1>2, <1>4 DEF OnPlace
<1>6. n * B \in Nat /\ (n + 1) * B \in Int /\ (n + 1) * B = n * B + B /\ B \in Nat
  BY <1>5, WholeBlocks, OneMore, Sizes
<1>7. OnEnd \in Nat /\ n * B <= OnEnd /\ OnEnd <= (n + 1) * B
  <2>1. CASE OnLast
    <3>1. n = call.from \div B + More(call.from, call.len)
      BY <2>1 DEF OnPlace, OnLast
    <3>2. n * B <= call.from + call.len /\ call.from + call.len <= (n + 1) * B
      BY <1>2, <3>1, LastBlock
    <3> QED
      BY <1>2, <2>1, <3>2 DEF OnEnd
  <2>2. CASE ~ OnLast
    <3>1. OnEnd = (n + 1) * B
      BY <2>2 DEF OnEnd
    <3> HIDE DEF n
    <3> QED
      BY <1>6, <3>1
  <2> QED
    BY <2>1, <2>2
<1> HIDE DEF n
<1>8. ~ OnOver /\ OnSize = OnEnd
  BY <1>3, <1>6, <1>7 DEF OnOver, OnSize
<1>9. r(card, c) = Behind(fd, OnBlock, card, c)
  BY <1>8
<1>10. BlockKept(fd, n, r(card, c), OnEnd)
  <2> HIDE DEF r, fd
  <2> QED
    BY <1>1, <1>3, <1>5, <1>7, <1>9, BehindKept DEF fd
<1>11. Wrote(fd, r(card, c), OnEnd, OnEnd)
  BY <1>0, <1>8
<1> HIDE DEF r
<1> QED
  BY <1>0, <1>1, <1>3, <1>5, <1>7, <1>10, <1>11 DEF n

\* A block written keeps the files backed, and the descriptors alone with them.
LEMMA WroteKeepsSizes ==
    ASSUME SizeInv, Types', NEW fd \in Fd, IsOpen(fd), NEW n, NEW r, NEW offset,
           NEW size \in Nat, inode[fd].entry.size <= size,
           BlockKept(fd, n, r, size), Wrote(fd, r, offset, size)
    PROVE  FilesBacked' /\ OneHandle' /\ Grows'
<1>0. inode \in [Fd -> Inode] /\ dir \in [Slot -> Entry] /\ table \in Table
  BY DEF SizeInv, ApartInv, LinkInv, Types, TypeOK, Table
<1>1. /\ dir' = dir /\ table' = r.table
      /\ \A g \in Fd : g # fd => inode'[g] = inode[g]
      /\ inode'[fd].entry.name = inode[fd].entry.name
      /\ inode'[fd].entry.first = inode[fd].entry.first
      /\ inode'[fd].entry.size = IF r.ok THEN size ELSE inode[fd].entry.size
  BY <1>0 DEF Wrote, Inode, Entry
<1>2. inode[fd].entry.size \in Nat /\ inode[fd].entry \in Files /\ table' \in Table
  BY OpenFile DEF Types, TypeOK, Table
<1>3. OneHandle'
  <2>1. \A g \in Fd : inode'[g].entry.name = inode[g].entry.name
    BY <1>1
  <2> QED
    BY <2>1 DEF OneHandle, IsOpen, SizeInv
<1>4. Grows'
  <2>1. \A g \in Fd : /\ inode'[g].entry.name = inode[g].entry.name
                      /\ inode[g].entry.size \in Nat /\ inode'[g].entry.size \in Nat
                      /\ inode[g].entry.size <= inode'[g].entry.size
    BY <1>0, <1>1, <1>2 DEF Inode, Entry
  <2>2. \A s \in Slot : dir[s].size \in Nat
    BY <1>0 DEF Entry
  <2> QED
    BY <1>1, <2>1, <2>2 DEF Grows, IsOpen, SizeInv
<1>5. Backed(table', inode[fd].entry.first, inode'[fd].entry.size)
  BY <1>1 DEF BlockKept
<1>6. ASSUME NEW f \in Files, f.first = inode[fd].entry.first => f.size <= inode[fd].entry.size
      PROVE  Backed(table', f.first, f.size)
  <2>1. f.size \in Nat /\ Starts(table, f.first)
    BY FileTyped, LinksLinear DEF SizeInv, ApartInv, LinkInv, Types, Entry
  <2>2. CASE f.first = inode[fd].entry.first
    <3>1. Backed(table', f.first, inode[fd].entry.size)
      BY <1>1, <2>2 DEF BlockKept
    <3> QED
      BY <1>2, <1>6, <2>1, <2>2, <3>1, BackedLess
  <2>3. CASE f.first # inode[fd].entry.first
    <3>1. \A k \in Nat : Absolute(table', f.first, k) = Absolute(table, f.first, k)
      BY <1>1, <2>1, <2>3 DEF BlockKept
    <3>2. Backed(table, f.first, f.size)
      BY DEF SizeInv, FilesBacked
    <3> QED
      BY <1>0, <1>2, <3>1, <3>2, BackedSame
  <2> QED
    BY <2>2, <2>3
<1>7. OneFirst
  BY DEF SizeInv, ApartInv, LinkInv, NoCrossLinks
<1>8. ASSUME NEW s \in Slot, dir[s].name # NoName PROVE Backed(table', dir[s].first, dir[s].size)
  <2>1. dir[s] \in Files
    BY <1>8 DEF Files, Entries
  <2>2. dir[s].first = inode[fd].entry.first => dir[s].size <= inode[fd].entry.size
    BY <1>2, <1>7, <2>1 DEF OneFirst, SizeInv, Grows
  <2> QED
    BY <1>6, <2>1, <2>2
<1>9. ASSUME NEW g \in Fd, g # fd, IsOpen(g)
      PROVE  Backed(table', inode[g].entry.first, inode[g].entry.size)
  <2>1. inode[g].entry \in Files
    BY <1>9 DEF Files, Entries, IsOpen
  <2>2. inode[g].entry.first # inode[fd].entry.first
    BY <1>2, <1>7, <1>9, <2>1 DEF OneFirst, SizeInv, OneHandle
  <2> QED
    BY <1>6, <2>1, <2>2
<1>10. FilesBacked'
  <2> SUFFICES ASSUME NEW f \in Files' PROVE Backed(table', f.first, f.size)
    BY DEF FilesBacked
  <2>1. f.name # NoName /\ (f \in {dir[s] : s \in Slot} \/ \E g \in Fd : f = inode'[g].entry)
    BY <1>1 DEF Files, Entries
  <2>2. CASE f \in {dir[s] : s \in Slot}
    BY <1>8, <2>1, <2>2
  <2>3. ASSUME NEW g \in Fd, f = inode'[g].entry PROVE Backed(table', f.first, f.size)
    <3>1. CASE g = fd
      BY <1>1, <1>5, <2>3, <3>1
    <3>2. CASE g # fd
      BY <1>1, <1>9, <2>1, <2>3, <3>2 DEF IsOpen
    <3> QED
      BY <3>1, <3>2
  <2> QED
    BY <2>1, <2>2, <2>3
<1> QED
  BY <1>3, <1>4, <1>10

----------------------------------------------------------------------------
(* The other steps. *)

LEMMA SizeInvInit == Init => SizeInv
<1> SUFFICES ASSUME Init PROVE SizeInv
  OBVIOUS
<1>1. ApartInv
  BY ApartInvInit
<1>2. \A fd \in Fd : ~ IsOpen(fd)
  BY DEF Init, IsOpen, NoEntry
<1>3. Files = {}
  BY DEF Init, Files, Entries, NoEntry
<1>4. call = Idle
  BY DEF Init
<1> QED
  BY <1>1, <1>2, <1>3, <1>4 DEF SizeInv, FilesBacked, OneHandle, Grows, CallPlace

\* Careful programs are programs.
LEMMA CarefulIsNext == [CarefulNext]_vars => [Next]_vars
<1> SUFFICES ASSUME CarefulNext PROVE Next
  OBVIOUS
<1>1. ASSUME NEW name \in Name, NEW flags \in OpenFlags,
             OpenExisting(name, flags) \/ OpenCreates(name, flags) \/ OpenFails(name, flags)
      PROVE  Next
  BY <1>1, Zenon DEF Next
<1>2. ASSUME NEW fd \in Fd, Close(fd) \/ WriteFails(fd) PROVE Next
  BY <1>2, Zenon DEF Next
<1>3. ASSUME NEW fd \in Fd, NEW len \in 0 .. MAX_LEN,
             WriteFile(fd, len) \/ ReadFails(fd, len) \/ ReadFile(fd, len)
      PROVE  Next
  BY <1>3, Zenon DEF Next
<1>4. ASSUME WriteOn PROVE Next
  BY <1>4, Zenon DEF Next
<1>5. ASSUME NEW fd \in Fd, NEW offset \in 0 .. MAX_OFFSET, Seek(fd, offset) PROVE Next
  BY <1>5, Zenon DEF Next
<1> QED
  BY <1>1, <1>2, <1>3, <1>4, <1>5, Zenon DEF CarefulNext

\* Entries that were there before, none twice, in a table that has the chains.
LEMMA EntriesKeepSizes ==
    ASSUME SizeInv, table' \in Table,
           \A f : Starts(table, f) =>
              \A k \in Nat : Absolute(table', f, k) = Absolute(table, f, k),
           \A f \in Files' : f \in Files \/ f.size = 0
    PROVE  FilesBacked'
<1> SUFFICES ASSUME NEW f \in Files' PROVE Backed(table', f.first, f.size)
  BY DEF FilesBacked
<1>1. CASE f \in Files
  <2>1. Starts(table, f.first) /\ table \in Table
    BY <1>1, LinksLinear DEF SizeInv, ApartInv
  <2>2. Backed(table, f.first, f.size)
    BY <1>1 DEF SizeInv, FilesBacked
  <2> QED
    BY <2>1, <2>2, BackedSame
<1>2. CASE f.size = 0
  <2>1. \A n \in Nat : n * B \in Nat
    BY WholeBlocks
  <2> QED
    BY <1>2, <2>1 DEF Backed
<1> QED
  BY <1>1, <1>2

\* A file opened, once, holds what its directory entry does.
LEMMA OpensKeepSizes ==
    ASSUME SizeInv, NEW name \in Name, NEW flags \in OpenFlags, ~ IsOpenAs(name),
           OpenExisting(name, flags) \/ OpenCreates(name, flags) \/ OpenFails(name, flags)
    PROVE  FilesBacked' /\ OneHandle' /\ Grows' /\ CallPlace'
<1>0. /\ inode \in [Fd -> Inode] /\ dir \in [Slot -> Entry]
      /\ table \in Table /\ Linear(table) /\ table[0] # 0
  BY LinksLinear DEF SizeInv, ApartInv, LinkInv, Types, TypeOK
<1>1. call' = call /\ call = Idle
  BY DEF OpenExisting, OpenCreates, OpenFails
<1>2. CallPlace'
  BY <1>1 DEF CallPlace
<1>3. \A g \in Fd : inode[g].entry.name # name
  BY FatAssumption DEF IsOpenAs, IsOpen, SizeInv, ApartInv, NameInv
<1>4. ASSUME dir' = dir, NEW fd \in Fd,
             inode'[fd].entry.name = NoName
             \/ \E s \in Slot : dir[s].name = name /\ inode'[fd].entry = dir[s],
             \A g \in Fd : g # fd => inode'[g] = inode[g]
      PROVE  OneHandle' /\ Grows' /\ Files' \subseteq Files
  <2>1. Files' \subseteq Files
    BY <1>4 DEF Files, Entries
  <2>2. OneHandle'
    BY <1>3, <1>4 DEF OneHandle, IsOpen, SizeInv
  <2>3. Grows'
    <3> SUFFICES ASSUME NEW g \in Fd, NEW t \in Slot, inode'[g].entry.name # NoName,
                        dir[t].name = inode'[g].entry.name
                 PROVE  dir[t].size <= inode'[g].entry.size
      BY <1>4 DEF Grows, IsOpen
    <3>1. dir[t].size \in Nat
      BY <1>0 DEF Entry
    <3>2. CASE g = fd
      <4>1. PICK s \in Slot : dir[s].name = name /\ inode'[fd].entry = dir[s]
        BY <1>4, <3>2
      <4>2. t = s
        BY <3>2, <4>1 DEF SizeInv, ApartInv, NameInv, NamesUnique
      <4> QED
        BY <3>1, <3>2, <4>1, <4>2
    <3>3. CASE g # fd
      BY <1>4, <3>3 DEF SizeInv, Grows, IsOpen
    <3> QED
      BY <3>2, <3>3
  <2> QED
    BY <2>1, <2>2, <2>3
<1>5. ASSUME UNCHANGED <<dir, inode>> PROVE OneHandle' /\ Grows' /\ Files' \subseteq Files
  BY <1>5 DEF OneHandle, Grows, IsOpen, Files, Entries, SizeInv
<1>6. ASSUME table' = table, Files' \subseteq Files PROVE FilesBacked'
  BY <1>6 DEF FilesBacked, SizeInv
<1>7. CASE OpenExisting(name, flags)
  <2>1. PICK fd \in Fd, s \in Slot :
          /\ dir[s].name = name
          /\ inode' = [inode EXCEPT ![fd] =
               Opened(flags, IF "O_APPEND" \in flags THEN dir[s].size ELSE 0, name, dir[s])]
    BY <1>7 DEF OpenExisting, Found, Lowest
  <2>2. inode'[fd].entry = dir[s] /\ \A g \in Fd : g # fd => inode'[g] = inode[g]
    BY <1>0, <2>1 DEF Opened
  <2>3. dir' = dir /\ table' = table
    BY <1>7 DEF OpenExisting, disk
  <2>4. OneHandle' /\ Grows' /\ Files' \subseteq Files
    BY <1>4, <2>1, <2>2, <2>3
  <2> QED
    BY <1>2, <1>6, <2>3, <2>4
<1>8. CASE OpenFails(name, flags)
  <2>1. dir' = dir /\ table' = table
    BY <1>8 DEF OpenFails, disk
  <2>2. CASE UNCHANGED inode
    BY <1>2, <1>5, <1>6, <2>1, <2>2
  <2>3. ASSUME NEW fd \in Fd, inode' = [inode EXCEPT ![fd] = Opened(flags, 0, name, NoEntry)]
        PROVE  FilesBacked' /\ OneHandle' /\ Grows' /\ CallPlace'
    <3>1. inode'[fd].entry.name = NoName /\ \A g \in Fd : g # fd => inode'[g] = inode[g]
      BY <1>0, <2>3 DEF Opened, NoEntry
    <3>2. OneHandle' /\ Grows' /\ Files' \subseteq Files
      BY <1>4, <2>1, <3>1
    <3> QED
      BY <1>2, <1>6, <2>1, <3>2
  <2> QED
    BY <1>8, <2>2, <2>3 DEF OpenFails
<1>9. CASE OpenCreates(name, flags)
  <2>1. PICK fd \in Fd, s \in Slot, c \in FreeCluster :
          /\ c # Bad /\ ~ Exists(name)
          /\ table' = ClusterMarked(table, c)
          /\ LET entry == [name |-> name, first |-> c, size |-> 0]
             IN \/ /\ dir' = [dir EXCEPT ![s] = entry]
                   /\ inode' = [inode EXCEPT ![fd] = Opened(flags, 0, name, entry)]
                \/ /\ inode' = [inode EXCEPT ![fd] = Opened(flags, 0, name, NoEntry)]
                   /\ UNCHANGED dir
    BY <1>9 DEF OpenCreates
  <2>2. c \in DOMAIN table /\ table[c] = 0
    BY <2>1, FreeTyped DEF SizeInv, ApartInv, LinkInv, Types, TypeOK
  <2>3. /\ table' \in Table
        /\ \A f : Starts(table, f) =>
              \A k \in Nat : Absolute(table', f, k) = Absolute(table, f, k)
    BY <1>0, <2>1, <2>2, MarkedLinear
  <2>4. CASE /\ dir' = [dir EXCEPT ![s] = [name |-> name, first |-> c, size |-> 0]]
             /\ inode' = [inode EXCEPT ![fd] =
                            Opened(flags, 0, name, [name |-> name, first |-> c, size |-> 0])]
    <3> DEFINE entry == [name |-> name, first |-> c, size |-> 0]
    <3>1. inode'[fd].entry = entry /\ \A g \in Fd : g # fd => inode'[g] = inode[g]
      BY <1>0, <2>4 DEF Opened
    <3>2. dir'[s] = entry /\ \A t \in Slot : t # s => dir'[t] = dir[t]
      BY <1>0, <2>4
    <3>3. entry.name = name /\ entry.size = 0
      OBVIOUS
    <3> HIDE DEF entry
    <3>4. \A f \in Files' : f \in Files \/ f.size = 0
      BY <3>1, <3>2, <3>3 DEF Files, Entries
    <3>5. FilesBacked'
      BY <2>3, <3>4, EntriesKeepSizes
    <3>6. OneHandle'
      BY <1>3, <3>1, <3>3 DEF OneHandle, IsOpen, SizeInv
    <3>7. \A t \in Slot : dir[t].name # name
      BY <2>1 DEF Exists
    <3>8. Grows'
      <4> SUFFICES ASSUME NEW g \in Fd, NEW t \in Slot, inode'[g].entry.name # NoName,
                          dir'[t].name = inode'[g].entry.name
                   PROVE  dir'[t].size <= inode'[g].entry.size
        BY DEF Grows, IsOpen
      <4>1. CASE t = s
        BY <1>3, <3>1, <3>2, <3>3, <4>1
      <4>2. CASE t # s
        BY <3>1, <3>2, <3>3, <3>7, <4>2 DEF SizeInv, Grows, IsOpen
      <4> QED
        BY <4>1, <4>2
    <3> QED
      BY <1>2, <3>5, <3>6, <3>8
  <2>5. CASE inode' = [inode EXCEPT ![fd] = Opened(flags, 0, name, NoEntry)] /\ UNCHANGED dir
    <3>1. inode'[fd].entry.name = NoName /\ \A g \in Fd : g # fd => inode'[g] = inode[g]
      BY <1>0, <2>5 DEF Opened, NoEntry
    <3>2. OneHandle' /\ Grows' /\ Files' \subseteq Files
      BY <1>4, <2>5, <3>1
    <3>3. FilesBacked'
      BY <2>3, <3>2, EntriesKeepSizes
    <3> QED
      BY <1>2, <3>2, <3>3
  <2> QED
    BY <2>1, <2>4, <2>5
<1> QED
  BY <1>7, <1>8, <1>9

\* A file closed has the entry that its descriptor held.
LEMMA CloseKeepsSizes ==
    ASSUME SizeInv, NEW fd \in Fd, IsOpen(fd), Close(fd)
    PROVE  FilesBacked' /\ OneHandle' /\ Grows' /\ CallPlace'
<1>0. inode \in [Fd -> Inode] /\ dir \in [Slot -> Entry]
  BY DEF SizeInv, ApartInv, LinkInv, Types, TypeOK
<1>1. table' = table /\ call' = call /\ call = Idle
  BY DEF Close
<1>2. CallPlace'
  BY <1>1 DEF CallPlace
<1>3. CASE UNCHANGED <<dir, inode>>
  BY <1>1, <1>2, <1>3 DEF FilesBacked, Files, Entries, OneHandle, Grows, IsOpen, SizeInv
<1>4. ASSUME \/ UNCHANGED dir
             \/ \E s \in Slot : dir' = [dir EXCEPT ![s] = inode[fd].entry],
             inode' = [inode EXCEPT ![fd].entry = NoEntry]
      PROVE  FilesBacked' /\ OneHandle' /\ Grows'
  <2>1. /\ inode'[fd].entry.name = NoName
        /\ \A g \in Fd : g # fd => inode'[g] = inode[g]
    BY <1>0, <1>4 DEF NoEntry, Inode
  <2>2. \A s \in Slot : dir'[s] = dir[s] \/ dir'[s] = inode[fd].entry
    BY <1>0, <1>4
  <2>3. \A f \in Files' : f \in Files
    BY <2>1, <2>2 DEF Files, Entries
  <2>4. FilesBacked'
    BY <1>1, <2>3 DEF FilesBacked, SizeInv
  <2>5. OneHandle'
    BY <2>1 DEF OneHandle, IsOpen, SizeInv
  <2>6. Grows'
    <3> SUFFICES ASSUME NEW g \in Fd, NEW t \in Slot, inode'[g].entry.name # NoName,
                        dir'[t].name = inode'[g].entry.name
                 PROVE  dir'[t].size <= inode'[g].entry.size
      BY DEF Grows, IsOpen
    <3>1. g # fd /\ inode'[g] = inode[g]
      BY <2>1
    <3>2. dir'[t] # inode[fd].entry
      BY <3>1 DEF SizeInv, OneHandle, IsOpen
    <3> QED
      BY <2>2, <3>1, <3>2 DEF SizeInv, Grows, IsOpen
  <2> QED
    BY <2>4, <2>5, <2>6
<1> QED
  BY <1>2, <1>3, <1>4 DEF Close

\* Steps that change no entry.
LEMMA OthersKeepSizes ==
    ASSUME SizeInv, UNCHANGED <<dir, table, call>>,
           \/ inode' = inode
           \/ \E fd \in Fd : \E offset : inode' = [inode EXCEPT ![fd].offset = offset]
    PROVE  FilesBacked' /\ OneHandle' /\ Grows' /\ CallPlace'
<1>1. inode \in [Fd -> Inode]
  BY DEF SizeInv, ApartInv, LinkInv, Types, TypeOK
<1>2. \A fd \in Fd : inode'[fd].entry = inode[fd].entry
  BY <1>1 DEF Inode
<1>3. Files' = Files
  BY <1>2 DEF Files, Entries
<1>4. call # Idle => call.fd \in Fd
  BY DEF SizeInv, ApartInv, LinkInv, Types, CallBegun
<1>5. CallPlace'
  BY <1>2, <1>4 DEF SizeInv, CallPlace, OnPlace
<1>6. OneHandle' /\ Grows'
  BY <1>2 DEF SizeInv, OneHandle, Grows, IsOpen
<1> QED
  BY <1>3, <1>5, <1>6 DEF SizeInv, FilesBacked

\* The first block of a call, and the others.
LEMMA WriteFileKeepsSizes ==
    ASSUME SizeInv, Types', NEW fd \in Fd, NEW len \in Nat, CarefulWrite(fd, len), WriteFile(fd, len)
    PROVE  FilesBacked' /\ OneHandle' /\ Grows' /\ CallPlace'
<1> DEFINE n == PlaceOf(fd)
           size == SizeOf(fd, len)
           more == More(inode[fd].offset, len)
<1>0. inode \in [Fd -> Inode] /\ TypeOK
  BY DEF SizeInv, ApartInv, LinkInv, Types, TypeOK
<1>1. call = Idle /\ IsOpen(fd) /\ n \in Nat
  BY CarefulFile
<1>2. PICK r : /\ BlockKept(fd, n, r, size)
               /\ Wrote(fd, r, EndOf(fd, len), size)
               /\ Continue(CallFor(fd, len), r, more = 0)
  BY CarefulFile
<1>3. size \in Nat /\ inode[fd].entry.size <= size /\ (more # 0 => size = (n + 1) * B)
  BY <1>0, CarefulSize
<1>4. more \in Nat
  BY <1>0, MoreCounts DEF Inode
<1> HIDE DEF size, more
<1>5. FilesBacked' /\ OneHandle' /\ Grows'
  BY <1>1, <1>2, <1>3, WroteKeepsSizes
<1>6. CASE call' = Idle
  BY <1>5, <1>6 DEF CallPlace
<1>7. CASE call' # Idle
  <2>1. call' = CallFor(fd, len) /\ r.ok /\ more # 0
    BY <1>2, <1>7 DEF Continue
  <2>2. /\ call'.fd = fd /\ call'.i = 1 /\ call'.len = len
        /\ call'.from = inode[fd].offset
    BY <2>1 DEF CallFor
  <2>3. inode'[fd].entry.size = size
    BY <1>0, <1>2, <2>1 DEF Wrote, Inode, Entry
  <2>4. call'.i <= More(call'.from, call'.len)
    BY <1>4, <2>1, <2>2 DEF more
  <2>5. inode'[call'.fd].entry.size = (call'.from \div B + call'.i) * B
    BY <1>3, <2>1, <2>2, <2>3 DEF PlaceOf
  <2>6. CallPlace'
    BY <2>4, <2>5 DEF CallPlace, OnPlace
  <2> QED
    BY <1>5, <2>6
<1> QED
  BY <1>5, <1>6, <1>7

LEMMA WriteOnKeepsSizes ==
    ASSUME SizeInv, Types', WriteOn
    PROVE  FilesBacked' /\ OneHandle' /\ Grows' /\ CallPlace'
<1> DEFINE fd == call.fd
           n == OnPlace
<1>0. inode \in [Fd -> Inode]
  BY DEF SizeInv, ApartInv, LinkInv, Types, TypeOK
<1>1. /\ call \in Call /\ fd \in Fd /\ IsOpen(fd) /\ n \in Nat /\ OnEnd \in Nat
      /\ call.i <= More(call.from, call.len) /\ inode[fd].entry.size <= OnEnd
  BY CarefulOn
<1>2. PICK r : /\ BlockKept(fd, n, r, OnEnd)
               /\ Wrote(fd, r, OnEnd, OnEnd)
               /\ Continue([call EXCEPT !.i = @ + 1], r, OnLast)
  BY CarefulOn
<1>3. FilesBacked' /\ OneHandle' /\ Grows'
  BY <1>1, <1>2, WroteKeepsSizes
<1>4. CASE call' = Idle
  BY <1>3, <1>4 DEF CallPlace
<1>5. CASE call' # Idle
  <2>1. call' = [call EXCEPT !.i = @ + 1] /\ r.ok /\ ~ OnLast
    BY <1>2, <1>5 DEF Continue
  <2>2. /\ call'.fd = fd /\ call'.i = call.i + 1 /\ call'.len = call.len
        /\ call'.from = call.from /\ call.i \in Nat /\ call.from \in Nat /\ call.len \in Nat
    BY <1>1, <2>1 DEF Call
  <2>3. inode'[fd].entry.size = OnEnd /\ OnEnd = (n + 1) * B
    BY <1>0, <1>1, <1>2, <2>1 DEF Wrote, Inode, Entry, OnEnd
  <2>4. More(call.from, call.len) \in Nat /\ call.from \div B \in Nat
    BY <2>2, MoreCounts, InBlock
  <2>5. call'.i <= More(call'.from, call'.len)
    BY <1>1, <2>1, <2>2, <2>4 DEF OnLast
  <2>6. n + 1 = call'.from \div B + call'.i
    BY <2>2, <2>4 DEF OnPlace
  <2>7. inode'[call'.fd].entry.size = (call'.from \div B + call'.i) * B
    BY <2>2, <2>3, <2>6
  <2>8. CallPlace'
    BY <2>5, <2>7 DEF CallPlace, OnPlace
  <2> QED
    BY <1>3, <2>8
<1> QED
  BY <1>4, <1>5

LEMMA CarefulKeepsSizes == SizeInv /\ [CarefulNext]_vars => SizeInv'
<1> SUFFICES ASSUME SizeInv, [CarefulNext]_vars PROVE SizeInv'
  OBVIOUS
<1>1. [Next]_vars
  BY CarefulIsNext
<1>2. ApartInv'
  BY <1>1, NextKeepsLinks, NextKeepsNames, NextKeepsOpen DEF SizeInv, ApartInv, LinkInv
<1>3. Types'
  BY <1>2 DEF ApartInv, LinkInv
<1> DEFINE Kept == FilesBacked' /\ OneHandle' /\ Grows' /\ CallPlace'
<1>4. ASSUME NEW name \in Name, NEW flags \in OpenFlags, ~ IsOpenAs(name),
             OpenExisting(name, flags) \/ OpenCreates(name, flags) \/ OpenFails(name, flags)
      PROVE  Kept
  BY <1>4, OpensKeepSizes
<1>5. ASSUME NEW fd \in Fd, IsOpen(fd), Close(fd) PROVE Kept
  BY <1>5, CloseKeepsSizes
<1>6. ASSUME NEW fd \in Fd, NEW len \in 0 .. MAX_LEN, CarefulWrite(fd, len), WriteFile(fd, len)
      PROVE  Kept
  <2>1. len \in Nat
    OBVIOUS
  <2> QED
    BY <1>3, <1>6, <2>1, WriteFileKeepsSizes
<1>7. ASSUME WriteOn PROVE Kept
  BY <1>3, <1>7, WriteOnKeepsSizes
<1>8. ASSUME NEW fd \in Fd, NEW len \in 0 .. MAX_LEN, ReadFails(fd, len) \/ ReadFile(fd, len)
      PROVE  Kept
  BY <1>8, OthersKeepSizes DEF ReadFails, ReadFile, disk
<1>9. ASSUME NEW fd \in Fd, WriteFails(fd) \/ \E offset \in 0 .. MAX_OFFSET : Seek(fd, offset)
      PROVE  Kept
  BY <1>9, OthersKeepSizes DEF WriteFails, Seek, disk
<1>10. ASSUME UNCHANGED vars PROVE Kept
  BY <1>10, OthersKeepSizes DEF vars, disk
<1>11. Kept
  <2> HIDE DEF Kept
  <2> QED
    BY <1>4, <1>5, <1>6, <1>7, <1>8, <1>9, <1>10 DEF CarefulNext
<1> QED
  BY <1>2, <1>11 DEF SizeInv

----------------------------------------------------------------------------
(* Every byte has a place. *)

\* A chain has as many clusters as it takes to reach the last of them.
LEMMA ChainLong ==
    ASSUME NEW first, table \in Table, Linear(table), Starts(table, first), NEW k \in Nat,
           Absolute(table, first, k) \in DOMAIN table
    PROVE  k + 1 <= Cardinality(Chain(first))
<1>1. IsFiniteSet(DOMAIN table) /\ Cardinality(DOMAIN table) = ENTRIES
  BY TableNumbers, FS_Interval, FatAssumption
<1>2. \A j \in 0 .. k : Absolute(table, first, j) \in DOMAIN table
  BY ChainPrefix
<1> DEFINE cluster == [j \in 0 .. k |-> Absolute(table, first, j)]
           reached == {cluster[j] : j \in 0 .. k}
<1>3. reached \subseteq DOMAIN table
  BY <1>2
<1>4. IsFiniteSet(0 .. k) /\ Cardinality(0 .. k) = k + 1
  BY FS_Interval
<1>5. cluster \in Bijection(0 .. k, reached)
  <2>1. \A i, j \in 0 .. k : cluster[i] = cluster[j] => i = j
    BY <1>2, ChainOnce
  <2> QED
    BY <2>1 DEF Bijection, Injection, Surjection, IsInjective
<1>6. Cardinality(reached) = k + 1
  <2>1. ExistsBijection(0 .. k, reached)
    BY <1>5 DEF ExistsBijection
  <2> HIDE DEF reached
  <2> QED
    BY <1>4, <2>1, FS_Bijection
<1>7. k + 1 <= ENTRIES
  BY <1>1, <1>3, <1>6, FS_Subset
<1>8. reached \subseteq Chain(first)
  BY <1>3, <1>7 DEF Chain
<1>9. Chain(first) \subseteq DOMAIN table
  BY DEF Chain
<1>10. IsFiniteSet(Chain(first))
  BY <1>1, <1>9, FS_Subset
<1> QED
  BY <1>6, <1>8, <1>10, FS_Subset

LEMMA SizesFit == SizeInv => SizeBacked
<1> SUFFICES ASSUME SizeInv, NEW f \in Files
             PROVE  f.size <= Cardinality(Chain(f.first)) * S * B
  BY DEF SizeBacked
<1>1. /\ table \in Table /\ Linear(table) /\ Starts(table, f.first)
      /\ f.size \in Nat /\ Backed(table, f.first, f.size)
  BY LinksLinear, FileTyped DEF SizeInv, ApartInv, LinkInv, Types, Entry, FilesBacked
<1> DEFINE m == Cardinality(Chain(f.first))
<1>2. m \in Nat
  <2>1. IsFiniteSet(DOMAIN table)
    BY <1>1, TableNumbers, FS_Interval, FatAssumption
  <2>2. IsFiniteSet(Chain(f.first))
    BY <2>1, FS_Subset DEF Chain
  <2> QED
    BY <2>2, FS_CardinalityType
<1> HIDE DEF m
<1>3. B \in Nat \ {0} /\ S \in Nat \ {0} /\ m * S \in Nat /\ (m * S) * B \in Nat
  BY <1>2, Sizes
<1>4. ASSUME (m * S) * B < f.size PROVE FALSE
  <2>1. Absolute(table, f.first, (m * S) \div S) \in DOMAIN table
    BY <1>1, <1>3, <1>4 DEF Backed
  <2>2. (m * S) \div S = m
    BY <1>2, <1>3, Quotient
  <2>3. m + 1 <= Cardinality(Chain(f.first))
    BY <1>1, <1>2, <2>1, <2>2, ChainLong
  <2> QED
    BY <1>2, <2>3 DEF m
<1> QED
  BY <1>1, <1>3, <1>4 DEF m

\* When programs are careful the chain of a file has room for all its bytes,
\* on cards and in files of any size, wherever the card fails and when it is
\* full (fat_append_block, fat_append_cluster).
THEOREM SizesAreBacked == CarefulSpec => []SizeBacked
<1>1. CarefulSpec => []SizeInv
  BY SizeInvInit, CarefulKeepsSizes, PTL DEF CarefulSpec
<1> QED
  BY <1>1, SizesFit, PTL

----------------------------------------------------------------------------
(* Blocks that are written outside the data area. *)

StrayInv ==
    /\ SizeInv /\ Reserved(table) /\ StraysOnlyBehind
    /\ \A f \in Files : f.first \notin {0, 1}

LEMMA StrayInvInit == Init => StrayInv
<1> SUFFICES ASSUME Init PROVE StrayInv
  OBVIOUS
<1>1. SizeInv
  BY SizeInvInit
<1>2. Files = {}
  BY DEF Init, Files, Entries, NoEntry
<1>3. table[1] # 0 /\ \A c \in DOMAIN table : table[c] # 1
  BY FatAssumption DEF Init, END
<1> QED
  BY <1>1, <1>2, <1>3 DEF StrayInv, Reserved, StraysOnlyBehind, Init

\* What a step makes of the cluster table keeps cluster 1.
LEMMA GrownReserved ==
    ASSUME TypeOK, table[0] # 0, Reserved(table), NEW c, NEW t, Grown(t, c)
    PROVE  Reserved(t)
<1>1. table \in Table /\ 1 \in DOMAIN table /\ DOMAIN table = 0 .. ENTRIES - 1 /\ END # 0 /\ END # 1
  BY FatAssumption DEF TypeOK, Table, END
<1>2. CASE t = table
  BY <1>2
<1>3. ASSUME c \in DOMAIN table, table[c] = 0, t = [table EXCEPT ![c] = END] PROVE Reserved(t)
  BY <1>1, <1>3 DEF Reserved
<1>4. ASSUME c \in DOMAIN table, table[c] = 0, NEW last \in DOMAIN table,
             t = [[table EXCEPT ![c] = END] EXCEPT ![last] = c]
      PROVE  Reserved(t)
  <2>1. c # 1 /\ c # 0
    BY <1>4 DEF Reserved
  <2>2. \A d \in DOMAIN table : t[d] = IF d = last THEN c ELSE IF d = c THEN END ELSE table[d]
    BY <1>4
  <2>3. DOMAIN t = DOMAIN table
    BY <1>4
  <2> QED
    BY <1>1, <2>1, <2>2, <2>3 DEF Reserved
<1> QED
  BY <1>2, <1>3, <1>4 DEF Grown

\* A block is written to a cluster of the table.
LEMMA WroteKeepsReserved ==
    ASSUME StrayInv, NEW fd \in Fd, IsOpen(fd), NEW n \in Nat,
           NEW r, NEW c, NEW offset, NEW size,
           BlockKept(fd, n, r, size), Grown(r.table, c), Wrote(fd, r, offset, size)
    PROVE  Reserved(table') /\ StraysOnlyBehind' /\ \A f \in Files' : f.first \notin {0, 1}
<1>1. /\ LinkInv /\ TypeOK /\ table[0] # 0 /\ inode[fd].entry \in Files
      /\ inode \in [Fd -> Inode]
  BY OpenFile, LinksLinear DEF StrayInv, TypeOK
<1>2. table' = r.table /\ strayed' = r.strayed /\ dir' = dir
  BY DEF Wrote
<1>3. Reserved(table')
  BY <1>1, <1>2, GrownReserved DEF StrayInv
<1>4. r.strayed \subseteq CLUSTERS + 2 .. ENTRIES - 1
  <2> DEFINE first == inode[fd].entry.first
  <2>1. strayed \subseteq CLUSTERS + 2 .. ENTRIES - 1 /\ first \notin {0, 1} /\ Reserved(table)
    BY <1>1 DEF StrayInv, StraysOnlyBehind
  <2>2. ASSUME NEW d \in DOMAIN table, Sector(d, n) \notin DOMAIN data,
               table[d] = 0 \/ \E k \in Nat : d = Absolute(table, first, k)
        PROVE  d \in CLUSTERS + 2 .. ENTRIES - 1
    <3>1. d \in 2 .. ENTRIES - 1 /\ d > CLUSTERS + 1
      BY <1>1, <2>1, <2>2, ChainInTable
    <3> QED
      BY <3>1, FatAssumption
  <2>3. \/ r.strayed = strayed
        \/ \E d \in DOMAIN table :
             /\ r.strayed = strayed \cup {d}
             /\ Sector(d, n) \notin DOMAIN data
             /\ table[d] = 0 \/ \E k \in Nat : d = Absolute(table, first, k)
    BY DEF BlockKept
  <2> HIDE DEF first
  <2> QED
    BY <2>1, <2>2, <2>3
<1>5. \A g \in Fd : /\ inode'[g].entry.name = inode[g].entry.name
                    /\ inode'[g].entry.first = inode[g].entry.first
  BY <1>1 DEF Wrote, Inode, Entry
<1>6. \A f \in Files' : \E g \in Files : f.first = g.first
  BY <1>2, <1>5 DEF Files, Entries
<1> QED
  BY <1>2, <1>3, <1>4, <1>6 DEF StrayInv, StraysOnlyBehind

\* A step that writes no block.
LEMMA OthersKeepReserved ==
    ASSUME StrayInv, UNCHANGED strayed, Reserved(table'),
           \A f \in Files' : f.first \notin {0, 1} \/ \E g \in Files : f.first = g.first
    PROVE  Reserved(table') /\ StraysOnlyBehind' /\ \A f \in Files' : f.first \notin {0, 1}
  BY DEF StrayInv, StraysOnlyBehind

\* What a block makes of the cluster table.
LEMMA OutcomeGrows ==
    ASSUME TypeOK, NEW fd, NEW n, NEW r, Outcome(fd, n, r)
    PROVE  \E c : Grown(r.table, c)
<1>1. PICK block, card : \E c \in FreeCluster :
        r = Over(fd, n, block, card) \/ r = Behind(fd, block, card, c)
  BY DEF Outcome
<1>2. PICK c \in FreeCluster : r = Over(fd, n, block, card) \/ r = Behind(fd, block, card, c)
  BY <1>1
<1>3. /\ Grown(Over(fd, n, block, card).table, c)
      /\ Grown(Behind(fd, block, card, c).table, c)
  BY BlockGrows DEF Over, Behind
<1> QED
  BY <1>2, <1>3

\* The other steps take no cluster but a free one.
LEMMA OpensKeepReserved ==
    ASSUME StrayInv, NEW name \in Name, NEW flags \in OpenFlags,
           OpenExisting(name, flags) \/ OpenCreates(name, flags) \/ OpenFails(name, flags)
    PROVE  Reserved(table') /\ StraysOnlyBehind' /\ \A f \in Files' : f.first \notin {0, 1}
<1>0. /\ inode \in [Fd -> Inode] /\ dir \in [Slot -> Entry] /\ TypeOK
      /\ table[0] # 0 /\ Reserved(table)
  BY DEF StrayInv, SizeInv, ApartInv, LinkInv, Types, TypeOK
<1>1. strayed' = strayed
  BY DEF OpenExisting, OpenCreates, OpenFails, disk
<1>2. CASE OpenExisting(name, flags)
  <2>1. PICK fd \in Fd, s \in Slot : inode' = [inode EXCEPT ![fd] =
          Opened(flags, IF "O_APPEND" \in flags THEN dir[s].size ELSE 0, name, dir[s])]
    BY <1>2 DEF OpenExisting
  <2>2. inode'[fd].entry = dir[s] /\ \A g \in Fd : g # fd => inode'[g] = inode[g]
    BY <1>0, <2>1 DEF Opened
  <2>3. dir' = dir /\ table' = table
    BY <1>2 DEF OpenExisting, disk
  <2>4. Files' \subseteq Files
    BY <2>2, <2>3 DEF Files, Entries
  <2> QED
    BY <1>0, <1>1, <2>3, <2>4, OthersKeepReserved
<1>3. CASE OpenFails(name, flags)
  <2>1. \/ UNCHANGED inode
        \/ \E fd \in Fd : inode' = [inode EXCEPT ![fd] = Opened(flags, 0, name, NoEntry)]
    BY <1>3 DEF OpenFails
  <2>2. \A g \in Fd : inode'[g].entry.name = NoName \/ inode'[g] = inode[g]
    BY <1>0, <2>1 DEF Opened, NoEntry
  <2>3. dir' = dir /\ table' = table
    BY <1>3 DEF OpenFails, disk
  <2>4. Files' \subseteq Files
    BY <2>2, <2>3 DEF Files, Entries
  <2> QED
    BY <1>0, <1>1, <2>3, <2>4, OthersKeepReserved
<1>4. CASE OpenCreates(name, flags)
  <2>1. PICK fd \in Fd, s \in Slot, c \in FreeCluster :
          /\ c # Bad /\ table' = ClusterMarked(table, c)
          /\ LET entry == [name |-> name, first |-> c, size |-> 0]
             IN \/ /\ dir' = [dir EXCEPT ![s] = entry]
                   /\ inode' = [inode EXCEPT ![fd] = Opened(flags, 0, name, entry)]
                \/ /\ inode' = [inode EXCEPT ![fd] = Opened(flags, 0, name, NoEntry)]
                   /\ UNCHANGED dir
    BY <1>4 DEF OpenCreates
  <2>2. c \in DOMAIN table /\ table[c] = 0
    BY <1>0, <2>1, FreeTyped DEF TypeOK
  <2>3. c \notin {0, 1} /\ Reserved(table')
    <3>1. Grown(table', c)
      BY <2>1, <2>2 DEF Grown, ClusterMarked
    <3>2. Reserved(table')
      BY <1>0, <3>1, GrownReserved
    <3> QED
      BY <1>0, <2>2, <3>2 DEF Reserved
  <2> DEFINE entry == [name |-> name, first |-> c, size |-> 0]
  <2>4. \A g \in Fd : \/ inode'[g].entry.name = NoName \/ inode'[g].entry = entry
                      \/ inode'[g] = inode[g]
    BY <1>0, <2>1 DEF Opened, NoEntry
  <2>5. \A t \in Slot : dir'[t] = entry \/ dir'[t] = dir[t]
    BY <1>0, <2>1
  <2>6. entry.first = c
    OBVIOUS
  <2> HIDE DEF entry
  <2>7. \A f \in Files' : f.first = c \/ f \in Files
    BY <2>4, <2>5, <2>6 DEF Files, Entries
  <2> QED
    BY <1>1, <2>3, <2>7, OthersKeepReserved
<1> QED
  BY <1>2, <1>3, <1>4

LEMMA CloseKeepsReserved ==
    ASSUME StrayInv, NEW fd \in Fd, Close(fd)
    PROVE  Reserved(table') /\ StraysOnlyBehind' /\ \A f \in Files' : f.first \notin {0, 1}
<1>0. inode \in [Fd -> Inode] /\ dir \in [Slot -> Entry] /\ Reserved(table)
  BY DEF StrayInv, SizeInv, ApartInv, LinkInv, Types, TypeOK
<1>1. table' = table /\ strayed' = strayed
  BY DEF Close
<1>2. \/ UNCHANGED <<dir, inode>>
      \/ /\ \/ UNCHANGED dir
            \/ \E s \in Slot : dir' = [dir EXCEPT ![s] = inode[fd].entry]
         /\ inode' = [inode EXCEPT ![fd].entry = NoEntry]
  BY DEF Close
<1>3. \A g \in Fd : inode'[g].entry.name = NoName \/ inode'[g] = inode[g]
  BY <1>0, <1>2 DEF NoEntry, Inode
<1>4. \A s \in Slot : dir'[s] = dir[s] \/ dir'[s] = inode[fd].entry
  BY <1>0, <1>2
<1>5. Files' \subseteq Files
  BY <1>3, <1>4 DEF Files, Entries
<1> QED
  BY <1>0, <1>1, <1>5, OthersKeepReserved

LEMMA SoughtKeepsReserved ==
    ASSUME StrayInv, UNCHANGED disk,
           \/ inode' = inode
           \/ \E fd \in Fd : \E offset : inode' = [inode EXCEPT ![fd].offset = offset]
    PROVE  Reserved(table') /\ StraysOnlyBehind' /\ \A f \in Files' : f.first \notin {0, 1}
<1>1. inode \in [Fd -> Inode] /\ Reserved(table)
  BY DEF StrayInv, SizeInv, ApartInv, LinkInv, Types, TypeOK
<1>2. \A fd \in Fd : inode'[fd].entry = inode[fd].entry
  BY <1>1 DEF Inode
<1>3. table' = table /\ strayed' = strayed /\ Files' = Files
  BY <1>2 DEF disk, Files, Entries
<1> QED
  BY <1>1, <1>3, OthersKeepReserved

LEMMA CarefulKeepsReserved == StrayInv /\ [CarefulNext]_vars => StrayInv'
<1> SUFFICES ASSUME StrayInv, [CarefulNext]_vars PROVE StrayInv'
  OBVIOUS
<1> DEFINE Kept == Reserved(table') /\ StraysOnlyBehind' /\ \A f \in Files' : f.first \notin {0, 1}
<1>1. SizeInv /\ TypeOK
  BY DEF StrayInv, SizeInv, ApartInv, LinkInv, Types
<1>2. SizeInv'
  BY <1>1, CarefulKeepsSizes
<1>3. ASSUME NEW name \in Name, NEW flags \in OpenFlags,
             OpenExisting(name, flags) \/ OpenCreates(name, flags) \/ OpenFails(name, flags)
      PROVE  Kept
  BY <1>3, OpensKeepReserved
<1>4. ASSUME NEW fd \in Fd, Close(fd) PROVE Kept
  BY <1>4, CloseKeepsReserved
<1>5. ASSUME NEW fd \in Fd, NEW len \in 0 .. MAX_LEN, CarefulWrite(fd, len), WriteFile(fd, len)
      PROVE  Kept
  <2>1. len \in Nat
    OBVIOUS
  <2>2. IsOpen(fd) /\ PlaceOf(fd) \in Nat
    BY <1>1, <1>5, <2>1, CarefulFile
  <2>3. PICK r : /\ BlockKept(fd, PlaceOf(fd), r, SizeOf(fd, len))
                 /\ Wrote(fd, r, EndOf(fd, len), SizeOf(fd, len))
    BY <1>1, <1>5, <2>1, CarefulFile
  <2>4. PICK c : Grown(table', c)
    BY <1>1, <1>5, WriteFileOutcome, OutcomeGrows
  <2>5. Grown(r.table, c)
    BY <2>3, <2>4 DEF Wrote
  <2> QED
    BY <2>2, <2>3, <2>5, WroteKeepsReserved
<1>6. ASSUME WriteOn PROVE Kept
  <2>1. call.fd \in Fd /\ IsOpen(call.fd) /\ OnPlace \in Nat
    BY <1>1, <1>6, CarefulOn
  <2>2. PICK r : BlockKept(call.fd, OnPlace, r, OnEnd) /\ Wrote(call.fd, r, OnEnd, OnEnd)
    BY <1>1, <1>6, CarefulOn
  <2>3. PICK c : Grown(table', c)
    BY <1>1, <1>6, WriteOnOutcome, OutcomeGrows
  <2>4. Grown(r.table, c)
    BY <2>2, <2>3 DEF Wrote
  <2> QED
    BY <2>1, <2>2, <2>4, WroteKeepsReserved
<1>7. ASSUME NEW fd \in Fd, NEW len \in 0 .. MAX_LEN, ReadFails(fd, len) \/ ReadFile(fd, len)
      PROVE  Kept
  BY <1>7, SoughtKeepsReserved DEF ReadFails, ReadFile
<1>8. ASSUME NEW fd \in Fd, WriteFails(fd) \/ \E offset \in 0 .. MAX_OFFSET : Seek(fd, offset)
      PROVE  Kept
  BY <1>8, SoughtKeepsReserved DEF WriteFails, Seek
<1>9. ASSUME UNCHANGED vars PROVE Kept
  BY <1>9, SoughtKeepsReserved DEF vars
<1>10. Kept
  <2> HIDE DEF Kept
  <2> QED
    BY <1>3, <1>4, <1>5, <1>6, <1>7, <1>8, <1>9 DEF CarefulNext
<1> QED
  BY <1>2, <1>10 DEF StrayInv

\* When programs are careful, a block is written to a cluster that the table has
\* an entry for, and so outside the data area only where the card has fewer
\* clusters than the table, wherever the card fails and when it is full
\* (fat_get_absolute_cluster, fat_append_cluster, fat_write_block).
THEOREM WritesFollowTheTable == CarefulSpec => []StraysOnlyBehind
<1>1. CarefulSpec => []StrayInv
  BY StrayInvInit, CarefulKeepsReserved, PTL DEF CarefulSpec
<1>2. StrayInv => StraysOnlyBehind
  BY DEF StrayInv
<1> QED
  BY <1>1, <1>2, PTL

============================================================================
