--------------------------- MODULE FileTreeProofs ---------------------------
(***************************************************************************)
(* What is found on the disk of FileSystem, for every disk and every set   *)
(* of names: without stops it is the tree of FileTree, and what completed  *)
(* calls have made survives stops.                                         *)
(*                                                                         *)
(* Both are about the disk in the middle of a call too.  Found says in     *)
(* terms of the disk what a path leads to.  Without stops Own and Linked   *)
(* hold of all the disk at every moment (Orderly).  After a stop they hold *)
(* of a part of it only, the directories without the entries of stopped    *)
(* calls; what completed calls have made is in that part (Intact).         *)
(***************************************************************************)
EXTENDS FileSystemProofs

-----------------------------------------------------------------------------
(* The files on disk are a tree.                                           *)

\* The first n names of a path lead through directories.
Way(tables, path, n, at) ==
    /\ at[0] = DirectorySector
    /\ \A i \in 1 .. n : \E e \in tables[at[i - 1]] : e.name = path[i] /\ e.sector = at[i] /\ e.isDir

\* The path is there, a file or a directory of that size.
Found(tables, headers, path, node) ==
    \E at, e, c :
        /\ Way(tables, path, Len(path) - 1, at)
        /\ e \in tables[at[Len(path) - 1]] /\ e.name = Last(path)
        /\ IsChain(c) /\ Stored(headers, e.sector, c)
        /\ node = [isDir |-> e.isDir, size |-> FileLength(c)]

\* Two chains that start in the same sector of a disk are one.
LEMMA ChainsAgree ==
    ASSUME NEW headers, NEW s, NEW c, NEW d, IsChain(c), IsChain(d),
           Stored(headers, s, c), Stored(headers, s, d)
    PROVE  c = d
<1>1. PICK m \in Nat, n \in Nat : m = Len(c) /\ n = Len(d) /\ m >= 1 /\ n >= 1
  BY DEF IsChain
<1> DEFINE T == {k \in Nat : k >= 1 /\ k <= m /\ k <= n => c[k] = d[k]}
<1>2. ASSUME NEW k \in Nat, \A j \in 0 .. k - 1 : j \in T PROVE k \in T
  <2> SUFFICES ASSUME k >= 1, k <= m, k <= n PROVE c[k] = d[k]
    OBVIOUS
  <2>1. k \in 1 .. Len(c) /\ k \in 1 .. Len(d)
    BY <1>1
  <2>2. headers[Home(c, s, k)] = c[k] /\ headers[Home(d, s, k)] = d[k]
    BY <2>1 DEF Stored
  <2>3. Home(c, s, k) = Home(d, s, k)
    <3>1. CASE k = 1
      BY <3>1 DEF Home
    <3>2. CASE k > 1
      <4>1. k - 1 \in 0 .. k - 1 /\ k - 1 >= 1 /\ k - 1 <= m /\ k - 1 <= n
        BY <3>2
      <4>2. c[k - 1] = d[k - 1]
        BY <1>2, <4>1
      <4> QED
        BY <3>2, <4>2 DEF Home
    <3> QED
      BY <3>1, <3>2
  <2> QED
    BY <2>2, <2>3
<1>3. \A k \in Nat : k \in T
  <2> HIDE DEF T
  <2> QED
    BY <1>2, AllNumbers
<1>4. \A k \in 1 .. Len(c) : k <= n => c[k] = d[k]
  BY <1>1, <1>3
<1>5. NoSector \notin Sectors
  BY DiskAssumption DEF NoSector, Sectors
<1>6. m = n
  <2>1. CASE m < n
    <3>1. m \in 1 .. Len(d) - 1 /\ m \in 1 .. Len(c) /\ m <= n
      BY <1>1, <2>1
    <3>2. c[m] = d[m]
      BY <1>4, <3>1
    <3>3. d[m].next \in Sectors /\ c[m].next = NoSector
      BY <1>1, <3>1 DEF IsChain
    <3> QED
      BY <1>5, <3>2, <3>3
  <2>2. CASE n < m
    <3>1. n \in 1 .. Len(c) - 1 /\ n \in 1 .. Len(c) /\ n <= n
      BY <1>1, <2>2
    <3>2. c[n] = d[n]
      BY <1>4, <3>1
    <3>3. c[n].next \in Sectors /\ d[n].next = NoSector
      BY <1>1, <3>1 DEF IsChain
    <3> QED
      BY <1>5, <3>2, <3>3
  <2> QED
    BY <1>1, <2>1, <2>2
<1>7. /\ c \in Seq([numBytes : Nat, dataSectors : Seq(Sectors), next : Sectors \cup {NoSector}])
      /\ d \in Seq([numBytes : Nat, dataSectors : Seq(Sectors), next : Sectors \cup {NoSector}])
      /\ Len(c) = Len(d)
      /\ \A k \in 1 .. Len(c) : c[k] = d[k]
  BY <1>1, <1>4, <1>6 DEF IsChain
<1> QED
  BY <1>7, SeqEqual

\* A way stays in the directories.
LEMMA WayLinked ==
    ASSUME NEW tables, NEW owners, NEW dirs, Linked(tables, owners, dirs),
           NEW path, NEW n \in Nat, NEW at, Way(tables, path, n, at)
    PROVE  /\ \A i \in 0 .. n : at[i] \in dirs
           /\ \A i \in 1 .. n : at[i] # DirectorySector
<1> DEFINE T == {k \in Nat : k <= n => at[k] \in dirs /\ (k > 0 => at[k] # DirectorySector)}
<1>1. ASSUME NEW k \in Nat, \A j \in 0 .. k - 1 : j \in T PROVE k \in T
  <2> SUFFICES ASSUME k <= n PROVE at[k] \in dirs /\ (k > 0 => at[k] # DirectorySector)
    OBVIOUS
  <2>1. CASE k = 0
    BY <2>1 DEF Way, Linked
  <2>2. CASE k > 0
    <3>1. k - 1 \in 0 .. k - 1 /\ k - 1 <= n /\ k \in 1 .. n
      BY <2>2
    <3>2. at[k - 1] \in dirs
      BY <1>1, <3>1
    <3>3. PICK e \in tables[at[k - 1]] : e.sector = at[k] /\ e.isDir
      BY <3>1 DEF Way
    <3>4. e.sector \in owners \ {FreeMapSector, DirectorySector} /\ e.sector \in dirs
      BY <3>2, <3>3 DEF Linked
    <3> QED
      BY <3>3, <3>4
  <2> QED
    BY <2>1, <2>2
<1>2. \A k \in Nat : k \in T
  <2> HIDE DEF T
  <2> QED
    BY <1>1, AllNumbers
<1> QED
  BY <1>2

\* A way is still one while entries are only added.
LEMMA WayStill ==
    ASSUME NEW tables, NEW owners, NEW dirs, Linked(tables, owners, dirs),
           NEW path, NEW n \in Nat, NEW at, Way(tables, path, n, at),
           NEW tables2, \A d \in dirs : tables[d] \subseteq tables2[d]
    PROVE  Way(tables2, path, n, at)
<1>1. ASSUME NEW i \in 1 .. n
      PROVE  \E e \in tables2[at[i - 1]] : e.name = path[i] /\ e.sector = at[i] /\ e.isDir
  <2>1. i - 1 \in 0 .. n
    OBVIOUS
  <2>2. at[i - 1] \in dirs
    BY <2>1, WayLinked
  <2>3. PICK e \in tables[at[i - 1]] : e.name = path[i] /\ e.sector = at[i] /\ e.isDir
    BY DEF Way
  <2> QED
    BY <2>2, <2>3
<1> QED
  BY <1>1 DEF Way

\* With fewer entries the directories are linked too.
LEMMA LinkedLess ==
    ASSUME NEW tables, NEW owners, NEW dirs, Linked(tables, owners, dirs),
           NEW tables2, \A d \in dirs : tables2[d] \subseteq tables[d]
    PROVE  Linked(tables2, owners, dirs)
<1>1. /\ {FreeMapSector, DirectorySector} \subseteq owners
      /\ DirectorySector \in dirs /\ dirs \subseteq owners
  BY DEF Linked
<1>2. \A d \in dirs : \A e \in tables2[d] :
          /\ e.sector \in owners \ {FreeMapSector, DirectorySector}
          /\ e.isDir => e.sector \in dirs
  BY DEF Linked
<1>3. \A c, d \in dirs : \A e \in tables2[c], f \in tables2[d] : e.sector = f.sector => c = d /\ e = f
  BY DEF Linked
<1> QED
  BY <1>1, <1>2, <1>3 DEF Linked

\* Ways that end in the same directory are the same.
LEMMA WaysDiffer ==
    ASSUME NEW tables, NEW owners, NEW dirs, Linked(tables, owners, dirs),
           NEW p, NEW q, NEW at, NEW to
    PROVE  \A m, n \in Nat : Way(tables, p, m, at) /\ Way(tables, q, n, to) /\ at[m] = to[n] =>
               m = n /\ Agree(p, q, 1, m)
<1> DEFINE Same(m) == \A n \in Nat : Way(tables, p, m, at) /\ Way(tables, q, n, to) /\ at[m] = to[n] =>
                          m = n /\ Agree(p, q, 1, m)
           T == {m \in Nat : Same(m)}
<1>1. ASSUME NEW m \in Nat, \A j \in 0 .. m - 1 : j \in T PROVE m \in T
  <2> SUFFICES ASSUME NEW n \in Nat, Way(tables, p, m, at), Way(tables, q, n, to), at[m] = to[n]
               PROVE  m = n /\ Agree(p, q, 1, m)
    OBVIOUS
  <2>1. /\ \A i \in 1 .. m : at[i] # DirectorySector
        /\ \A i \in 1 .. n : to[i] # DirectorySector
    BY WayLinked
  <2>2. at[0] = DirectorySector /\ to[0] = DirectorySector
    BY DEF Way
  <2>3. CASE m = 0
    <3>1. n = 0
      BY <2>1, <2>2, <2>3
    <3> QED
      BY <2>3, <3>1 DEF Agree
  <2>4. CASE m > 0
    <3>1. n > 0 /\ m \in 1 .. m
      BY <2>1, <2>2, <2>4
    <3>2. PICK k \in Nat, l \in Nat : k = m - 1 /\ l = n - 1 /\ k \in 0 .. m - 1 /\ k \in 0 .. m /\ l \in 0 .. n
      BY <2>4, <3>1
    <3>3. at[k] \in dirs /\ to[l] \in dirs
      BY <3>2, WayLinked
    <3>4. PICK e \in tables[at[k]], f \in tables[to[l]] :
              e.name = p[m] /\ e.sector = at[m] /\ f.name = q[n] /\ f.sector = to[n]
      <4>1. m \in 1 .. m /\ n \in 1 .. n
        BY <3>1
      <4> QED
        BY <3>2, <4>1 DEF Way
    <3>5. at[k] = to[l] /\ e = f
      BY <3>3, <3>4 DEF Linked
    <3>6. Way(tables, p, k, at) /\ Way(tables, q, l, to)
      BY <3>2 DEF Way
    <3>7. k = l /\ Agree(p, q, 1, k)
      BY <1>1, <3>2, <3>5, <3>6
    <3>8. m = n /\ p[m] = q[m]
      BY <3>2, <3>4, <3>5, <3>7
    <3> QED
      BY <3>2, <3>7, <3>8 DEF Agree
  <2> QED
    BY <2>3, <2>4
<1>2. \A m \in Nat : m \in T
  <2> HIDE DEF T
  <2> QED
    BY <1>1, AllNumbers
<1> QED
  BY <1>2

\* What is found is still found while entries are only added and the owners'
\* headers stay.
LEMMA FoundStill ==
    ASSUME NEW tables, NEW owners, NEW dirs, Linked(tables, owners, dirs),
           NEW map, NEW headers, NEW chain, Own(map, headers, owners, chain),
           NEW tables2, \A d \in dirs : tables[d] \subseteq tables2[d],
           NEW map2, NEW headers2, Own(map2, headers2, owners, chain),
           NEW path \in Paths, NEW node, Found(tables, headers, path, node)
    PROVE  Found(tables2, headers2, path, node)
<1>1. PICK m \in Nat : m = Len(path) - 1
  BY PathIs
<1>2. PICK at, e, c :
          /\ Way(tables, path, m, at)
          /\ e \in tables[at[m]] /\ e.name = Last(path)
          /\ IsChain(c) /\ Stored(headers, e.sector, c)
          /\ node = [isDir |-> e.isDir, size |-> FileLength(c)]
  BY <1>1 DEF Found
<1>3. Way(tables2, path, m, at)
  BY <1>2, WayStill
<1>4. at[m] \in dirs
  <2>1. m \in 0 .. m
    BY <1>1
  <2> QED
    BY <1>2, <2>1, WayLinked
<1>5. e \in tables2[at[m]]
  BY <1>2, <1>4
<1>6. e.sector \in owners
  BY <1>2, <1>4 DEF Linked
<1>7. /\ IsChain(chain[e.sector])
      /\ Stored(headers, e.sector, chain[e.sector]) /\ Stored(headers2, e.sector, chain[e.sector])
  BY <1>6 DEF Own, Holds
<1>8. c = chain[e.sector]
  BY <1>2, <1>7, ChainsAgree
<1>9. Stored(headers2, e.sector, c)
  BY <1>7, <1>8
<1> QED
  BY <1>1, <1>2, <1>3, <1>5, <1>9 DEF Found

\* While the directories and the owners' headers stay, so does all that is found.
LEMMA FoundSame ==
    ASSUME NEW tables, NEW owners, NEW dirs, Linked(tables, owners, dirs),
           NEW map, NEW headers, NEW chain, Own(map, headers, owners, chain),
           NEW tables2, \A d \in dirs : tables2[d] = tables[d],
           NEW map2, NEW headers2, Own(map2, headers2, owners, chain),
           NEW path \in Paths, NEW node
    PROVE  Found(tables2, headers2, path, node) <=> Found(tables, headers, path, node)
<1>1. Found(tables, headers, path, node) => Found(tables2, headers2, path, node)
  <2>1. \A d \in dirs : tables[d] \subseteq tables2[d]
    OBVIOUS
  <2> QED
    BY <2>1, FoundStill
<1>2. Found(tables2, headers2, path, node) => Found(tables, headers, path, node)
  <2>1. /\ \A d \in dirs : tables2[d] \subseteq tables[d]
        /\ \A d \in dirs : tables[d] = tables2[d]
    OBVIOUS
  <2>2. Linked(tables2, owners, dirs)
    BY <2>1, LinkedLess
  <2> QED
    BY <2>1, <2>2, FoundStill
<1> QED
  BY <1>1, <1>2

\* The directories without an entry of the root, or with one more in some directory
\* (which is a directory's that is empty, or a file's).
Without(tables, tables2, dirs, e) ==
    /\ e \in tables[DirectorySector] /\ \A f \in tables[DirectorySector] : f.name = e.name => f = e
    /\ \A d \in dirs : tables2[d] = IF d = DirectorySector THEN tables[d] \ {e} ELSE tables[d]
With(tables, tables2, dirs, dir, e) ==
    /\ e.isDir => tables2[e.sector] = {}
    /\ \A d \in dirs : tables2[d] = IF d = dir THEN tables[d] \cup {e} ELSE tables[d]

\* Without an entry of the root, what is below it is not found, and all else is.
LEMMA FoundRemove ==
    ASSUME NEW tables, NEW owners, NEW dirs, Linked(tables, owners, dirs),
           NEW map, NEW headers, NEW chain, Own(map, headers, owners, chain),
           NEW e, NEW tables2, Without(tables, tables2, dirs, e),
           NEW path \in Paths, NEW node
    PROVE  Found(tables2, headers, path, node) <=> Found(tables, headers, path, node) /\ path[1] # e.name
<1> USE DEF Without
<1>1. PICK m \in Nat : m = Len(path) - 1 /\ Last(path) = path[m + 1]
  BY PathIs DEF Last
<1>2. \A d \in dirs : tables2[d] \subseteq tables[d]
  OBVIOUS
<1>3. Linked(tables2, owners, dirs)
  BY <1>2, LinkedLess
<1>4. DirectorySector \in dirs
  BY DEF Linked
<1>5. ASSUME Found(tables2, headers, path, node)
      PROVE  Found(tables, headers, path, node) /\ path[1] # e.name
  <2>1. Found(tables, headers, path, node)
    BY <1>2, <1>3, <1>5, FoundStill
  <2>2. PICK at, f : /\ Way(tables2, path, m, at)
                     /\ f \in tables2[at[m]] /\ f.name = path[m + 1]
    BY <1>1, <1>5 DEF Found
  <2>3. \E g \in tables2[DirectorySector] : g.name = path[1]
    <3>1. at[0] = DirectorySector
      BY <2>2 DEF Way
    <3>2. CASE m = 0
      BY <2>2, <3>1, <3>2
    <3>3. CASE m > 0
      <4>1. 1 \in 1 .. m /\ 1 - 1 = 0
        BY <3>3
      <4> QED
        BY <2>2, <3>1, <4>1 DEF Way
    <3> QED
      BY <3>2, <3>3
  <2>4. tables2[DirectorySector] = tables[DirectorySector] \ {e}
    BY <1>4
  <2> QED
    BY <2>1, <2>3, <2>4
<1>6. ASSUME Found(tables, headers, path, node), path[1] # e.name
      PROVE  Found(tables2, headers, path, node)
  <2>1. PICK at, f, c :
            /\ Way(tables, path, m, at)
            /\ f \in tables[at[m]] /\ f.name = path[m + 1]
            /\ IsChain(c) /\ Stored(headers, f.sector, c)
            /\ node = [isDir |-> f.isDir, size |-> FileLength(c)]
    BY <1>1, <1>6 DEF Found
  <2>2. ASSUME NEW i \in 0 .. m, NEW g \in tables[at[i]], g.name = path[i + 1]
        PROVE  g \in tables2[at[i]]
    <3>1. at[i] \in dirs
      BY <2>1, WayLinked
    <3>2. at[i] = DirectorySector => i = 0
      BY <2>1, WayLinked
    <3>3. at[i] = DirectorySector => g # e
      BY <1>6, <2>2, <3>2
    <3> QED
      BY <2>2, <3>1, <3>3
  <2>3. Way(tables2, path, m, at)
    <3>1. ASSUME NEW i \in 1 .. m
          PROVE  \E g \in tables2[at[i - 1]] : g.name = path[i] /\ g.sector = at[i] /\ g.isDir
      <4>1. i - 1 \in 0 .. m /\ (i - 1) + 1 = i
        OBVIOUS
      <4>2. PICK g \in tables[at[i - 1]] : g.name = path[i] /\ g.sector = at[i] /\ g.isDir
        BY <2>1 DEF Way
      <4>3. g \in tables2[at[i - 1]]
        BY <2>2, <4>1, <4>2
      <4> QED
        BY <4>2, <4>3
    <3> QED
      BY <2>1, <3>1 DEF Way
  <2>4. f \in tables2[at[m]]
    <3>1. m \in 0 .. m
      OBVIOUS
    <3> QED
      BY <2>1, <2>2, <3>1
  <2> QED
    BY <1>1, <2>1, <2>3, <2>4 DEF Found
<1> QED
  BY <1>5, <1>6

\* The last name of a path comes after the others.
LEMMA NameBefore ==
    ASSUME NEW path \in Paths
    PROVE  \E m \in Nat : m = Len(path) - 1 /\ Last(path) = path[m + 1] /\ path \in Seq(Names)
<1>1. path \in Seq(Names) /\ Len(path) \in Nat /\ Len(path) >= 1
  BY PathIs
<1>2. PICK m \in Nat : m = Len(path) - 1 /\ m + 1 = Len(path)
  BY <1>1
<1> QED
  BY <1>1, <1>2 DEF Last

\* With an entry for a new file, or for a new and empty directory, that is found
\* beside all else.
LEMMA FoundAdd ==
    ASSUME NEW tables, NEW owners, NEW dirs, Linked(tables, owners, dirs),
           NEW map, NEW headers, NEW chain, Own(map, headers, owners, chain),
           NEW to, NEW new \in Paths, Way(tables, new, Len(new) - 1, to),
           NEW e, e.name = Last(new), e.sector \notin owners,
           NEW tables2, With(tables, tables2, dirs, to[Len(new) - 1], e),
           NEW map2, NEW headers2, Own(map2, headers2, owners, chain),
           NEW c, IsChain(c), Stored(headers2, e.sector, c),
           NEW path \in Paths, NEW node
    PROVE  Found(tables2, headers2, path, node) <=>
               \/ Found(tables, headers, path, node)
               \/ path = new /\ node = [isDir |-> e.isDir, size |-> FileLength(c)]
<1> USE DEF With
<1>1. PICK m \in Nat : m = Len(path) - 1 /\ Last(path) = path[m + 1] /\ path \in Seq(Names)
  BY NameBefore
<1>2. PICK n \in Nat : n = Len(new) - 1 /\ Last(new) = new[n + 1] /\ new \in Seq(Names)
  BY NameBefore
<1>3. \A d \in dirs : tables[d] \subseteq tables2[d]
  OBVIOUS
<1>4. ASSUME Found(tables, headers, path, node) PROVE Found(tables2, headers2, path, node)
  BY <1>3, <1>4, FoundStill
<1>5. to[n] \in dirs
  <2>1. n \in 0 .. n
    BY <1>2
  <2> QED
    BY <1>2, <2>1, WayLinked
<1>6. Found(tables2, headers2, new, [isDir |-> e.isDir, size |-> FileLength(c)])
  <2>1. Way(tables2, new, n, to)
    BY <1>2, <1>3, WayStill
  <2>2. e \in tables2[to[n]]
    BY <1>2, <1>5
  <2> QED
    BY <1>2, <2>1, <2>2 DEF Found
<1>7. ASSUME Found(tables2, headers2, path, node)
      PROVE  \/ Found(tables, headers, path, node)
             \/ path = new /\ node = [isDir |-> e.isDir, size |-> FileLength(c)]
  <2>1. PICK at, f, d :
            /\ Way(tables2, path, m, at)
            /\ f \in tables2[at[m]] /\ f.name = path[m + 1]
            /\ IsChain(d) /\ Stored(headers2, f.sector, d)
            /\ node = [isDir |-> f.isDir, size |-> FileLength(d)]
    <3>1. PICK at, f, d :
              /\ Way(tables2, path, Len(path) - 1, at)
              /\ f \in tables2[at[Len(path) - 1]] /\ f.name = Last(path)
              /\ IsChain(d) /\ Stored(headers2, f.sector, d)
              /\ node = [isDir |-> f.isDir, size |-> FileLength(d)]
      BY <1>7, Zenon DEF Found
    <3>2. Way(tables2, path, m, at) /\ f \in tables2[at[m]] /\ f.name = path[m + 1]
      BY <1>1, <3>1
    <3> QED
      BY <3>1, <3>2
  <2>2. \A i \in 0 .. m : tables2[at[i]] # {}
    <3>1. ASSUME NEW i \in 0 .. m PROVE tables2[at[i]] # {}
      <4>1. CASE i = m
        BY <2>1, <4>1
      <4>2. CASE i < m
        <5>1. i + 1 \in 1 .. m /\ (i + 1) - 1 = i
          BY <4>2
        <5> QED
          BY <2>1, <5>1 DEF Way
      <4> QED
        BY <4>1, <4>2
    <3> QED
      BY <3>1
  <2>3. ASSUME NEW i \in 1 .. m, at[i - 1] \in dirs
        PROVE  \E g \in tables[at[i - 1]] : g.name = path[i] /\ g.sector = at[i] /\ g.isDir
    <3>1. PICK g \in tables2[at[i - 1]] : g.name = path[i] /\ g.sector = at[i] /\ g.isDir
      BY <2>1 DEF Way
    <3>2. i \in 0 .. m
      OBVIOUS
    <3>3. g # e
      BY <2>2, <3>1, <3>2
    <3>4. g \in tables[at[i - 1]]
      <4>1. PICK r \in dirs : r = at[i - 1]
        BY <2>3
      <4>2. g \in tables2[r] /\ g # e
        BY <3>1, <3>3, <4>1
      <4>3. g \in tables[r]
        BY <4>2
      <4> QED
        BY <4>1, <4>3
    <3> QED
      BY <3>1, <3>4
  <2> DEFINE T == {k \in Nat : k <= m => at[k] \in dirs}
  <2>4. ASSUME NEW k \in Nat, \A j \in 0 .. k - 1 : j \in T PROVE k \in T
    <3> SUFFICES ASSUME k <= m PROVE at[k] \in dirs
      OBVIOUS
    <3>1. CASE k = 0
      BY <2>1, <3>1 DEF Way, Linked
    <3>2. CASE k > 0
      <4>1. k - 1 \in 0 .. k - 1 /\ k - 1 <= m /\ k \in 1 .. m
        BY <3>2
      <4>2. at[k - 1] \in dirs
        BY <2>4, <4>1
      <4>3. PICK g \in tables[at[k - 1]] : g.sector = at[k] /\ g.isDir
        BY <2>3, <4>1, <4>2
      <4> QED
        BY <4>2, <4>3 DEF Linked
    <3> QED
      BY <3>1, <3>2
  <2>5. \A k \in Nat : k \in T
    <3> HIDE DEF T
    <3> QED
      BY <2>4, AllNumbers
  <2>6. \A k \in 0 .. m : at[k] \in dirs
    BY <2>5
  <2>7. Way(tables, path, m, at)
    <3>1. ASSUME NEW i \in 1 .. m PROVE at[i - 1] \in dirs
      <4>1. i - 1 \in 0 .. m
        OBVIOUS
      <4> QED
        BY <2>6, <4>1
    <3> QED
      BY <2>1, <2>3, <3>1 DEF Way
  <2>8. at[m] \in dirs
    <3>1. m \in 0 .. m
      OBVIOUS
    <3> QED
      BY <2>6, <3>1
  <2>9. CASE f \in tables[at[m]]
    <3>1. f.sector \in owners
      BY <2>8, <2>9 DEF Linked
    <3>2. /\ IsChain(chain[f.sector])
          /\ Stored(headers, f.sector, chain[f.sector]) /\ Stored(headers2, f.sector, chain[f.sector])
      BY <3>1 DEF Own, Holds
    <3>3. d = chain[f.sector]
      BY <2>1, <3>2, ChainsAgree
    <3>4. Stored(headers, f.sector, d)
      BY <3>2, <3>3
    <3>5. Found(tables, headers, path, node)
      BY <1>1, <2>1, <2>7, <2>9, <3>4 DEF Found
    <3> QED
      BY <3>5
  <2>10. CASE f \notin tables[at[m]]
    <3>1. f = e /\ at[m] = to[n]
      BY <1>2, <2>1, <2>8, <2>10
    <3>2. m = n /\ Agree(path, new, 1, m)
      <4>1. Way(tables, new, n, to)
        BY <1>2
      <4> QED
        BY <2>7, <3>1, <4>1, WaysDiffer
    <3>3. path[m + 1] = new[m + 1]
      BY <1>2, <2>1, <3>1, <3>2
    <3>4. Len(path) = Len(new) /\ \A i \in 1 .. Len(path) : path[i] = new[i]
      BY <1>1, <1>2, <3>2, <3>3 DEF Agree
    <3>5. path = new
      BY <1>1, <1>2, <3>4, SeqEqual
    <3>6. d = c
      BY <2>1, <3>1, ChainsAgree
    <3> QED
      BY <2>1, <3>1, <3>5, <3>6
  <2> QED
    BY <2>9, <2>10
<1>8. path = new /\ node = [isDir |-> e.isDir, size |-> FileLength(c)] => Found(tables2, headers2, path, node)
  BY <1>6
<1> QED
  BY <1>4, <1>7, <1>8

\* The entries of directories that are made, and what the tree shows of them.
Making(ws, s) == \E i \in 1 .. Len(ws) : ws[i] = TableWrite(s, {})
SeenIn(tables, ws) == [s \in Sectors |-> {e \in tables[s] : ~ Making(ws, e.sector)}]
Seen == SeenIn(table, writes)
ShownIs ==
    \A p \in Paths : \A node : Found(Seen, header, p, node) <=> Visible(p) /\ node = NodeAt(p)
Tidied == \E map, owners, chain, dirs : Own(map, header, owners, chain) /\ Linked(Seen, owners, dirs)

\* The entry and the node of what has an entry.
LEMMA NodeIs ==
    ASSUME NEW map, NEW owners, NEW chain, Own(map, header, owners, chain),
           NEW path \in Paths, NEW n \in Nat, n = Len(path), NEW e, e.sector \in owners,
           Place(path, n) = e.sector, Find(Place(path, n - 1), path[n]) = {e}
    PROVE  NodeAt(path) = [isDir |-> e.isDir, size |-> FileLength(chain[e.sector])]
<1>1. path \in Seq(Names) /\ path # << >>
  BY PathIs
<1>2. Place(path, n - 1) = GetDirSector(Parent(path)) /\ Place(path, n) = GetDirSector(path)
  BY <1>1, PlaceSteps
<1>3. Find(GetDirSector(Parent(path)), Last(path)) = {e}
  BY <1>2 DEF Last
<1>4. Entry(path) = e
  BY <1>3 DEF Entry
<1>5. FetchFrom(GetDirSector(path)) = chain[e.sector]
  BY <1>2, FetchedNow
<1> QED
  BY <1>4, <1>5 DEF NodeAt

\* The first n names of a path are entries of these directories, which lead on.
LeadsOn(part, path, n) ==
    \A i \in 1 .. n :
        /\ Place(path, i - 1) \in Sectors
        /\ \E e \in part[Place(path, i - 1)] :
              /\ e.name = path[i] /\ e.sector = Place(path, i) /\ (i < n => e.isDir)
              /\ Find(Place(path, i - 1), path[i]) = {e}

\* What is found in a part of the directories is what a path leads to there.
LEMMA FoundLeads ==
    ASSUME DiskTypes, NEW map, NEW owners, NEW chain, NEW dirs, NEW part,
           Own(map, header, owners, chain), Linked(part, owners, dirs),
           \A s \in Sectors : part[s] \subseteq table[s],
           NEW path \in Paths, NEW node, Found(part, header, path, node)
    PROVE  LeadsOn(part, path, Len(path)) /\ node = NodeAt(path)
<1>1. PICK m \in Nat, n \in Nat : /\ m = Len(path) - 1 /\ n = Len(path) /\ n = m + 1
                                  /\ path \in Seq(Names) /\ Last(path) = path[n]
  BY NameBefore
<1>2. PICK at, e, c :
          /\ Way(part, path, Len(path) - 1, at)
          /\ e \in part[at[Len(path) - 1]] /\ e.name = Last(path)
          /\ IsChain(c) /\ Stored(header, e.sector, c)
          /\ node = [isDir |-> e.isDir, size |-> FileLength(c)]
  BY Zenon DEF Found
<1>3. Way(part, path, m, at) /\ e \in part[at[m]] /\ e.name = path[n]
  BY <1>1, <1>2
<1>4. \A i \in 0 .. m : at[i] \in dirs /\ at[i] \in Sectors
  <2>1. dirs \subseteq Sectors
    BY DEF Linked, Own
  <2> QED
    BY <1>3, <2>1, WayLinked
<1>5. ASSUME NEW i \in 1 .. n, Place(path, i - 1) = at[i - 1], NEW g \in part[at[i - 1]], g.name = path[i]
      PROVE  Place(path, i) = g.sector /\ Find(Place(path, i - 1), path[i]) = {g}
  <2>1. i - 1 \in 0 .. m /\ i \in 1 .. Len(path)
    BY <1>1
  <2>2. at[i - 1] \in Sectors
    BY <1>4, <2>1
  <2>3. PICK s \in Sectors : s = Place(path, i - 1) /\ g \in table[s]
    BY <1>5, <2>2
  <2>4. g \in Find(s, path[i])
    BY <1>5, <2>3 DEF Find
  <2>5. Follow(s, path[i]) = g.sector /\ Find(s, path[i]) = {g}
    BY <2>4, OneEntry
  <2>6. Place(path, i) = Follow(Place(path, i - 1), path[i])
    BY <1>1, <2>1, PlaceSteps
  <2> QED
    BY <2>3, <2>5, <2>6
<1> DEFINE T == {k \in Nat : k <= m => Place(path, k) = at[k]}
<1>6. ASSUME NEW k \in Nat, \A j \in 0 .. k - 1 : j \in T PROVE k \in T
  <2> SUFFICES ASSUME k <= m PROVE Place(path, k) = at[k]
    OBVIOUS
  <2>1. CASE k = 0
    BY <1>1, <1>3, <2>1, PlaceSteps DEF Way
  <2>2. CASE k > 0
    <3>1. k - 1 \in 0 .. k - 1 /\ k - 1 <= m /\ k \in 1 .. m /\ k \in 1 .. n
      BY <1>1, <2>2
    <3>2. Place(path, k - 1) = at[k - 1]
      BY <1>6, <3>1
    <3>3. PICK g \in part[at[k - 1]] : g.name = path[k] /\ g.sector = at[k]
      BY <1>3, <3>1 DEF Way
    <3> QED
      BY <1>5, <3>1, <3>2, <3>3
  <2> QED
    BY <2>1, <2>2
<1>7. \A k \in Nat : k \in T
  <2> HIDE DEF T
  <2> QED
    BY <1>6, AllNumbers
<1>8. \A k \in 0 .. m : Place(path, k) = at[k]
  BY <1>7
<1>9. Place(path, n) = e.sector /\ Find(Place(path, n - 1), path[n]) = {e}
  <2>1. n \in 1 .. n /\ n - 1 = m /\ m \in 0 .. m
    BY <1>1
  <2>2. Place(path, n - 1) = at[n - 1] /\ e \in part[at[n - 1]]
    BY <1>3, <1>8, <2>1
  <2> QED
    BY <1>3, <1>5, <2>1, <2>2
<1>10. ASSUME NEW i \in 1 .. n
       PROVE  /\ Place(path, i - 1) \in Sectors
              /\ \E g \in part[Place(path, i - 1)] :
                    /\ g.name = path[i] /\ g.sector = Place(path, i) /\ (i < n => g.isDir)
                    /\ Find(Place(path, i - 1), path[i]) = {g}
  <2>1. i - 1 \in 0 .. m
    BY <1>1
  <2>2. Place(path, i - 1) = at[i - 1] /\ Place(path, i - 1) \in Sectors
    BY <1>4, <1>8, <2>1
  <2>3. CASE i = n
    <3>1. i - 1 = m /\ ~ (i < n)
      BY <1>1, <2>3
    <3> QED
      BY <1>3, <1>9, <2>2, <2>3, <3>1
  <2>4. CASE i < n
    <3>1. i \in 1 .. m
      BY <1>1, <2>4
    <3>2. PICK g \in part[at[i - 1]] : g.name = path[i] /\ g.sector = at[i] /\ g.isDir
      BY <1>3, <3>1 DEF Way
    <3>3. Find(Place(path, i - 1), path[i]) = {g} /\ Place(path, i) = g.sector
      BY <1>5, <2>2, <3>2
    <3> QED
      BY <2>2, <3>2, <3>3
  <2> QED
    BY <2>3, <2>4
<1>11. LeadsOn(part, path, Len(path))
  BY <1>1, <1>10 DEF LeadsOn
<1>12. e.sector \in owners
  <2>1. m \in 0 .. m
    BY <1>1
  <2>2. at[m] \in dirs
    BY <1>4, <2>1
  <2> QED
    BY <1>3, <2>2 DEF Linked
<1>13. NodeAt(path) = [isDir |-> e.isDir, size |-> FileLength(chain[e.sector])]
  BY <1>1, <1>9, <1>12, NodeIs
<1>14. c = chain[e.sector]
  <2>1. IsChain(chain[e.sector]) /\ Stored(header, e.sector, chain[e.sector])
    BY <1>12 DEF Own, Holds
  <2> QED
    BY <1>2, <2>1, ChainsAgree
<1> QED
  BY <1>2, <1>11, <1>13, <1>14

\* Where a path leads on, as far as its places are sectors, it leads to the end.
LEMMA PathLeads ==
    ASSUME DiskTypes, NEW owners \in SUBSET Sectors, NEW dirs, NEW part, Linked(part, owners, dirs),
           \A s \in Sectors : part[s] \subseteq table[s],
           NEW path \in Paths,
           \A i \in 1 .. Len(path) : Place(path, i - 1) \in Sectors =>
               \E e \in part[Place(path, i - 1)] : e.name = path[i] /\ (i < Len(path) => e.isDir)
    PROVE  /\ LeadsOn(part, path, Len(path))
           /\ \A k \in 0 .. Len(path) - 1 : Place(path, k) \in dirs
<1>1. PICK m \in Nat, n \in Nat : m = Len(path) - 1 /\ n = Len(path) /\ n = m + 1 /\ path \in Seq(Names)
  BY NameBefore
<1>2. ASSUME NEW i \in 1 .. n, Place(path, i - 1) \in Sectors
      PROVE  \E e \in part[Place(path, i - 1)] :
                 /\ e.name = path[i] /\ e.sector = Place(path, i) /\ (i < n => e.isDir)
                 /\ Find(Place(path, i - 1), path[i]) = {e}
  <2>1. PICK e \in part[Place(path, i - 1)] : e.name = path[i] /\ (i < n => e.isDir)
    BY <1>1, <1>2
  <2>2. PICK s \in Sectors : s = Place(path, i - 1) /\ e \in table[s]
    BY <1>2, <2>1
  <2>3. e \in Find(s, path[i])
    BY <2>1, <2>2 DEF Find
  <2>4. Follow(s, path[i]) = e.sector /\ Find(s, path[i]) = {e}
    BY <2>3, OneEntry
  <2>5. Place(path, i) = Follow(Place(path, i - 1), path[i])
    BY <1>1, PlaceSteps
  <2> QED
    BY <2>1, <2>2, <2>4, <2>5
<1> DEFINE T == {k \in Nat : k <= m => Place(path, k) \in dirs}
<1>3. ASSUME NEW k \in Nat, \A j \in 0 .. k - 1 : j \in T PROVE k \in T
  <2> SUFFICES ASSUME k <= m PROVE Place(path, k) \in dirs
    OBVIOUS
  <2>1. CASE k = 0
    BY <1>1, <2>1, PlaceSteps DEF Linked
  <2>2. CASE k > 0
    <3>1. k - 1 \in 0 .. k - 1 /\ k - 1 <= m /\ k \in 1 .. n /\ k < n
      BY <1>1, <2>2
    <3>2. Place(path, k - 1) \in dirs /\ Place(path, k - 1) \in Sectors
      BY <1>3, <3>1 DEF Linked
    <3>3. PICK e \in part[Place(path, k - 1)] : e.sector = Place(path, k) /\ e.isDir
      BY <1>2, <3>1, <3>2
    <3> QED
      BY <3>2, <3>3 DEF Linked
  <2> QED
    BY <2>1, <2>2
<1>4. \A k \in Nat : k \in T
  <2> HIDE DEF T
  <2> QED
    BY <1>3, AllNumbers
<1>5. \A k \in 0 .. m : Place(path, k) \in dirs /\ Place(path, k) \in Sectors
  BY <1>4 DEF Linked
<1>6. \A i \in 1 .. n : i - 1 \in 0 .. m
  BY <1>1
<1>7. LeadsOn(part, path, n)
  BY <1>2, <1>5, <1>6 DEF LeadsOn
<1> QED
  BY <1>1, <1>5, <1>7

\* The places on the way of such a path are a way.
LEMMA LeadsWay ==
    ASSUME NEW part, NEW path \in Paths, LeadsOn(part, path, Len(path)), NEW n \in Nat, n = Len(path),
           NEW at, at = [i \in 0 .. n - 1 |-> Place(path, i)]
    PROVE  Way(part, path, n - 1, at)
<1>1. n - 1 \in Nat /\ path \in Seq(Names)
  BY NameBefore
<1>2. at[0] = DirectorySector
  BY <1>1, PlaceSteps
<1>3. ASSUME NEW i \in 1 .. n - 1
      PROVE  \E e \in part[at[i - 1]] : e.name = path[i] /\ e.sector = at[i] /\ e.isDir
  <2>1. i - 1 \in 0 .. n - 1 /\ i \in 0 .. n - 1 /\ i \in 1 .. n /\ i < n
    BY <1>1
  <2>2. at[i - 1] = Place(path, i - 1) /\ at[i] = Place(path, i)
    BY <2>1
  <2>3. PICK e \in part[Place(path, i - 1)] : e.name = path[i] /\ e.sector = Place(path, i) /\ (i < n => e.isDir)
    BY <2>1 DEF LeadsOn
  <2> QED
    BY <2>1, <2>2, <2>3
<1> QED
  BY <1>2, <1>3 DEF Way

\* What such a path leads to is found.
LEMMA LeadsFound ==
    ASSUME DiskTypes, NEW map, NEW owners, NEW chain, NEW dirs, NEW part,
           Own(map, header, owners, chain), Linked(part, owners, dirs),
           NEW path \in Paths, LeadsOn(part, path, Len(path)),
           \A k \in 0 .. Len(path) - 1 : Place(path, k) \in dirs
    PROVE  Found(part, header, path, NodeAt(path))
<1>1. PICK m \in Nat, n \in Nat : /\ m = Len(path) - 1 /\ n = Len(path) /\ n = m + 1
                                  /\ path \in Seq(Names) /\ Last(path) = path[n]
  BY NameBefore
<1>2. n \in 1 .. n /\ n - 1 = m /\ m \in 0 .. m
  BY <1>1
<1>3. PICK at : at = [i \in 0 .. n - 1 |-> Place(path, i)]
  OBVIOUS
<1>4. Way(part, path, m, at) /\ at[m] = Place(path, m)
  BY <1>1, <1>2, <1>3, LeadsWay
<1>5. PICK e \in part[Place(path, m)] :
           /\ e.name = path[n] /\ e.sector = Place(path, n)
           /\ Find(Place(path, n - 1), path[n]) = {e}
  BY <1>1, <1>2 DEF LeadsOn
<1>6. e.sector \in owners
  BY <1>1, <1>2, <1>5 DEF Linked
<1>7. NodeAt(path) = [isDir |-> e.isDir, size |-> FileLength(chain[e.sector])]
  BY <1>1, <1>5, <1>6, NodeIs
<1>8. IsChain(chain[e.sector]) /\ Stored(header, e.sector, chain[e.sector])
  BY <1>6 DEF Own, Holds
<1>9. /\ Way(part, path, Len(path) - 1, at)
      /\ e \in part[at[Len(path) - 1]] /\ e.name = Last(path)
  BY <1>1, <1>4, <1>5
<1> QED
  BY <1>7, <1>8, <1>9, Zenon DEF Found

\* Found and visible are the same where the disk is tidy.
LEMMA TidiedShows == DiskTypes /\ Tidied => ShownIs
<1> SUFFICES ASSUME DiskTypes, Tidied, NEW p \in Paths, NEW node
             PROVE  Found(Seen, header, p, node) <=> Visible(p) /\ node = NodeAt(p)
  BY DEF ShownIs
<1>1. PICK map, owners, chain, dirs : Own(map, header, owners, chain) /\ Linked(Seen, owners, dirs)
  BY DEF Tidied
<1>2. /\ owners \in SUBSET Sectors
      /\ \A s \in Sectors : Seen[s] = {e \in table[s] : ~ BeingMade(e.sector)}
  BY <1>1 DEF Own, Seen, SeenIn, Making, BeingMade
<1>3. PICK n \in Nat : n = Len(p) /\ p \in Seq(Names)
  BY PathIs
<1>4. ASSUME Found(Seen, header, p, node) PROVE Visible(p) /\ node = NodeAt(p)
  <2>1. LeadsOn(Seen, p, n) /\ node = NodeAt(p)
    BY <1>1, <1>2, <1>3, <1>4, FoundLeads
  <2>2. ASSUME NEW i \in 1 .. n
        PROVE  /\ ~ BeingMade(Place(p, i))
               /\ \E e \in Find(Place(p, i - 1), p[i]) : i < n => e.isDir
    BY <1>2, <2>1 DEF LeadsOn
  <2> QED
    BY <1>3, <2>1, <2>2 DEF Visible, Exists, Place
<1>5. ASSUME Visible(p) PROVE Found(Seen, header, p, NodeAt(p))
  <2>1. \A i \in 1 .. n : /\ ~ BeingMade(Place(p, i))
                          /\ \E e \in Find(Place(p, i - 1), p[i]) : i < n => e.isDir
    BY <1>3, <1>5 DEF Visible, Exists, Place
  <2>2. ASSUME NEW i \in 1 .. n, Place(p, i - 1) \in Sectors
        PROVE  \E e \in Seen[Place(p, i - 1)] : e.name = p[i] /\ (i < n => e.isDir)
    <3>1. PICK e \in Find(Place(p, i - 1), p[i]) : i < n => e.isDir
      BY <2>1
    <3>2. PICK s \in Sectors : s = Place(p, i - 1) /\ e \in Find(s, p[i])
      BY <2>2, <3>1
    <3>3. Follow(s, p[i]) = e.sector /\ e \in table[s] /\ e.name = p[i]
      BY <3>2, OneEntry
    <3>4. Place(p, i) = e.sector
      BY <1>3, <3>2, <3>3, PlaceSteps
    <3>5. ~ BeingMade(e.sector)
      BY <2>1, <3>4
    <3>6. e \in Seen[s]
      BY <1>2, <3>3, <3>5
    <3> QED
      BY <3>1, <3>2, <3>3, <3>6
  <2>3. /\ LeadsOn(Seen, p, Len(p))
        /\ \A k \in 0 .. Len(p) - 1 : Place(p, k) \in dirs
    BY <1>1, <1>2, <1>3, <2>2, PathLeads
  <2> QED
    BY <1>1, <2>3, LeadsFound
<1> QED
  BY <1>4, <1>5

\* The first write is a part of what is being made, or not; the others are left.
LEMMA MakingTail ==
    ASSUME NEW ws \in Seq(Writes), ws # << >>
    PROVE  /\ Len(Tail(ws)) = Len(ws) - 1 /\ Len(ws) \in Nat /\ Len(ws) >= 1
           /\ \A i \in 1 .. Len(ws) - 1 : Tail(ws)[i] = ws[i + 1]
           /\ \A s : Making(ws, s) <=> ws[1] = TableWrite(s, {}) \/ Making(Tail(ws), s)
<1>1. PICK n \in Nat : n = Len(ws) /\ n >= 1
  <2>1. Len(ws) \in Nat /\ Len(ws) # 0
    BY EmptySeq
  <2> QED
    BY <2>1
<1>2. Len(Tail(ws)) = n - 1 /\ \A i \in 1 .. n - 1 : Tail(ws)[i] = ws[i + 1]
  BY <1>1, HeadTailProperties
<1>3. ASSUME NEW s PROVE Making(ws, s) <=> ws[1] = TableWrite(s, {}) \/ Making(Tail(ws), s)
  <2>1. ASSUME Making(ws, s) PROVE ws[1] = TableWrite(s, {}) \/ Making(Tail(ws), s)
    <3>1. PICK i \in 1 .. n : ws[i] = TableWrite(s, {})
      BY <1>1, <2>1 DEF Making
    <3>2. CASE i = 1
      BY <3>1, <3>2
    <3>3. CASE i > 1
      <4>1. i - 1 \in 1 .. n - 1 /\ (i - 1) + 1 = i
        BY <1>1, <3>3
      <4>2. Tail(ws)[i - 1] = TableWrite(s, {})
        BY <1>2, <3>1, <4>1
      <4> QED
        BY <1>2, <4>1, <4>2 DEF Making
    <3> QED
      BY <1>1, <3>2, <3>3
  <2>2. ws[1] = TableWrite(s, {}) => Making(ws, s)
    <3>1. 1 \in 1 .. Len(ws)
      BY <1>1
    <3> QED
      BY <3>1 DEF Making
  <2>3. ASSUME Making(Tail(ws), s) PROVE Making(ws, s)
    <3>1. PICK i \in 1 .. n - 1 : Tail(ws)[i] = TableWrite(s, {})
      BY <1>2, <2>3 DEF Making
    <3>2. i + 1 \in 1 .. Len(ws) /\ ws[i + 1] = TableWrite(s, {})
      BY <1>1, <1>2, <3>1
    <3> QED
      BY <3>2 DEF Making
  <2> QED
    BY <2>1, <2>2, <2>3
<1> QED
  BY <1>1, <1>2, <1>3

\* Entries of owners are seen, where no owner is being made.
LEMMA SeenSame ==
    ASSUME NEW tables, NEW owners \in SUBSET Sectors, NEW dirs, Linked(tables, owners, dirs),
           NEW ws, \A s \in owners \ {DirectorySector} : ~ Making(ws, s)
    PROVE  \A d \in dirs : SeenIn(tables, ws)[d] = tables[d]
<1>1. ASSUME NEW d \in dirs PROVE SeenIn(tables, ws)[d] = tables[d]
  <2>1. d \in Sectors
    BY DEF Linked
  <2>2. SeenIn(tables, ws)[d] = {e \in tables[d] : ~ Making(ws, e.sector)}
    BY <2>1 DEF SeenIn
  <2>3. \A e \in tables[d] : e.sector \in owners \ {DirectorySector}
    BY DEF Linked
  <2> QED
    BY <2>2, <2>3
<1> QED
  BY <1>1

\* What of a disk a step changes in the tree: nothing, a new path more, or an
\* entry of the root less.
Stays(t, h, t2, h2) ==
    \A p \in Paths : \A node : Found(t2, h2, p, node) <=> Found(t, h, p, node)
Adds(t, h, t2, h2, new, node) ==
    /\ \A other : ~ Found(t, h, new, other)
    /\ Len(new) > 1 => Parent(new) \in Paths /\ \E above : Found(t, h, Parent(new), above) /\ above.isDir
    /\ \A p \in Paths : \A other :
           Found(t2, h2, p, other) <=> Found(t, h, p, other) \/ (p = new /\ other = node)
Removes(t, h, t2, h2, name) ==
    /\ <<name>> \in Paths /\ \E node : Found(t, h, <<name>>, node)
    /\ \A p \in Paths : \A node :
           Found(t2, h2, p, node) <=> Found(t, h, p, node) /\ p[1] # name
Steps(t, h, t2, h2) ==
    \/ Stays(t, h, t2, h2)
    \/ \E new \in Paths, node \in Nodes : Adds(t, h, t2, h2, new, node)
    \/ \E name \in Names : Removes(t, h, t2, h2, name)

\* A new path, the way to its directory, its entry and its chain of headers.
NewPath(seen, h, map, new, to, e, c) ==
    /\ new \in Paths /\ Way(seen, new, Len(new) - 1, to)
    /\ e.name = Last(new) /\ e.sector \in Sectors \ map
    /\ IsChain(c) /\ [isDir |-> e.isDir, size |-> FileLength(c)] \in Nodes
    /\ \A node : ~ Found(seen, h, new, node)
\* Its entry is still to be written, after k headers: it will be stored by then.
EntryToWrite(ws, m, h, t, map, dir, e, c, k) ==
    /\ Fresh(map, e.sector, c)
    /\ Len(ws) = k + 2 + (IF e.isDir THEN 1 ELSE 0)
    /\ \A i \in 1 .. k : ws[i].to = "header" /\ ws[i].sector \in Owned(e.sector, c)
    /\ ws[k + 1] = TableWrite(dir, t[dir] \cup {e})
    /\ ws[k + 2].to = "map"
    /\ e.isDir => ws[k + 3] = TableWrite(e.sector, {})
    /\ \E map2, headers, tables :
          Leads(ws, m, h, t, map2, headers, tables) /\ Stored(headers, e.sector, c)
\* It is written, and the new directory's own table will be, after k writes.
EntryWritten(ws, h, e, c, k) ==
    /\ e.isDir /\ Stored(h, e.sector, c)
    /\ Len(ws) = k + 1
    /\ k = 1 => ws[1].to = "map"
    /\ ws[k + 1] = TableWrite(e.sector, {})
\* An entry of the root will be gone, after k writes.
Removing(ws, t, e, k) ==
    /\ e \in t[DirectorySector]
    /\ Len(ws) = k + 1
    /\ k = 1 => ws[1].to = "map"
    /\ ws[k + 1] = TableWrite(DirectorySector, t[DirectorySector] \ {e})
\* A file is there, and the free map is to be written.
Closing(ws) == Len(ws) = 1 /\ ws[1].to = "map"

\* A directory has the entry that is not seen yet.
Holding(seen, t, dirs, dir, e) ==
    \A d \in dirs : t[d] = IF d = dir THEN seen[d] \cup {e} ELSE seen[d]

\* Which of these the call that is being written is in.
AddingFile(ws, seen, m, h, t, map, dirs) ==
    \E new, to, e, c :
        /\ NewPath(seen, h, map, new, to, e, c)
        /\ \/ /\ \E k \in Nat : EntryToWrite(ws, m, h, t, map, to[Len(new) - 1], e, c, k)
              /\ \A d \in dirs : seen[d] = t[d]
           \/ /\ \E k \in {0, 1} : EntryWritten(ws, h, e, c, k)
              /\ Holding(seen, t, dirs, to[Len(new) - 1], e)
RemovingFile(ws, seen, t, dirs) ==
    /\ \E e : \E k \in {0, 1} : Removing(ws, t, e, k)
    /\ \A d \in dirs : seen[d] = t[d]
InCall(ws, seen, m, h, t, map, dirs) ==
    \/ AddingFile(ws, seen, m, h, t, map, dirs)
    \/ RemovingFile(ws, seen, t, dirs)
    \/ Closing(ws)

\* In the middle of a call the disk is tidy, and the rest of its writes is as
\* the call has made it.
OrderlyAt(ws, m, h, t) ==
    ws # << >> =>
        \E map, owners, chain, dirs :
            /\ Own(map, h, owners, chain) /\ Linked(SeenIn(t, ws), owners, dirs)
            /\ InCall(ws, SeenIn(t, ws), m, h, t, map, dirs)
Orderly == OrderlyAt(writes, marked, header, table)

\* Then, or between two calls, it is tidy.
LEMMA OrderlyTidied == DiskTypes /\ Sound /\ Orderly => Tidied
<1> SUFFICES ASSUME DiskTypes, Sound, Orderly PROVE Tidied
  OBVIOUS
<1>1. CASE writes # << >>
  BY <1>1 DEF Orderly, OrderlyAt, Tidied, Seen
<1>2. CASE writes = << >>
  <2>1. PICK owners, chain, dirs : Own(marked, header, owners, chain) /\ Linked(table, owners, dirs)
    BY <1>2, SoundNow
  <2>2. owners \in SUBSET Sectors
    BY <2>1 DEF Own
  <2>3. \A s : ~ Making(writes, s)
    BY <1>2 DEF Making
  <2>4. \A d \in dirs : Seen[d] = table[d]
    BY <2>1, <2>2, <2>3, SeenSame DEF Seen
  <2>5. Linked(Seen, owners, dirs)
    <3>1. \A d \in dirs : Seen[d] \subseteq table[d]
      BY <2>4
    <3> QED
      BY <2>1, <3>1, LinkedLess
  <2> QED
    BY <2>1, <2>5 DEF Tidied
<1> QED
  BY <1>1, <1>2

\* What is being added is so still, while the directories and the owners' headers stay.
LEMMA NewPathStill ==
    ASSUME NEW tables, NEW owners, NEW dirs, Linked(tables, owners, dirs),
           NEW map, NEW headers, NEW chain, Own(map, headers, owners, chain),
           NEW tables2, \A d \in dirs : tables2[d] = tables[d],
           NEW headers2, Own(map, headers2, owners, chain),
           NEW new, NEW to, NEW e, NEW c, NewPath(tables, headers, map, new, to, e, c)
    PROVE  NewPath(tables2, headers2, map, new, to, e, c)
<1>1. new \in Paths
  BY DEF NewPath
<1>2. PICK n \in Nat : n = Len(new) - 1
  BY <1>1, NameBefore
<1>3. Way(tables2, new, n, to)
  <2>1. Way(tables, new, n, to) /\ \A d \in dirs : tables[d] \subseteq tables2[d]
    BY <1>2 DEF NewPath
  <2> QED
    BY <2>1, WayStill
<1>4. ASSUME NEW node PROVE ~ Found(tables2, headers2, new, node)
  <2>1. Found(tables2, headers2, new, node) <=> Found(tables, headers, new, node)
    BY <1>1, FoundSame
  <2> QED
    BY <2>1 DEF NewPath
<1> QED
  BY <1>2, <1>3, <1>4 DEF NewPath

\* The directory of what is being added is there.
LEMMA ParentFound ==
    ASSUME NEW tables, NEW owners, NEW dirs, Linked(tables, owners, dirs),
           NEW map, NEW headers, NEW chain, Own(map, headers, owners, chain),
           NEW new \in Paths, NEW to, Way(tables, new, Len(new) - 1, to), Len(new) > 1
    PROVE  Parent(new) \in Paths /\ \E above : Found(tables, headers, Parent(new), above) /\ above.isDir
<1>1. PICK m \in Nat : m = Len(new) - 1 /\ m >= 1 /\ new \in Seq(Names) /\ m \in 0 .. Len(new)
  BY NameBefore
<1>2. PICK q \in Seq(Names) : q = Parent(new) /\ Len(q) = m /\ \A i \in 1 .. m : q[i] = new[i]
  BY <1>1, Beginning DEF Parent
<1>3. q \in Paths
  <2>1. PICK n \in 1 .. MaxDepth : new \in [1 .. n -> Names]
    BY DEF Paths
  <2>2. MaxDepth \in Nat
    BY FileSystemAssumption
  <2>3. Len(new) = n
    BY <2>1, <2>2
  <2>4. m \in 1 .. MaxDepth
    BY <1>1, <2>2, <2>3
  <2>5. q \in [1 .. m -> Names]
    BY <1>2
  <2> QED
    BY <2>4, <2>5 DEF Paths
<1>4. PICK k \in Nat : k = m - 1 /\ k = Len(q) - 1 /\ m = k + 1
  <2>1. m >= 1
    BY <1>1
  <2>2. Len(q) = m
    BY <1>2
  <2>3. PICK k \in Nat : k = m - 1
    BY <2>1
  <2>4. k = Len(q) - 1 /\ m = k + 1
    BY <2>2, <2>3
  <2> QED
    BY <2>3, <2>4
<1>5. Way(tables, new, m, to)
  BY <1>1
<1>6. Way(tables, q, k, to)
  <2>1. \A i \in 1 .. k : i \in 1 .. m
    BY <1>4
  <2> QED
    BY <1>2, <1>5, <2>1 DEF Way
<1>7. PICK f \in tables[to[k]] : f.name = new[m] /\ f.sector = to[m] /\ f.isDir
  <2>1. m \in 1 .. m /\ m - 1 = k
    BY <1>1, <1>4
  <2> QED
    BY <1>5, <2>1 DEF Way
<1>8. f.name = Last(q)
  <2>1. m \in 1 .. m
    BY <1>1
  <2> QED
    BY <1>2, <1>7, <2>1 DEF Last
<1>9. f.sector \in owners
  <2>1. k \in 0 .. m
    BY <1>4
  <2>2. to[k] \in dirs
    BY <1>5, <2>1, WayLinked
  <2> QED
    BY <1>7, <2>2 DEF Linked
<1>10. IsChain(chain[f.sector]) /\ Stored(headers, f.sector, chain[f.sector])
  BY <1>9 DEF Own, Holds
<1>11. PICK above : above = [isDir |-> f.isDir, size |-> FileLength(chain[f.sector])]
  OBVIOUS
<1>12. Found(tables, headers, q, above)
  <2>1. Way(tables, q, Len(q) - 1, to) /\ f \in tables[to[Len(q) - 1]]
    BY <1>4, <1>6
  <2> QED
    BY <1>8, <1>10, <1>11, <2>1, Zenon DEF Found
<1>13. above.isDir
  BY <1>7, <1>11
<1> QED
  BY <1>2, <1>3, <1>12, <1>13

\* The first of the writes is done, and the others lead on.
Writing(ws, m, h, t, m2, h2, t2) ==
    /\ ws \in Seq(Writes) /\ ws # << >>
    /\ h \in [Sectors -> FileHeaders] /\ t \in [Sectors -> Tables]
    /\ m2 = IF ws[1].to = "map" THEN ws[1].value ELSE m
    /\ h2 = IF ws[1].to = "header" THEN [h EXCEPT ![ws[1].sector] = ws[1].value] ELSE h
    /\ t2 = IF ws[1].to = "table" THEN [t EXCEPT ![ws[1].sector] = ws[1].value] ELSE t
    /\ \A map, headers, tables :
          Leads(ws, m, h, t, map, headers, tables) => Leads(Tail(ws), m2, h2, t2, map, headers, tables)

\* So does WriteNext.
LEMMA WritingNext ==
    ASSUME Types, WriteNext
    PROVE  Writing(writes, marked, header, table, marked', header', table') /\ writes' = Tail(writes)
<1>1. writes \in Seq(Writes) /\ writes # << >> /\ writes' = Tail(writes)
  BY DEF Types, CallTypes, WriteNext
<1>2. writes[1] = Head(writes)
  BY <1>1
<1>3. header \in [Sectors -> FileHeaders] /\ table \in [Sectors -> Tables]
  BY DEF Types, DiskTypes
<1>4. /\ marked' = IF writes[1].to = "map" THEN writes[1].value ELSE marked
      /\ header' = IF writes[1].to = "header" THEN [header EXCEPT ![writes[1].sector] = writes[1].value] ELSE header
      /\ table' = IF writes[1].to = "table" THEN [table EXCEPT ![writes[1].sector] = writes[1].value] ELSE table
  BY <1>2 DEF WriteNext
<1>5. \A map, headers, tables :
          Leads(writes, marked, header, table, map, headers, tables) =>
          Leads(Tail(writes), marked', header', table', map, headers, tables)
  BY <1>1, WriteLeads
<1> QED
  BY <1>1, <1>3, <1>4, <1>5 DEF Writing

\* Unless it is of a table, what is seen stays.
LEMMA SeenTail ==
    ASSUME NEW ws, NEW m, NEW h, NEW t, NEW m2, NEW h2, NEW t2, Writing(ws, m, h, t, m2, h2, t2),
           ws[1].to # "table"
    PROVE  t2 = t /\ SeenIn(t2, Tail(ws)) = SeenIn(t, ws)
<1>1. t2 = t /\ ws \in Seq(Writes) /\ ws # << >>
  BY DEF Writing
<1>2. ASSUME NEW s PROVE Making(ws, s) <=> Making(Tail(ws), s)
  <2>1. ws[1] # TableWrite(s, {})
    BY DEF TableWrite
  <2> QED
    BY <1>1, <2>1, MakingTail
<1> QED
  BY <1>1, <1>2 DEF SeenIn

\* The last write of a file leaves the tree as it is.
LEMMA ClosingStep ==
    ASSUME NEW ws, NEW m, NEW h, NEW t, NEW m2, NEW h2, NEW t2, Writing(ws, m, h, t, m2, h2, t2),
           Closing(ws)
    PROVE  /\ OrderlyAt(Tail(ws), m2, h2, t2)
           /\ Stays(SeenIn(t, ws), h, SeenIn(t2, Tail(ws)), h2)
<1>1. ws \in Seq(Writes) /\ ws # << >> /\ Len(ws) = 1 /\ ws[1].to = "map" /\ h2 = h
  BY DEF Writing, Closing
<1>2. Tail(ws) = << >>
  <2>1. Len(Tail(ws)) = 0 /\ Tail(ws) \in Seq(Writes)
    BY <1>1, MakingTail, HeadTailProperties
  <2> QED
    BY <2>1, EmptySeq
<1>3. SeenIn(t2, Tail(ws)) = SeenIn(t, ws)
  BY <1>1, SeenTail
<1> QED
  BY <1>1, <1>2, <1>3 DEF OrderlyAt, Stays

\* While its headers are written, what is added is not there yet.
LEMMA HeaderStep ==
    ASSUME NEW ws, NEW m, NEW h, NEW t, NEW m2, NEW h2, NEW t2, Writing(ws, m, h, t, m2, h2, t2),
           NEW map, NEW owners, NEW chain, NEW dirs, Own(map, h, owners, chain),
           Linked(SeenIn(t, ws), owners, dirs), \A d \in dirs : SeenIn(t, ws)[d] = t[d],
           NEW new, NEW to, NEW e, NEW c, NewPath(SeenIn(t, ws), h, map, new, to, e, c),
           NEW k \in Nat, k > 0, EntryToWrite(ws, m, h, t, map, to[Len(new) - 1], e, c, k)
    PROVE  /\ OrderlyAt(Tail(ws), m2, h2, t2)
           /\ Stays(SeenIn(t, ws), h, SeenIn(t2, Tail(ws)), h2)
<1>0. PICK dir : dir = to[Len(new) - 1]
  OBVIOUS
<1>1. PICK l \in Nat : l = k - 1 /\ k = l + 1
  OBVIOUS
<1>2. /\ Fresh(map, e.sector, c)
      /\ Len(ws) = k + 2 + (IF e.isDir THEN 1 ELSE 0)
      /\ \A i \in 1 .. k : ws[i].to = "header" /\ ws[i].sector \in Owned(e.sector, c)
      /\ ws[k + 1] = TableWrite(dir, t[dir] \cup {e})
      /\ ws[k + 2].to = "map"
      /\ e.isDir => ws[k + 3] = TableWrite(e.sector, {})
  BY <1>0 DEF EntryToWrite
<1>3. ws \in Seq(Writes) /\ ws # << >>
  BY DEF Writing
<1>4. /\ Len(Tail(ws)) = Len(ws) - 1
      /\ \A i \in 1 .. Len(ws) - 1 : Tail(ws)[i] = ws[i + 1]
  BY <1>3, MakingTail
<1>5. ws[1].to = "header" /\ ws[1].sector \in Owned(e.sector, c)
  BY <1>1, <1>2
<1>6. \A s : s # ws[1].sector /\ s \in Sectors => h2[s] = h[s]
  BY <1>5 DEF Writing
<1>7. t2 = t /\ SeenIn(t2, Tail(ws)) = SeenIn(t, ws)
  BY <1>5, SeenTail
<1>8. Own(map, h2, owners, chain)
  <2>1. map \in SUBSET Sectors /\ owners \in SUBSET owners
    BY DEF Own
  <2>2. ASSUME NEW o \in owners
        PROVE  Owned(o, chain[o]) \subseteq map /\ \A s \in Owned(o, chain[o]) : h2[s] = h[s]
    <3>1. Owned(o, chain[o]) \subseteq map
      BY DEF Own, Holds
    <3>2. ws[1].sector \notin map
      BY <1>2, <1>5 DEF Fresh, Owned
    <3> QED
      BY <1>6, <2>1, <3>1, <3>2
  <2> QED
    BY <2>1, <2>2, OwnStill
<1>9. \A d \in dirs : SeenIn(t2, Tail(ws))[d] = SeenIn(t, ws)[d]
  BY <1>7
<1>10. NewPath(SeenIn(t2, Tail(ws)), h2, map, new, to, e, c)
  BY <1>8, <1>9, NewPathStill
<1>11. EntryToWrite(Tail(ws), m2, h2, t2, map, dir, e, c, l)
  <2>1. PICK map2, headers, tables :
            Leads(ws, m, h, t, map2, headers, tables) /\ Stored(headers, e.sector, c)
    BY DEF EntryToWrite
  <2>2. Leads(Tail(ws), m2, h2, t2, map2, headers, tables)
    BY <2>1 DEF Writing
  <2>3. Len(Tail(ws)) = l + 2 + (IF e.isDir THEN 1 ELSE 0)
    BY <1>1, <1>2, <1>4
  <2>4. \A i \in 1 .. l : Tail(ws)[i].to = "header" /\ Tail(ws)[i].sector \in Owned(e.sector, c)
    <3>1. ASSUME NEW i \in 1 .. l PROVE Tail(ws)[i] = ws[i + 1] /\ i + 1 \in 1 .. k
      BY <1>1, <1>2, <1>4
    <3> QED
      BY <1>2, <3>1
  <2>5. Tail(ws)[l + 1] = ws[k + 1] /\ Tail(ws)[l + 2] = ws[k + 2]
    <3>1. l + 1 \in 1 .. Len(ws) - 1 /\ l + 2 \in 1 .. Len(ws) - 1 /\ (l + 1) + 1 = k + 1 /\ (l + 2) + 1 = k + 2
      BY <1>1, <1>2
    <3> QED
      BY <1>4, <3>1
  <2>6. e.isDir => Tail(ws)[l + 3] = ws[k + 3]
    <3>1. e.isDir => l + 3 \in 1 .. Len(ws) - 1 /\ (l + 3) + 1 = k + 3
      BY <1>1, <1>2
    <3> QED
      BY <1>4, <3>1
  <2> QED
    BY <1>2, <1>7, <2>1, <2>2, <2>3, <2>4, <2>5, <2>6 DEF EntryToWrite
<1>12. AddingFile(Tail(ws), SeenIn(t2, Tail(ws)), m2, h2, t2, map, dirs)
  <2>1. \A d \in dirs : SeenIn(t2, Tail(ws))[d] = t2[d]
    BY <1>7
  <2> QED
    BY <1>0, <1>10, <1>11, <2>1 DEF AddingFile
<1>13. OrderlyAt(Tail(ws), m2, h2, t2)
  BY <1>7, <1>8, <1>12 DEF OrderlyAt, InCall
<1>14. Stays(SeenIn(t, ws), h, SeenIn(t2, Tail(ws)), h2)
  BY <1>8, <1>9, FoundSame DEF Stays
<1> QED
  BY <1>13, <1>14

\* The write that removes an entry removes what is below it, too.
LEMMA RemovingStep ==
    ASSUME NEW ws, NEW m, NEW h, NEW t, NEW m2, NEW h2, NEW t2, Writing(ws, m, h, t, m2, h2, t2),
           NEW map, NEW owners, NEW chain, NEW dirs, Own(map, h, owners, chain),
           Linked(SeenIn(t, ws), owners, dirs), RemovingFile(ws, SeenIn(t, ws), t, dirs)
    PROVE  /\ OrderlyAt(Tail(ws), m2, h2, t2)
           /\ \/ Stays(SeenIn(t, ws), h, SeenIn(t2, Tail(ws)), h2)
              \/ \E name \in Names : Removes(SeenIn(t, ws), h, SeenIn(t2, Tail(ws)), h2, name)
<1>1. PICK e : \E k \in {0, 1} : Removing(ws, t, e, k)
  BY DEF RemovingFile
<1>2. PICK k \in {0, 1} : Removing(ws, t, e, k)
  BY <1>1
<1>3. \A d \in dirs : SeenIn(t, ws)[d] = t[d]
  BY DEF RemovingFile
<1>4. /\ e \in t[DirectorySector] /\ Len(ws) = k + 1
      /\ k = 1 => ws[1].to = "map"
      /\ ws[k + 1] = TableWrite(DirectorySector, t[DirectorySector] \ {e})
  BY <1>2 DEF Removing
<1>5. ws \in Seq(Writes) /\ ws # << >>
  BY DEF Writing
<1>6. /\ Len(Tail(ws)) = Len(ws) - 1
      /\ \A i \in 1 .. Len(ws) - 1 : Tail(ws)[i] = ws[i + 1]
      /\ Tail(ws) \in Seq(Writes)
  BY <1>5, MakingTail, HeadTailProperties
<1>7. CASE k = 1
  <2>1. h2 = h /\ ws[1].to # "table"
    BY <1>4, <1>7 DEF Writing
  <2>2. t2 = t /\ SeenIn(t2, Tail(ws)) = SeenIn(t, ws)
    BY <2>1, SeenTail
  <2>3. Len(Tail(ws)) = 0 + 1 /\ Tail(ws)[0 + 1] = ws[k + 1]
    <3>1. Len(ws) = 2 /\ k + 1 = 2 /\ 1 \in 1 .. Len(ws) - 1
      BY <1>4, <1>7
    <3>2. Len(Tail(ws)) = 1 /\ Tail(ws)[1] = ws[2]
      BY <1>6, <3>1
    <3> QED
      BY <3>1, <3>2
  <2>4. Removing(Tail(ws), t2, e, 0)
    BY <1>4, <2>2, <2>3 DEF Removing
  <2>5. RemovingFile(Tail(ws), SeenIn(t2, Tail(ws)), t2, dirs)
    BY <1>3, <2>2, <2>4 DEF RemovingFile
  <2>6. OrderlyAt(Tail(ws), m2, h2, t2)
    BY <2>1, <2>2, <2>5 DEF OrderlyAt, InCall
  <2>7. Stays(SeenIn(t, ws), h, SeenIn(t2, Tail(ws)), h2)
    BY <2>1, <2>2 DEF Stays
  <2> QED
    BY <2>6, <2>7
<1>8. CASE k = 0
  <2>1. Tail(ws) = << >>
    <3>1. Len(Tail(ws)) = 0
      BY <1>4, <1>6, <1>8
    <3> QED
      BY <1>6, <3>1, EmptySeq
  <2>2. owners \in SUBSET Sectors /\ dirs \subseteq Sectors /\ DirectorySector \in dirs
    BY DEF Own, Linked
  <2>3. ws[1].to = "table" /\ ws[1].sector = DirectorySector /\ ws[1].value = t[DirectorySector] \ {e}
    <3>1. ws[1] = TableWrite(DirectorySector, t[DirectorySector] \ {e})
      BY <1>4, <1>8
    <3> QED
      BY <3>1 DEF TableWrite
  <2>4. h2 = h /\ t2 = [t EXCEPT ![DirectorySector] = t[DirectorySector] \ {e}] /\ t \in [Sectors -> Tables]
    BY <2>3 DEF Writing
  <2>5. \A d \in Sectors : SeenIn(t2, Tail(ws))[d] = t2[d]
    BY <2>1 DEF SeenIn, Making
  <2>6. \A d \in dirs : SeenIn(t2, Tail(ws))[d] =
                          IF d = DirectorySector THEN SeenIn(t, ws)[d] \ {e} ELSE SeenIn(t, ws)[d]
    BY <1>3, <2>2, <2>4, <2>5
  <2>7. /\ e \in SeenIn(t, ws)[DirectorySector]
        /\ \A f \in SeenIn(t, ws)[DirectorySector] : f.name = e.name => f = e
        /\ e.name \in Names
    <3>1. t[DirectorySector] \in Tables /\ SeenIn(t, ws)[DirectorySector] = t[DirectorySector]
      BY <1>3, <2>2, <2>4
    <3> QED
      BY <1>4, <3>1 DEF Tables, DirEntries
  <2>8. PICK p \in Paths : p = <<e.name>> /\ Len(p) = 1 /\ p[1] = e.name
    <3>1. 1 \in 1 .. MaxDepth
      BY FileSystemAssumption
    <3>2. <<e.name>> \in [1 .. 1 -> Names] /\ Len(<<e.name>>) = 1 /\ <<e.name>>[1] = e.name
      BY <2>7
    <3> QED
      BY <3>1, <3>2 DEF Paths
  <2>9. \E node : Found(SeenIn(t, ws), h, p, node)
    <3>1. PICK at : at = [i \in {0} |-> DirectorySector]
      OBVIOUS
    <3>2. Len(p) - 1 = 0 /\ at[0] = DirectorySector /\ e.name = Last(p)
      BY <2>8, <3>1 DEF Last
    <3>3. Way(SeenIn(t, ws), p, Len(p) - 1, at)
      <4>1. Way(SeenIn(t, ws), p, 0, at)
        BY <3>2 DEF Way
      <4> QED
        BY <3>2, <4>1
    <3>4. e.sector \in owners
      BY <2>2, <2>7 DEF Linked
    <3>5. IsChain(chain[e.sector]) /\ Stored(h, e.sector, chain[e.sector])
      BY <3>4 DEF Own, Holds
    <3>6. e \in SeenIn(t, ws)[at[Len(p) - 1]]
      BY <2>7, <3>2
    <3>7. Found(SeenIn(t, ws), h, p, [isDir |-> e.isDir, size |-> FileLength(chain[e.sector])])
      BY <3>2, <3>3, <3>5, <3>6, Zenon DEF Found
    <3> QED
      BY <3>7
  <2>10. ASSUME NEW q \in Paths, NEW node
         PROVE  Found(SeenIn(t2, Tail(ws)), h2, q, node) <=> Found(SeenIn(t, ws), h, q, node) /\ q[1] # e.name
    <3>1. PICK s, s2 : s = SeenIn(t, ws) /\ s2 = SeenIn(t2, Tail(ws))
      OBVIOUS
    <3>2. Linked(s, owners, dirs)
      BY <3>1
    <3>3. Without(s, s2, dirs, e)
      BY <2>6, <2>7, <3>1 DEF Without
    <3>4. Found(s2, h, q, node) <=> Found(s, h, q, node) /\ q[1] # e.name
      BY <3>2, <3>3, FoundRemove
    <3> QED
      BY <2>4, <3>1, <3>4
  <2>11. Removes(SeenIn(t, ws), h, SeenIn(t2, Tail(ws)), h2, e.name)
    BY <2>8, <2>9, <2>10 DEF Removes
  <2> QED
    BY <2>1, <2>7, <2>11 DEF OrderlyAt
<1> QED
  BY <1>2, <1>7, <1>8

\* What is being added is not there yet, and its directory is.
LEMMA NewPathAdds ==
    ASSUME NEW t, NEW owners, NEW dirs, Linked(t, owners, dirs),
           NEW map, NEW h, NEW chain, Own(map, h, owners, chain),
           NEW new, NEW to, NEW e, NEW c, NewPath(t, h, map, new, to, e, c),
           NEW t2, With(t, t2, dirs, to[Len(new) - 1], e),
           NEW h2, Own(map, h2, owners, chain), Stored(h2, e.sector, c)
    PROVE  \E path \in Paths, node \in Nodes : Adds(t, h, t2, h2, path, node)
<1>1. /\ new \in Paths /\ Way(t, new, Len(new) - 1, to) /\ e.name = Last(new)
      /\ e.sector \notin map /\ IsChain(c) /\ \A node : ~ Found(t, h, new, node)
  BY DEF NewPath
<1>2. PICK node \in Nodes : node = [isDir |-> e.isDir, size |-> FileLength(c)]
  BY DEF NewPath
<1>3. e.sector \notin owners
  BY <1>1 DEF Own
<1>4. Len(new) > 1 => Parent(new) \in Paths /\ \E above : Found(t, h, Parent(new), above) /\ above.isDir
  BY <1>1, ParentFound
<1>5. ASSUME NEW p \in Paths, NEW other
      PROVE  Found(t2, h2, p, other) <=> Found(t, h, p, other) \/ (p = new /\ other = node)
  <2>1. Found(t2, h2, p, other) <=>
            \/ Found(t, h, p, other)
            \/ p = new /\ other = [isDir |-> e.isDir, size |-> FileLength(c)]
    BY <1>1, <1>3, FoundAdd
  <2> QED
    BY <1>2, <2>1
<1>6. Adds(t, h, t2, h2, new, node)
  BY <1>1, <1>4, <1>5 DEF Adds
<1> QED
  BY <1>1, <1>6

\* A directory of all has one entry more.
Gains(t, t2, dir, e) == \A d \in Sectors : t2[d] = IF d = dir THEN t[d] \cup {e} ELSE t[d]

\* With it, a file only needs its sectors marked; a directory needs its table, too.
HasEntry(ws, h, t, h2, t2, dir, e, c) ==
    /\ h2 = h /\ Stored(h, e.sector, c) /\ Gains(t, t2, dir, e)
    /\ ws \in Seq(Writes) /\ ws[1].to = "map"
    /\ e.isDir => Len(ws) = 2 /\ ws[2] = TableWrite(e.sector, {})
    /\ ~ e.isDir => Len(ws) = 1

\* After the headers comes the entry, and then the new chain is stored.
LEMMA EntryNext ==
    ASSUME NEW ws, NEW m, NEW h, NEW t, NEW m2, NEW h2, NEW t2, Writing(ws, m, h, t, m2, h2, t2),
           NEW map, NEW dir \in Sectors, NEW e, NEW c, EntryToWrite(ws, m, h, t, map, dir, e, c, 0),
           NEW rest, rest = Tail(ws)
    PROVE  HasEntry(rest, h, t, h2, t2, dir, e, c)
<1>1. /\ Fresh(map, e.sector, c)
      /\ Len(ws) = IF e.isDir THEN 3 ELSE 2
      /\ ws[1] = TableWrite(dir, t[dir] \cup {e})
      /\ ws[2].to = "map"
      /\ e.isDir => ws[3] = TableWrite(e.sector, {})
  BY DEF EntryToWrite
<1>2. ws \in Seq(Writes) /\ ws # << >>
  BY DEF Writing
<1>3. /\ Len(rest) = Len(ws) - 1
      /\ \A i \in 1 .. Len(ws) - 1 : rest[i] = ws[i + 1]
      /\ rest \in Seq(Writes)
  BY <1>2, MakingTail, HeadTailProperties
<1>4. ws[1].to = "table" /\ ws[1].sector = dir /\ ws[1].value = t[dir] \cup {e}
  BY <1>1 DEF TableWrite
<1>5. h2 = h /\ Gains(t, t2, dir, e)
  BY <1>4 DEF Writing, Gains
<1>6. (e.isDir => Len(rest) = 2) /\ (~ e.isDir => Len(rest) = 1)
  BY <1>1, <1>3
<1>7. rest[1] = ws[2] /\ (e.isDir => rest[2] = ws[3])
  <2>1. 1 \in 1 .. Len(ws) - 1 /\ 1 + 1 = 2
    BY <1>1
  <2>2. e.isDir => 2 \in 1 .. Len(ws) - 1 /\ 2 + 1 = 3
    BY <1>1
  <2> QED
    BY <1>3, <2>1, <2>2
<1>8. Stored(h, e.sector, c)
  <2>1. PICK map2, headers, tables :
            Leads(ws, m, h, t, map2, headers, tables) /\ Stored(headers, e.sector, c)
    BY DEF EntryToWrite
  <2>2. ASSUME NEW s PROVE HeaderWrites(ws, s) = {}
    <3>1. ASSUME NEW i \in 1 .. Len(ws) PROVE ws[i].to # "header"
      <4>1. i = 1 \/ i = 2 \/ (i = 3 /\ e.isDir)
        BY <1>1
      <4> QED
        BY <1>1, <1>4, <4>1 DEF TableWrite
    <3> QED
      BY <3>1 DEF HeaderWrites
  <2>3. \A s \in Sectors : h[s] = headers[s]
    BY <2>1, <2>2 DEF Leads, Settles
  <2>4. ASSUME NEW i \in 1 .. Len(c) PROVE h[Home(c, e.sector, i)] = c[i]
    <3>1. Home(c, e.sector, i) \in Owned(e.sector, c)
      BY <1>1, HomesDiffer
    <3>2. Home(c, e.sector, i) \in Sectors
      BY <1>1, <3>1 DEF Fresh, Owned
    <3> QED
      BY <2>1, <2>3, <3>2 DEF Stored
  <2> QED
    BY <2>4 DEF Stored
<1> QED
  BY <1>1, <1>3, <1>5, <1>6, <1>7, <1>8 DEF HasEntry

\* With its entry a file is there.
LEMMA FileStep ==
    ASSUME NEW ws, NEW m, NEW h, NEW t, NEW m2, NEW h2, NEW t2, Writing(ws, m, h, t, m2, h2, t2),
           NEW map, NEW owners, NEW chain, NEW dirs, Own(map, h, owners, chain),
           Linked(SeenIn(t, ws), owners, dirs), \A d \in dirs : SeenIn(t, ws)[d] = t[d],
           NEW new, NEW to, NEW e, NEW c, NewPath(SeenIn(t, ws), h, map, new, to, e, c), ~ e.isDir,
           EntryToWrite(ws, m, h, t, map, to[Len(new) - 1], e, c, 0)
    PROVE  /\ OrderlyAt(Tail(ws), m2, h2, t2)
           /\ \E path \in Paths, node \in Nodes :
                 Adds(SeenIn(t, ws), h, SeenIn(t2, Tail(ws)), h2, path, node)
<1>0. PICK rest : rest = Tail(ws)
  OBVIOUS
<1>1. owners \in SUBSET Sectors /\ dirs \subseteq Sectors
  BY DEF Own, Linked
<1>2. PICK dir \in dirs : dir = to[Len(new) - 1] /\ dir \in Sectors
  <2>1. PICK n \in Nat : n = Len(new) - 1 /\ n \in 0 .. n
    BY NameBefore DEF NewPath
  <2>2. Way(SeenIn(t, ws), new, n, to)
    BY <2>1 DEF NewPath
  <2>3. to[n] \in dirs
    BY <2>1, <2>2, WayLinked
  <2> QED
    BY <1>1, <2>1, <2>3
<1>3. /\ h2 = h /\ Stored(h, e.sector, c)
      /\ Gains(t, t2, dir, e)
      /\ rest \in Seq(Writes) /\ Len(rest) = 1
      /\ rest[1].to = "map"
  <2>1. EntryToWrite(ws, m, h, t, map, dir, e, c, 0)
    BY <1>2
  <2>2. dir \in Sectors
    BY <1>2
  <2>3. HasEntry(rest, h, t, h2, t2, dir, e, c)
    BY <1>0, <2>1, <2>2, EntryNext
  <2> QED
    BY <2>3 DEF HasEntry
<1>4. ASSUME NEW s PROVE ~ Making(rest, s)
  <2>1. ASSUME NEW i \in 1 .. Len(rest) PROVE rest[i] # TableWrite(s, {})
    <3>1. 1 .. Len(rest) = {1}
      BY <1>3
    <3> QED
      BY <1>3, <3>1 DEF TableWrite
  <2> QED
    BY <2>1 DEF Making
<1>5. \A d \in Sectors : SeenIn(t2, rest)[d] = t2[d]
  BY <1>4 DEF SeenIn
<1>6. \A d \in dirs : SeenIn(t2, rest)[d] = IF d = dir THEN SeenIn(t, ws)[d] \cup {e} ELSE SeenIn(t, ws)[d]
  BY <1>1, <1>3, <1>5 DEF Gains
<1>7. Fresh(map, e.sector, c)
  BY DEF EntryToWrite
<1>8. e.sector \in Sectors /\ e.sector \notin owners
  BY <1>7 DEF Own, Fresh
<1>9. \E path \in Paths, node \in Nodes : Adds(SeenIn(t, ws), h, SeenIn(t2, rest), h2, path, node)
  <2>1. With(SeenIn(t, ws), SeenIn(t2, rest), dirs, to[Len(new) - 1], e)
    BY <1>2, <1>6 DEF With
  <2>2. Own(map, h2, owners, chain) /\ Stored(h2, e.sector, c)
    BY <1>3
  <2> QED
    BY <2>1, <2>2, NewPathAdds
<1> DEFINE more == [o \in owners \cup {e.sector} |-> IF o = e.sector THEN c ELSE chain[o]]
<1>10. Own(map \cup Owned(e.sector, c), h2, owners \cup {e.sector}, more)
  <2>1. more[e.sector] = c /\ \A o \in owners : more[o] = chain[o]
    BY <1>8
  <2>2. \A s \in map : h2[s] = h[s]
    BY <1>3
  <2>3. Stored(h2, e.sector, c)
    BY <1>3
  <2> HIDE DEF more
  <2> QED
    BY <1>7, <2>1, <2>2, <2>3, NewOwner
<1>11. Linked(SeenIn(t2, rest), owners \cup {e.sector}, dirs)
  <2>1. PICK seen, entries : seen = SeenIn(t, ws) /\ entries = seen[dir] \cup {e}
    OBVIOUS
  <2>2. Linked(TablesWith(seen, dir, entries), owners \cup {e.sector}, dirs)
    BY <1>1, <1>2, <1>8, <2>1, LinkFile
  <2>3. \A d \in dirs : SeenIn(t2, rest)[d] \subseteq TablesWith(seen, dir, entries)[d]
    BY <1>1, <1>6, <2>1 DEF TablesWith
  <2> QED
    BY <2>2, <2>3, LinkedLess
<1> HIDE DEF more
<1>12. Closing(rest)
  BY <1>3 DEF Closing
<1>13. OrderlyAt(rest, m2, h2, t2)
  BY <1>10, <1>11, <1>12 DEF OrderlyAt, InCall
<1> QED
  BY <1>0, <1>9, <1>13

\* A directory is not, until its own table is written.
LEMMA DirectoryStep ==
    ASSUME NEW ws, NEW m, NEW h, NEW t, NEW m2, NEW h2, NEW t2, Writing(ws, m, h, t, m2, h2, t2),
           NEW map, NEW owners, NEW chain, NEW dirs, Own(map, h, owners, chain),
           Linked(SeenIn(t, ws), owners, dirs), \A d \in dirs : SeenIn(t, ws)[d] = t[d],
           NEW new, NEW to, NEW e, NEW c, NewPath(SeenIn(t, ws), h, map, new, to, e, c), e.isDir,
           EntryToWrite(ws, m, h, t, map, to[Len(new) - 1], e, c, 0)
    PROVE  /\ OrderlyAt(Tail(ws), m2, h2, t2)
           /\ Stays(SeenIn(t, ws), h, SeenIn(t2, Tail(ws)), h2)
<1>0. PICK rest : rest = Tail(ws)
  OBVIOUS
<1>1. owners \in SUBSET Sectors /\ dirs \subseteq Sectors
  BY DEF Own, Linked
<1>2. PICK dir \in dirs : dir = to[Len(new) - 1] /\ dir \in Sectors
  <2>1. PICK n \in Nat : n = Len(new) - 1 /\ n \in 0 .. n
    BY NameBefore DEF NewPath
  <2>2. Way(SeenIn(t, ws), new, n, to)
    BY <2>1 DEF NewPath
  <2>3. to[n] \in dirs
    BY <2>1, <2>2, WayLinked
  <2> QED
    BY <1>1, <2>1, <2>3
<1>3. /\ h2 = h /\ Stored(h, e.sector, c)
      /\ Gains(t, t2, dir, e)
      /\ rest \in Seq(Writes) /\ Len(rest) = 2
      /\ rest[1].to = "map" /\ rest[2] = TableWrite(e.sector, {})
  <2>1. EntryToWrite(ws, m, h, t, map, dir, e, c, 0)
    BY <1>2
  <2>2. dir \in Sectors
    BY <1>2
  <2>3. HasEntry(rest, h, t, h2, t2, dir, e, c)
    BY <1>0, <2>1, <2>2, EntryNext
  <2> QED
    BY <2>3 DEF HasEntry
<1>4. ASSUME NEW s PROVE Making(rest, s) <=> s = e.sector
  <2>1. ASSUME NEW i \in 1 .. 2, rest[i] = TableWrite(s, {}) PROVE s = e.sector
    <3>1. i = 2
      BY <1>3, <2>1 DEF TableWrite
    <3> QED
      BY <1>3, <2>1, <3>1 DEF TableWrite
  <2>2. 2 \in 1 .. 2 /\ 1 .. Len(rest) = 1 .. 2
    BY <1>3
  <2>3. s = e.sector => Making(rest, s)
    BY <1>3, <2>2 DEF Making
  <2>4. Making(rest, s) => s = e.sector
    BY <2>1, <2>2 DEF Making
  <2> QED
    BY <2>3, <2>4
<1>5. e.sector \notin owners
  BY DEF Own, EntryToWrite, Fresh
<1>6. \A d \in dirs : SeenIn(t2, rest)[d] = SeenIn(t, ws)[d]
  <2>1. ASSUME NEW d \in dirs PROVE SeenIn(t2, rest)[d] = SeenIn(t, ws)[d]
    <3>1. SeenIn(t2, rest)[d] = {f \in t2[d] : f.sector # e.sector}
      BY <1>1, <1>4 DEF SeenIn
    <3>2. t2[d] = IF d = dir THEN SeenIn(t, ws)[d] \cup {e} ELSE SeenIn(t, ws)[d]
      BY <1>1, <1>3 DEF Gains
    <3>3. \A f \in SeenIn(t, ws)[d] : f.sector # e.sector
      BY <1>5 DEF Linked
    <3> QED
      BY <3>1, <3>2, <3>3
  <2> QED
    BY <2>1
<1>7. Linked(SeenIn(t2, rest), owners, dirs)
  <2>1. \A d \in dirs : SeenIn(t2, rest)[d] \subseteq SeenIn(t, ws)[d]
    BY <1>6
  <2> QED
    BY <2>1, LinkedLess
<1>8. NewPath(SeenIn(t2, rest), h2, map, new, to, e, c)
  BY <1>3, <1>6, NewPathStill
<1>9. EntryWritten(rest, h2, e, c, 1)
  <2>1. Len(rest) = 1 + 1 /\ rest[1 + 1] = TableWrite(e.sector, {}) /\ rest[1].to = "map"
    BY <1>3
  <2>2. e.isDir /\ Stored(h2, e.sector, c)
    BY <1>3
  <2> QED
    BY <2>1, <2>2 DEF EntryWritten
<1>10. Holding(SeenIn(t2, rest), t2, dirs, dir, e)
  <2>1. ASSUME NEW d \in dirs
        PROVE  t2[d] = IF d = dir THEN SeenIn(t2, rest)[d] \cup {e} ELSE SeenIn(t2, rest)[d]
    <3>1. t2[d] = IF d = dir THEN SeenIn(t, ws)[d] \cup {e} ELSE SeenIn(t, ws)[d]
      BY <1>1, <1>3 DEF Gains
    <3>2. SeenIn(t2, rest)[d] = SeenIn(t, ws)[d]
      BY <1>6
    <3> QED
      BY <3>1, <3>2
  <2> QED
    BY <2>1 DEF Holding
<1>11. AddingFile(rest, SeenIn(t2, rest), m2, h2, t2, map, dirs)
  <2>1. \E k \in {0, 1} : EntryWritten(rest, h2, e, c, k)
    BY <1>9
  <2> QED
    BY <1>2, <1>8, <1>10, <2>1 DEF AddingFile
<1>12. OrderlyAt(rest, m2, h2, t2)
  BY <1>3, <1>7, <1>11 DEF OrderlyAt, InCall
<1>13. Stays(SeenIn(t, ws), h, SeenIn(t2, rest), h2)
  BY <1>3, <1>6, FoundSame DEF Stays
<1> QED
  BY <1>0, <1>12, <1>13

\* With its own table the directory is there, and empty.
LEMMA TableStep ==
    ASSUME NEW ws, NEW m, NEW h, NEW t, NEW m2, NEW h2, NEW t2, Writing(ws, m, h, t, m2, h2, t2),
           NEW map, NEW owners, NEW chain, NEW dirs, Own(map, h, owners, chain),
           Linked(SeenIn(t, ws), owners, dirs),
           NEW new, NEW to, NEW e, NEW c, NewPath(SeenIn(t, ws), h, map, new, to, e, c),
           Holding(SeenIn(t, ws), t, dirs, to[Len(new) - 1], e),
           NEW k \in {0, 1}, EntryWritten(ws, h, e, c, k)
    PROVE  /\ OrderlyAt(Tail(ws), m2, h2, t2)
           /\ \/ Stays(SeenIn(t, ws), h, SeenIn(t2, Tail(ws)), h2)
              \/ \E path \in Paths, node \in Nodes :
                    Adds(SeenIn(t, ws), h, SeenIn(t2, Tail(ws)), h2, path, node)
<1>0. PICK rest : rest = Tail(ws)
  OBVIOUS
<1>1. /\ e.isDir /\ Stored(h, e.sector, c) /\ Len(ws) = k + 1
      /\ k = 1 => ws[1].to = "map"
      /\ ws[k + 1] = TableWrite(e.sector, {})
  BY DEF EntryWritten
<1>2. ws \in Seq(Writes) /\ ws # << >>
  BY DEF Writing
<1>3. /\ Len(rest) = Len(ws) - 1
      /\ \A i \in 1 .. Len(ws) - 1 : rest[i] = ws[i + 1]
      /\ rest \in Seq(Writes)
  BY <1>0, <1>2, MakingTail, HeadTailProperties
<1>4. CASE k = 1
  <2>1. h2 = h /\ ws[1].to # "table"
    BY <1>1, <1>4 DEF Writing
  <2>2. t2 = t /\ SeenIn(t2, rest) = SeenIn(t, ws)
    BY <1>0, <2>1, SeenTail
  <2>3. Len(rest) = 0 + 1 /\ rest[0 + 1] = ws[k + 1]
    <3>1. Len(ws) = 2 /\ k + 1 = 2 /\ 1 \in 1 .. Len(ws) - 1
      BY <1>1, <1>4
    <3>2. Len(rest) = 1 /\ rest[1] = ws[2]
      BY <1>3, <3>1
    <3> QED
      BY <3>1, <3>2
  <2>4. EntryWritten(rest, h2, e, c, 0)
    BY <1>1, <2>1, <2>3 DEF EntryWritten
  <2>5. AddingFile(rest, SeenIn(t2, rest), m2, h2, t2, map, dirs)
    <3>1. \E l \in {0, 1} : EntryWritten(rest, h2, e, c, l)
      BY <2>4
    <3>2. NewPath(SeenIn(t2, rest), h2, map, new, to, e, c)
      BY <2>1, <2>2
    <3>3. Holding(SeenIn(t2, rest), t2, dirs, to[Len(new) - 1], e)
      BY <2>2
    <3> QED
      BY <3>1, <3>2, <3>3 DEF AddingFile
  <2>6. OrderlyAt(rest, m2, h2, t2)
    BY <2>1, <2>2, <2>5 DEF OrderlyAt, InCall
  <2>7. Stays(SeenIn(t, ws), h, SeenIn(t2, rest), h2)
    BY <2>1, <2>2 DEF Stays
  <2> QED
    BY <1>0, <2>6, <2>7
<1>5. CASE k = 0
  <2>1. rest = << >>
    <3>1. Len(rest) = 0
      BY <1>1, <1>3, <1>5
    <3> QED
      BY <1>3, <3>1, EmptySeq
  <2>2. owners \in SUBSET Sectors /\ dirs \subseteq Sectors /\ dirs \subseteq owners
    BY DEF Own, Linked
  <2>3. e.sector \in Sectors /\ e.sector \notin owners
    BY DEF NewPath, Own
  <2>4. ws[1].to = "table" /\ ws[1].sector = e.sector /\ ws[1].value = {}
    <3>1. ws[1] = TableWrite(e.sector, {})
      BY <1>1, <1>5
    <3> QED
      BY <3>1 DEF TableWrite
  <2>5. h2 = h /\ \A d \in Sectors : t2[d] = IF d = e.sector THEN {} ELSE t[d]
    BY <2>4 DEF Writing
  <2>6. \A d \in Sectors : SeenIn(t2, rest)[d] = t2[d]
    <3>1. 1 .. Len(rest) = {}
      BY <2>1
    <3>2. \A s : ~ Making(rest, s)
      BY <3>1 DEF Making
    <3> QED
      BY <3>2 DEF SeenIn
  <2>7. With(SeenIn(t, ws), SeenIn(t2, rest), dirs, to[Len(new) - 1], e)
    <3>1. SeenIn(t2, rest)[e.sector] = {}
      BY <2>3, <2>5, <2>6
    <3>2. \A d \in dirs : SeenIn(t2, rest)[d] = t[d]
      BY <2>2, <2>3, <2>5, <2>6
    <3> QED
      BY <3>1, <3>2 DEF With, Holding
  <2>8. Own(map, h2, owners, chain) /\ Stored(h2, e.sector, c)
    BY <1>1, <2>5
  <2>9. \E path \in Paths, node \in Nodes : Adds(SeenIn(t, ws), h, SeenIn(t2, rest), h2, path, node)
    BY <2>7, <2>8, NewPathAdds
  <2> QED
    BY <1>0, <2>1, <2>9 DEF OrderlyAt
<1> QED
  BY <1>0, <1>4, <1>5

\* Whatever the next write of a call is, it takes one step in the tree, or none.
LEMMA WriteSteps ==
    ASSUME NEW ws, NEW m, NEW h, NEW t, NEW m2, NEW h2, NEW t2, Writing(ws, m, h, t, m2, h2, t2),
           OrderlyAt(ws, m, h, t)
    PROVE  OrderlyAt(Tail(ws), m2, h2, t2) /\ Steps(SeenIn(t, ws), h, SeenIn(t2, Tail(ws)), h2)
<1>1. PICK map, owners, chain, dirs :
          /\ Own(map, h, owners, chain) /\ Linked(SeenIn(t, ws), owners, dirs)
          /\ InCall(ws, SeenIn(t, ws), m, h, t, map, dirs)
  BY DEF OrderlyAt, Writing
<1>2. CASE Closing(ws)
  BY <1>2, ClosingStep DEF Steps
<1>3. CASE RemovingFile(ws, SeenIn(t, ws), t, dirs)
  BY <1>1, <1>3, RemovingStep DEF Steps
<1>4. CASE AddingFile(ws, SeenIn(t, ws), m, h, t, map, dirs)
  <2>1. PICK new, to, e, c :
            /\ NewPath(SeenIn(t, ws), h, map, new, to, e, c)
            /\ \/ /\ \E k \in Nat : EntryToWrite(ws, m, h, t, map, to[Len(new) - 1], e, c, k)
                  /\ \A d \in dirs : SeenIn(t, ws)[d] = t[d]
               \/ /\ \E k \in {0, 1} : EntryWritten(ws, h, e, c, k)
                  /\ Holding(SeenIn(t, ws), t, dirs, to[Len(new) - 1], e)
    BY <1>4 DEF AddingFile
  <2>2. ASSUME NEW k \in Nat, EntryToWrite(ws, m, h, t, map, to[Len(new) - 1], e, c, k),
               \A d \in dirs : SeenIn(t, ws)[d] = t[d]
        PROVE  OrderlyAt(Tail(ws), m2, h2, t2) /\ Steps(SeenIn(t, ws), h, SeenIn(t2, Tail(ws)), h2)
    <3>1. CASE k > 0
      <4>1. OrderlyAt(Tail(ws), m2, h2, t2) /\ Stays(SeenIn(t, ws), h, SeenIn(t2, Tail(ws)), h2)
        BY <1>1, <2>1, <2>2, <3>1, HeaderStep
      <4> QED
        BY <4>1 DEF Steps
    <3>2. CASE k = 0 /\ e.isDir
      <4>1. EntryToWrite(ws, m, h, t, map, to[Len(new) - 1], e, c, 0)
        BY <2>2, <3>2
      <4>2. OrderlyAt(Tail(ws), m2, h2, t2) /\ Stays(SeenIn(t, ws), h, SeenIn(t2, Tail(ws)), h2)
        BY <1>1, <2>1, <2>2, <3>2, <4>1, DirectoryStep
      <4> QED
        BY <4>2 DEF Steps
    <3>3. CASE k = 0 /\ ~ e.isDir
      <4>1. EntryToWrite(ws, m, h, t, map, to[Len(new) - 1], e, c, 0)
        BY <2>2, <3>3
      <4>2. /\ OrderlyAt(Tail(ws), m2, h2, t2)
            /\ \E path \in Paths, node \in Nodes :
                  Adds(SeenIn(t, ws), h, SeenIn(t2, Tail(ws)), h2, path, node)
        BY <1>1, <2>1, <2>2, <3>3, <4>1, FileStep
      <4> QED
        BY <4>2 DEF Steps
    <3> QED
      BY <3>1, <3>2, <3>3
  <2>3. ASSUME NEW k \in {0, 1}, EntryWritten(ws, h, e, c, k),
               Holding(SeenIn(t, ws), t, dirs, to[Len(new) - 1], e)
        PROVE  OrderlyAt(Tail(ws), m2, h2, t2) /\ Steps(SeenIn(t, ws), h, SeenIn(t2, Tail(ws)), h2)
    <3>1. /\ OrderlyAt(Tail(ws), m2, h2, t2)
          /\ \/ Stays(SeenIn(t, ws), h, SeenIn(t2, Tail(ws)), h2)
             \/ \E path \in Paths, node \in Nodes :
                   Adds(SeenIn(t, ws), h, SeenIn(t2, Tail(ws)), h2, path, node)
      BY <1>1, <2>1, <2>3, TableStep
    <3> QED
      BY <3>1 DEF Steps
  <2> QED
    BY <2>1, <2>2, <2>3
<1> QED
  BY <1>1, <1>2, <1>3, <1>4 DEF InCall

\* Of the tables that the rest of a call writes, only the new directory's own is empty.
LEMMA OnlyNew ==
    ASSUME NEW ws, NEW m, NEW h, NEW t, NEW map, NEW dir, NEW e, NEW c, NEW k \in Nat,
           EntryToWrite(ws, m, h, t, map, dir, e, c, k), NEW s, Making(ws, s)
    PROVE  s = e.sector
<1>1. /\ Len(ws) = k + 2 + (IF e.isDir THEN 1 ELSE 0)
      /\ \A i \in 1 .. k : ws[i].to = "header"
      /\ ws[k + 1] = TableWrite(dir, t[dir] \cup {e})
      /\ ws[k + 2].to = "map"
      /\ e.isDir => ws[k + 3] = TableWrite(e.sector, {})
  BY DEF EntryToWrite
<1>2. PICK i \in 1 .. Len(ws) : ws[i] = TableWrite(s, {})
  BY DEF Making
<1>3. i \in 1 .. k \/ i = k + 1 \/ i = k + 2 \/ (i = k + 3 /\ e.isDir)
  BY <1>1
<1>4. ws[i].to = "table" /\ ws[i].sector = s /\ ws[i].value = {}
  BY <1>2 DEF TableWrite
<1>5. i \notin 1 .. k /\ i # k + 2
  BY <1>1, <1>4
<1>6. i # k + 1
  <2>1. ws[k + 1].value = t[dir] \cup {e}
    BY <1>1 DEF TableWrite
  <2> QED
    BY <1>4, <2>1
<1>7. ws[i] = TableWrite(e.sector, {})
  BY <1>1, <1>3, <1>5, <1>6
<1> QED
  BY <1>4, <1>7 DEF TableWrite

\* What a call adds has a path that is new, in a directory that is there.
LEMMA NewPathIs ==
    ASSUME DiskTypes, writes = << >>, NEW owners, NEW chain, NEW dirs,
           Own(marked, header, owners, chain), Linked(table, owners, dirs),
           NEW path \in Paths, IsDirectory(Parent(path)),
           NEW size \in Nat, NEW isDir \in BOOLEAN, [isDir |-> isDir, size |-> size] \in Nodes,
           NEW new, Made(new, path, size, isDir),
           NEW e, e = [name |-> Last(path), sector |-> new.sector, isDir |-> isDir]
    PROVE  \E to : NewPath(table, header, marked, path, to, e, new.chain) /\ to[Len(path) - 1] = new.dir
<1>1. PICK m \in Nat : m = Len(path) - 1 /\ path \in Seq(Names) /\ m \in 0 .. Len(path)
  <2>1. PICK n \in Nat : n = Len(path) - 1 /\ path \in Seq(Names)
    BY NameBefore
  <2>2. n \in 0 .. Len(path)
    BY <2>1
  <2> QED
    BY <2>1, <2>2
<1>2. PICK q \in Seq(Names) :
          /\ q = Parent(path) /\ Len(q) = m /\ \A i \in 1 .. m : q[i] = path[i]
          /\ \A k \in 0 .. m : SubSeq(q, 1, k) = SubSeq(path, 1, k)
  BY <1>1, Beginning DEF Parent
<1>3. Place(q, 0) = DirectorySector /\ Place(q, m) = GetDirSector(q)
  BY <1>2, PlaceSteps
<1>4. owners \in SUBSET Sectors
  BY DEF Own
<1>5. \A i \in 1 .. m : \E f \in Find(Place(q, i - 1), q[i]) : f.isDir
  BY <1>2, DirectorySteps
<1>6. \A k \in 0 .. m : Place(q, k) \in dirs /\ Place(q, k) \in Sectors
  <2>1. m \in 0 .. Len(q) /\ dirs \subseteq Sectors
    BY <1>1, <1>2, <1>4 DEF Linked
  <2> QED
    BY <1>2, <1>4, <1>5, <2>1, PlacesLinked
<1>7. PICK to : to = [i \in 0 .. m |-> Place(q, i)]
  OBVIOUS
<1>8. Way(table, path, m, to)
  <2>1. to[0] = DirectorySector
    BY <1>1, <1>3, <1>7
  <2>2. ASSUME NEW i \in 1 .. m
        PROVE  \E f \in table[to[i - 1]] : f.name = path[i] /\ f.sector = to[i] /\ f.isDir
    <3>1. i - 1 \in 0 .. m /\ i \in 0 .. m /\ i \in 1 .. Len(q)
      BY <1>1, <1>2
    <3>2. to[i - 1] = Place(q, i - 1) /\ to[i] = Place(q, i) /\ path[i] = q[i]
      BY <1>2, <1>7, <3>1
    <3>3. PICK f \in Find(Place(q, i - 1), q[i]) : f.isDir
      BY <1>5
    <3>4. Follow(Place(q, i - 1), q[i]) = f.sector /\ f \in table[Place(q, i - 1)] /\ f.name = q[i]
      BY <1>6, <3>1, <3>3, OneEntry
    <3>5. Place(q, i) = Follow(Place(q, i - 1), q[i])
      BY <3>1, PlaceSteps
    <3> QED
      BY <3>2, <3>3, <3>4, <3>5
  <2> QED
    BY <2>1, <2>2 DEF Way
<1>9. to[m] = new.dir
  <2>1. m \in 0 .. m
    BY <1>1
  <2> QED
    BY <1>2, <1>3, <1>7, <2>1 DEF Made
<1>10. e.name = Last(path) /\ e.sector = new.sector /\ e.isDir = isDir
  OBVIOUS
<1>11. /\ e.sector \in Sectors \ marked /\ IsChain(new.chain)
       /\ [isDir |-> e.isDir, size |-> FileLength(new.chain)] \in Nodes
  BY <1>10 DEF Made, Fresh
<1>12. ASSUME NEW node PROVE ~ Found(table, header, path, node)
  <2>1. Seen = table
    <3>1. \A s : ~ Making(writes, s)
      BY DEF Making
    <3> QED
      BY <3>1 DEF Seen, SeenIn, DiskTypes
  <2>2. ~ Exists(path)
    BY ExistsInParent DEF Made
  <2>3. ~ Visible(path)
    BY <2>2 DEF Visible
  <2>4. Linked(Seen, owners, dirs)
    BY <2>1
  <2>5. ~ Found(Seen, header, path, node)
    BY <2>3, <2>4, TidiedShows DEF Tidied, ShownIs
  <2> QED
    BY <2>1, <2>5
<1>13. NewPath(table, header, marked, path, to, e, new.chain)
  BY <1>1, <1>8, <1>10, <1>11, <1>12 DEF NewPath
<1> QED
  BY <1>1, <1>9, <1>13

\* A call that has its writes before it has changed nothing.
LEMMA StartSame ==
    ASSUME DiskTypes, writes = << >>, NEW owners, NEW chain, NEW dirs,
           Own(marked, header, owners, chain), Linked(table, owners, dirs),
           NEW ws, \A s \in owners \ {DirectorySector} : ~ Making(ws, s)
    PROVE  /\ \A d \in dirs : SeenIn(table, ws)[d] = table[d]
           /\ Linked(SeenIn(table, ws), owners, dirs)
           /\ Stays(Seen, header, SeenIn(table, ws), header)
<1>1. \A d \in dirs : SeenIn(table, ws)[d] = table[d]
  <2>1. owners \in SUBSET Sectors
    BY DEF Own
  <2> QED
    BY <2>1, SeenSame
<1>2. Linked(SeenIn(table, ws), owners, dirs)
  <2>1. \A d \in dirs : SeenIn(table, ws)[d] \subseteq table[d]
    BY <1>1
  <2> QED
    BY <2>1, LinkedLess
<1>3. Seen = table
  <2>1. \A s : ~ Making(writes, s)
    BY DEF Making
  <2> QED
    BY <2>1 DEF Seen, SeenIn, DiskTypes
<1>4. Stays(table, header, SeenIn(table, ws), header)
  BY <1>1, FoundSame DEF Stays
<1> QED
  BY <1>1, <1>2, <1>3, <1>4

\* So has one that adds a file.
LEMMA StartAdding ==
    ASSUME DiskTypes, writes = << >>, NEW owners, NEW chain, NEW dirs,
           Own(marked, header, owners, chain), Linked(table, owners, dirs),
           NEW path \in Paths, IsDirectory(Parent(path)),
           NEW size \in Nat, NEW isDir \in BOOLEAN, [isDir |-> isDir, size |-> size] \in Nodes,
           NEW new, Made(new, path, size, isDir),
           NEW e, e = [name |-> Last(path), sector |-> new.sector, isDir |-> isDir],
           NEW ws, NEW k \in Nat, EntryToWrite(ws, marked, header, table, marked, new.dir, e, new.chain, k)
    PROVE  OrderlyAt(ws, marked, header, table) /\ Stays(Seen, header, SeenIn(table, ws), header)
<1>1. PICK to : NewPath(table, header, marked, path, to, e, new.chain) /\ to[Len(path) - 1] = new.dir
  BY NewPathIs
<1>2. e.sector \notin owners
  BY <1>1 DEF NewPath, Own
<1>3. \A s \in owners \ {DirectorySector} : ~ Making(ws, s)
  BY <1>2, OnlyNew
<1>4. /\ \A d \in dirs : SeenIn(table, ws)[d] = table[d]
      /\ Linked(SeenIn(table, ws), owners, dirs)
      /\ Stays(Seen, header, SeenIn(table, ws), header)
  BY <1>3, StartSame
<1>5. NewPath(SeenIn(table, ws), header, marked, path, to, e, new.chain)
  BY <1>1, <1>4, NewPathStill
<1>6. EntryToWrite(ws, marked, header, table, marked, to[Len(path) - 1], e, new.chain, k)
  BY <1>1
<1>7. AddingFile(ws, SeenIn(table, ws), marked, header, table, marked, dirs)
  BY <1>4, <1>5, <1>6 DEF AddingFile
<1> QED
  BY <1>4, <1>7 DEF OrderlyAt, InCall

\* Create has first headers to write, all of them to its own sectors.
LEMMA CreateEntry ==
    ASSUME DiskTypes, NEW new, IsNewFile(new), Fresh(marked, new.sector, new.chain),
           NEW e, e.sector = new.sector, ~ e.isDir, new.entries = table[new.dir] \cup {e}
    PROVE  EntryToWrite(CreateWrites(new), marked, header, table, marked, new.dir, e, new.chain, Len(new.chain))
<1>1. PICK n \in Nat : n = Len(new.chain)
  <2>1. PICK c : c = new.chain /\ IsChain(c)
    BY DEF IsNewFile
  <2> QED
    BY <2>1, CountAtLeast
<1>2. PICK ws : ws = CreateWrites(new)
  OBVIOUS
<1>3. /\ Len(ws) = n + 2
      /\ \A i \in 1 .. n : ws[i] = HeaderWrite(Home(new.chain, new.sector, i), new.chain[i])
      /\ ws[n + 1] = TableWrite(new.dir, new.entries)
      /\ ws[n + 2] = MapWrite(new.map)
  BY <1>1, <1>2, CreateWritesAre
<1>4. \A i \in 1 .. n : ws[i].to = "header" /\ ws[i].sector \in Owned(new.sector, new.chain)
  <2>1. ASSUME NEW i \in 1 .. n
        PROVE  ws[i].to = "header" /\ ws[i].sector = Home(new.chain, new.sector, i)
    <3>1. ws[i] = HeaderWrite(Home(new.chain, new.sector, i), new.chain[i])
      BY <1>3
    <3> QED
      BY <3>1 DEF HeaderWrite
  <2>2. \A i \in 1 .. n : Home(new.chain, new.sector, i) \in Owned(new.sector, new.chain)
    BY <1>1, HomesDiffer
  <2> QED
    BY <2>1, <2>2
<1>5. ws[n + 2].to = "map"
  BY <1>3 DEF MapWrite
<1>6. \E map2, headers, tables : Leads(ws, marked, header, table, map2, headers, tables)
                                 /\ Stored(headers, new.sector, new.chain)
  BY <1>2, CreateLeads, PutStores
<1>7. Len(ws) = n + 2 + (IF e.isDir THEN 1 ELSE 0)
  BY <1>3
<1> QED
  BY <1>1, <1>2, <1>3, <1>4, <1>5, <1>6, <1>7 DEF EntryToWrite

\* So has CreateDirectory, which writes the new directory's table last.
LEMMA CreateDirectoryEntry ==
    ASSUME DiskTypes, NEW new, IsNewFile(new), Fresh(marked, new.sector, new.chain), new.sector # new.dir,
           NEW e, e.sector = new.sector, e.isDir, new.entries = table[new.dir] \cup {e}
    PROVE  EntryToWrite(CreateDirectoryWrites(new), marked, header, table, marked, new.dir, e,
                        new.chain, Len(new.chain))
<1>1. PICK n \in Nat : n = Len(new.chain)
  <2>1. PICK c : c = new.chain /\ IsChain(c)
    BY DEF IsNewFile
  <2> QED
    BY <2>1, CountAtLeast
<1>2. PICK a \in Seq(Writes), w \in Writes : a = CreateWrites(new) /\ w = TableWrite(new.sector, {})
  <2>1. new.sector \in Sectors /\ {} \in Tables
    BY FileSystemAssumption, FS_EmptySet DEF IsNewFile, Tables
  <2> QED
    BY <1>1, <2>1, CreateWritesAre, MakesWrites
<1>3. /\ Len(a) = n + 2
      /\ \A i \in 1 .. n : a[i] = HeaderWrite(Home(new.chain, new.sector, i), new.chain[i])
      /\ a[n + 1] = TableWrite(new.dir, new.entries)
      /\ a[n + 2] = MapWrite(new.map)
  BY <1>1, <1>2, CreateWritesAre
<1>4. PICK ws : ws = CreateDirectoryWrites(new)
  OBVIOUS
<1>5. Len(ws) = n + 3 /\ (\A i \in 1 .. n + 2 : ws[i] = a[i]) /\ ws[n + 3] = w
  <2>1. PICK b \in Seq(Writes) : b = <<w>> /\ Len(b) = 1 /\ b[1] = w
    <3>1. <<w>> \in Seq(Writes) /\ Len(<<w>>) = 1 /\ <<w>>[1] = w
      OBVIOUS
    <3> QED
      BY <3>1
  <2>2. ws = a \o b
    BY <1>2, <1>4, <2>1 DEF CreateDirectoryWrites
  <2>3. /\ Len(ws) = Len(a) + Len(b)
        /\ \A i \in 1 .. Len(a) + Len(b) : ws[i] = IF i <= Len(a) THEN a[i] ELSE b[i - Len(a)]
    BY <2>2, ConcatProperties
  <2>4. Len(ws) = n + 3 /\ \A i \in 1 .. n + 3 : ws[i] = IF i <= n + 2 THEN a[i] ELSE b[i - (n + 2)]
    BY <1>3, <2>1, <2>3
  <2>5. ws[n + 3] = b[1]
    <3>1. n + 3 \in 1 .. n + 3 /\ ~ (n + 3 <= n + 2) /\ (n + 3) - (n + 2) = 1
      OBVIOUS
    <3> QED
      BY <2>4, <3>1
  <2>6. \A i \in 1 .. n + 2 : ws[i] = a[i]
    BY <2>4
  <2> QED
    BY <2>1, <2>4, <2>5, <2>6
<1>6. \A i \in 1 .. n : ws[i].to = "header" /\ ws[i].sector \in Owned(new.sector, new.chain)
  <2>1. \A i \in 1 .. n : ws[i] = HeaderWrite(Home(new.chain, new.sector, i), new.chain[i])
    BY <1>3, <1>5
  <2>2. ASSUME NEW i \in 1 .. n
        PROVE  ws[i].to = "header" /\ ws[i].sector = Home(new.chain, new.sector, i)
    <3>1. ws[i] = HeaderWrite(Home(new.chain, new.sector, i), new.chain[i])
      BY <2>1
    <3> QED
      BY <3>1 DEF HeaderWrite
  <2>3. \A i \in 1 .. n : Home(new.chain, new.sector, i) \in Owned(new.sector, new.chain)
    BY <1>1, HomesDiffer
  <2> QED
    BY <2>2, <2>3
<1>7. ws[n + 1] = TableWrite(new.dir, new.entries) /\ ws[n + 2].to = "map"
  <2>1. n + 1 \in 1 .. n + 2 /\ n + 2 \in 1 .. n + 2
    OBVIOUS
  <2>2. ws[n + 1] = a[n + 1] /\ ws[n + 2] = a[n + 2]
    BY <1>5, <2>1
  <2> QED
    BY <1>3, <2>2 DEF MapWrite
<1>8. \E map2, headers, tables : Leads(ws, marked, header, table, map2, headers, tables)
                                 /\ Stored(headers, new.sector, new.chain)
  BY <1>4, CreateDirectoryLeads, PutStores
<1>9. Len(ws) = n + 2 + (IF e.isDir THEN 1 ELSE 0)
  BY <1>5
<1> QED
  BY <1>1, <1>2, <1>4, <1>5, <1>6, <1>7, <1>8, <1>9 DEF EntryToWrite

\* Create begins in order.
LEMMA CreateOrderly ==
    ASSUME Types, Sound, NEW path \in Paths, NEW size \in Sizes, Create(path, size)
    PROVE  Orderly' /\ Stays(Seen, header, Seen', header')
<1>1. PICK new : new = NewFile(path, size, FALSE)
  OBVIOUS
<1>2. /\ writes = << >> /\ IsDirectory(Parent(path)) /\ new.ok
      /\ writes' = CreateWrites(new) /\ UNCHANGED disk
  BY <1>1 DEF Create
<1>3. DiskTypes /\ size \in Nat
  BY FileSystemAssumption DEF Types
<1>4. IsNewFile(new) /\ Made(new, path, size, FALSE)
  BY <1>1, <1>2, <1>3, NewFileIs, NewFileMade
<1>5. PICK owners, chain, dirs : Own(marked, header, owners, chain) /\ Linked(table, owners, dirs)
  BY <1>2, <1>3, SoundNow
<1>6. PICK e : e = [name |-> Last(path), sector |-> new.sector, isDir |-> FALSE]
  OBVIOUS
<1>7. e.sector = new.sector /\ ~ e.isDir /\ new.entries = table[new.dir] \cup {e}
  BY <1>4, <1>6 DEF Made
<1>8. Fresh(marked, new.sector, new.chain)
  BY <1>4 DEF Made
<1>9. PICK ws : ws = CreateWrites(new)
  OBVIOUS
<1>10. PICK n \in Nat : n = Len(new.chain)
  <2>1. PICK c : c = new.chain /\ IsChain(c)
    BY <1>4 DEF IsNewFile
  <2> QED
    BY <2>1, CountAtLeast
<1>11. EntryToWrite(ws, marked, header, table, marked, new.dir, e, new.chain, n)
  BY <1>3, <1>4, <1>7, <1>8, <1>9, <1>10, CreateEntry
<1>12. [isDir |-> FALSE, size |-> size] \in Nodes
  BY DEF Nodes
<1>13. OrderlyAt(ws, marked, header, table) /\ Stays(Seen, header, SeenIn(table, ws), header)
  BY <1>2, <1>3, <1>4, <1>5, <1>6, <1>11, <1>12, StartAdding
<1>14. writes' = ws /\ marked' = marked /\ header' = header /\ table' = table
  BY <1>2, <1>9 DEF disk
<1> QED
  BY <1>13, <1>14 DEF Orderly, Seen

\* CreateDirectory begins in order.
LEMMA CreateDirectoryOrderly ==
    ASSUME Types, Sound, NEW path \in Paths, CreateDirectory(path)
    PROVE  Orderly' /\ Stays(Seen, header, Seen', header')
<1>1. PICK new : new = NewFile(path, DirectoryFileSize, TRUE)
  OBVIOUS
<1>2. /\ writes = << >> /\ IsDirectory(Parent(path)) /\ new.ok
      /\ writes' = CreateWrites(new) \o <<TableWrite(new.sector, {})>> /\ UNCHANGED disk
  BY <1>1 DEF CreateDirectory
<1>3. DiskTypes /\ DirectoryFileSize \in Nat
  BY FileSystemAssumption DEF Types
<1>4. IsNewFile(new) /\ Made(new, path, DirectoryFileSize, TRUE)
  BY <1>1, <1>2, <1>3, NewFileIs, NewFileMade
<1>5. PICK owners, chain, dirs : Own(marked, header, owners, chain) /\ Linked(table, owners, dirs)
  BY <1>2, <1>3, SoundNow
<1>6. PICK e : e = [name |-> Last(path), sector |-> new.sector, isDir |-> TRUE]
  OBVIOUS
<1>7. e.sector = new.sector /\ e.isDir /\ new.entries = table[new.dir] \cup {e}
  BY <1>4, <1>6 DEF Made
<1>8. Fresh(marked, new.sector, new.chain)
  BY <1>4 DEF Made
<1>9. new.sector # new.dir
  <2>1. owners \in SUBSET Sectors /\ new.sector \notin owners
    BY <1>5, <1>8 DEF Own, Fresh
  <2>2. Parent(path) \in Seq(Names)
    BY PathIs
  <2>3. new.dir \in dirs
    BY <1>2, <1>3, <1>4, <1>5, <2>1, <2>2, DirectoryLinked DEF Made
  <2> QED
    BY <1>5, <2>1, <2>3 DEF Linked
<1>10. PICK ws : ws = CreateDirectoryWrites(new)
  OBVIOUS
<1>11. PICK n \in Nat : n = Len(new.chain)
  <2>1. PICK c : c = new.chain /\ IsChain(c)
    BY <1>4 DEF IsNewFile
  <2> QED
    BY <2>1, CountAtLeast
<1>12. EntryToWrite(ws, marked, header, table, marked, new.dir, e, new.chain, n)
  BY <1>3, <1>4, <1>7, <1>8, <1>9, <1>10, <1>11, CreateDirectoryEntry
<1>13. [isDir |-> TRUE, size |-> DirectoryFileSize] \in Nodes
  BY DEF Nodes
<1>14. OrderlyAt(ws, marked, header, table) /\ Stays(Seen, header, SeenIn(table, ws), header)
  BY <1>2, <1>3, <1>4, <1>5, <1>6, <1>12, <1>13, StartAdding
<1>15. writes' = ws /\ marked' = marked /\ header' = header /\ table' = table
  BY <1>2, <1>10 DEF disk, CreateDirectoryWrites
<1> QED
  BY <1>14, <1>15 DEF Orderly, Seen

\* So does Remove.
LEMMA RemoveOrderly ==
    ASSUME Types, Sound, NEW name \in Names, Remove(name)
    PROVE  Orderly' /\ Stays(Seen, header, Seen', header')
<1>1. PICK freed, ws :
          /\ writes' = ws
          /\ ws = <<MapWrite(marked \ freed),
                    TableWrite(DirectorySector, table[DirectorySector] \ Find(DirectorySector, name))>>
  BY DEF Remove
<1>2. writes = << >> /\ Find(DirectorySector, name) # {} /\ UNCHANGED disk
  BY DEF Remove
<1>3. DiskTypes
  BY DEF Types
<1>4. PICK owners, chain, dirs : Own(marked, header, owners, chain) /\ Linked(table, owners, dirs)
  BY <1>2, <1>3, SoundNow
<1>5. DirectorySector \in Sectors
  BY <1>4 DEF Own, Linked
<1>6. PICK e \in Find(DirectorySector, name) : TRUE
  BY <1>2
<1>7. Find(DirectorySector, name) = {e} /\ e \in table[DirectorySector]
  BY <1>3, <1>5, OneEntry
<1>8. /\ Len(ws) = 2 /\ ws[1] = MapWrite(marked \ freed)
      /\ ws[2] = TableWrite(DirectorySector, table[DirectorySector] \ {e})
  BY <1>1, <1>7
<1>9. Removing(ws, table, e, 1)
  <2>1. Len(ws) = 1 + 1 /\ ws[1 + 1] = TableWrite(DirectorySector, table[DirectorySector] \ {e})
    BY <1>8
  <2>2. ws[1].to = "map"
    BY <1>8 DEF MapWrite
  <2> QED
    BY <1>7, <2>1, <2>2 DEF Removing
<1>10. ASSUME NEW s, Making(ws, s) PROVE s = DirectorySector
  <2>1. PICK i \in 1 .. Len(ws) : ws[i] = TableWrite(s, {})
    BY <1>10 DEF Making
  <2>2. i = 1 \/ i = 2
    BY <1>8
  <2>3. ws[1] # TableWrite(s, {})
    BY <1>8 DEF MapWrite, TableWrite
  <2>4. ws[2] = TableWrite(s, {})
    BY <2>1, <2>2, <2>3
  <2> QED
    BY <1>8, <2>4 DEF TableWrite
<1>11. \A s \in owners \ {DirectorySector} : ~ Making(ws, s)
  BY <1>10
<1>12. /\ \A d \in dirs : SeenIn(table, ws)[d] = table[d]
       /\ Linked(SeenIn(table, ws), owners, dirs)
       /\ Stays(Seen, header, SeenIn(table, ws), header)
  BY <1>2, <1>3, <1>4, <1>11, StartSame
<1>13. RemovingFile(ws, SeenIn(table, ws), table, dirs)
  BY <1>9, <1>12 DEF RemovingFile
<1>14. OrderlyAt(ws, marked, header, table)
  BY <1>4, <1>12, <1>13 DEF OrderlyAt, InCall
<1>15. writes' = ws /\ marked' = marked /\ header' = header /\ table' = table
  BY <1>1, <1>2 DEF disk
<1> QED
  BY <1>12, <1>14, <1>15 DEF Orderly, Seen

\* What there is to write is done, or is taken up, in order, and takes one step
\* in the tree at most.
LEMMA NextOrderly ==
    ASSUME MaxCrashes = 0
    PROVE  Types /\ Sound /\ Orderly /\ [Next]_vars => Orderly' /\ Steps(Seen, header, Seen', header')
<1> SUFFICES ASSUME Types, Sound, Orderly, [Next]_vars
             PROVE  Orderly' /\ Steps(Seen, header, Seen', header')
  OBVIOUS
<1>1. CASE UNCHANGED vars
  <2>1. writes' = writes /\ marked' = marked /\ header' = header /\ table' = table
    BY <1>1 DEF vars, disk
  <2>2. Orderly' /\ Seen' = Seen
    BY <2>1 DEF Orderly, Seen
  <2>3. Stays(Seen, header, Seen', header')
    BY <2>1, <2>2 DEF Stays
  <2> QED
    BY <2>2, <2>3 DEF Steps
<1>2. ASSUME NEW path \in Paths, NEW size \in Sizes, Create(path, size)
      PROVE  Orderly' /\ Steps(Seen, header, Seen', header')
  BY <1>2, CreateOrderly DEF Steps
<1>3. ASSUME NEW path \in Paths, CreateDirectory(path)
      PROVE  Orderly' /\ Steps(Seen, header, Seen', header')
  BY <1>3, CreateDirectoryOrderly DEF Steps
<1>4. ASSUME NEW name \in Names, Remove(name)
      PROVE  Orderly' /\ Steps(Seen, header, Seen', header')
  BY <1>4, RemoveOrderly DEF Steps
<1>5. CASE WriteNext
  <2>1. Writing(writes, marked, header, table, marked', header', table') /\ writes' = Tail(writes)
    BY <1>5, WritingNext
  <2>2. OrderlyAt(writes, marked, header, table)
    BY DEF Orderly
  <2>3. /\ OrderlyAt(Tail(writes), marked', header', table')
        /\ Steps(SeenIn(table, writes), header, SeenIn(table', Tail(writes)), header')
    BY <2>1, <2>2, WriteSteps
  <2> QED
    BY <2>1, <2>3 DEF Orderly, Seen
<1>6. ~ Crash
  <2>1. crashes \in 0 .. 0
    BY DEF Types, CallTypes
  <2> QED
    BY <2>1 DEF Crash
<1> QED
  BY <1>1, <1>2, <1>3, <1>4, <1>5, <1>6 DEF Next

\* The tree that the disk shows, and one step of a tree.
Shown == [p \in {q \in Paths : Visible(q)} |-> NodeAt(p)]
IsShown(tree, seen, h) ==
    /\ DOMAIN tree \subseteq Paths /\ tree = [p \in DOMAIN tree |-> tree[p]]
    /\ \A p \in Paths : \A node : Found(seen, h, p, node) <=> p \in DOMAIN tree /\ node = tree[p]
TreeAdd(tree, tree2, path, node) ==
    /\ Len(path) > 1 => Parent(path) \in DOMAIN tree /\ tree[Parent(path)].isDir
    /\ tree2 = [p \in DOMAIN tree \cup {path} |-> IF p = path THEN node ELSE tree[p]]
TreeRemove(tree, tree2, name) ==
    /\ <<name>> \in DOMAIN tree
    /\ tree2 = [p \in {q \in DOMAIN tree : q[1] # name} |-> tree[p]]
TreeNext(tree, tree2) ==
    \/ \E path \in Paths \ DOMAIN tree : \E node \in Nodes : TreeAdd(tree, tree2, path, node)
    \/ \E name \in Names : TreeRemove(tree, tree2, name)

\* Trees in which the same is found are one.
LEMMA SameTree ==
    ASSUME NEW f, NEW g, f = [p \in DOMAIN f |-> f[p]], g = [p \in DOMAIN g |-> g[p]],
           DOMAIN f = DOMAIN g, \A p \in DOMAIN f : f[p] = g[p]
    PROVE  f = g
OBVIOUS

\* A step of what is found is one of the tree, or none.
LEMMA TreeSteps ==
    ASSUME NEW s, NEW h, NEW s2, NEW h2, Steps(s, h, s2, h2),
           NEW f, NEW g, IsShown(f, s, h), IsShown(g, s2, h2)
    PROVE  TreeNext(f, g) \/ g = f
<1>1. /\ DOMAIN f \subseteq Paths /\ DOMAIN g \subseteq Paths
      /\ f = [p \in DOMAIN f |-> f[p]] /\ g = [p \in DOMAIN g |-> g[p]]
  BY DEF IsShown
<1>2. ASSUME NEW p \in Paths, NEW node
      PROVE  /\ Found(s, h, p, node) <=> p \in DOMAIN f /\ node = f[p]
             /\ Found(s2, h2, p, node) <=> p \in DOMAIN g /\ node = g[p]
  BY DEF IsShown
<1>3. CASE Stays(s, h, s2, h2)
  <2>1. ASSUME NEW p \in Paths, NEW node PROVE Found(s2, h2, p, node) <=> Found(s, h, p, node)
    BY <1>3 DEF Stays
  <2>2. ASSUME NEW p \in Paths
        PROVE  (p \in DOMAIN f => p \in DOMAIN g /\ g[p] = f[p]) /\ (p \in DOMAIN g => p \in DOMAIN f)
    BY <1>2, <2>1
  <2>3. DOMAIN f = DOMAIN g /\ \A p \in DOMAIN f : f[p] = g[p]
    BY <1>1, <2>2
  <2> QED
    BY <1>1, <2>3, SameTree
<1>4. ASSUME NEW path \in Paths, NEW node \in Nodes, Adds(s, h, s2, h2, path, node)
      PROVE  TreeNext(f, g)
  <2>1. /\ \A other : ~ Found(s, h, path, other)
        /\ Len(path) > 1 => Parent(path) \in Paths /\ \E above : Found(s, h, Parent(path), above) /\ above.isDir
        /\ \A p \in Paths : \A other :
              Found(s2, h2, p, other) <=> Found(s, h, p, other) \/ (p = path /\ other = node)
    BY <1>4 DEF Adds
  <2>2. path \notin DOMAIN f
    BY <1>2, <2>1
  <2>3. Len(path) > 1 => Parent(path) \in DOMAIN f /\ f[Parent(path)].isDir
    <3>1. ASSUME Len(path) > 1 PROVE Parent(path) \in DOMAIN f /\ f[Parent(path)].isDir
      <4>1. PICK q \in Paths : q = Parent(path) /\ \E above : Found(s, h, q, above) /\ above.isDir
        BY <2>1, <3>1
      <4>2. PICK above : Found(s, h, q, above) /\ above.isDir
        BY <4>1
      <4>3. q \in DOMAIN f /\ above = f[q]
        BY <1>2, <4>2
      <4> QED
        BY <4>1, <4>2, <4>3
    <3> QED
      BY <3>1
  <2>4. PICK new : new = [p \in DOMAIN f \cup {path} |-> IF p = path THEN node ELSE f[p]]
    OBVIOUS
  <2>5. ASSUME NEW p \in Paths
        PROVE  /\ p \in DOMAIN f \cup {path} => p \in DOMAIN g /\ g[p] = new[p]
               /\ p \in DOMAIN g => p \in DOMAIN f \cup {path}
    <3>1. \A other : Found(s2, h2, p, other) <=> Found(s, h, p, other) \/ (p = path /\ other = node)
      BY <2>1
    <3>2. /\ \A other : Found(s, h, p, other) <=> p \in DOMAIN f /\ other = f[p]
          /\ \A other : Found(s2, h2, p, other) <=> p \in DOMAIN g /\ other = g[p]
      BY <1>2
    <3>3. CASE p = path
      <4>1. p \in DOMAIN g /\ node = g[p]
        BY <3>1, <3>2, <3>3
      <4>2. new[p] = node
        BY <2>4, <3>3
      <4> QED
        BY <3>3, <4>1, <4>2
    <3>4. CASE p # path
      <4>1. (p \in DOMAIN f => p \in DOMAIN g /\ g[p] = f[p]) /\ (p \in DOMAIN g => p \in DOMAIN f)
        BY <3>1, <3>2, <3>4
      <4>2. p \in DOMAIN f => new[p] = f[p]
        BY <2>4, <3>4
      <4> QED
        BY <3>4, <4>1, <4>2
    <3> QED
      BY <3>3, <3>4
  <2>6. DOMAIN new = DOMAIN f \cup {path} /\ new = [p \in DOMAIN new |-> new[p]]
    BY <2>4
  <2>7. DOMAIN g = DOMAIN new /\ \A p \in DOMAIN g : g[p] = new[p]
    BY <1>1, <2>5, <2>6
  <2>8. g = new
    BY <1>1, <2>6, <2>7, SameTree
  <2>9. TreeAdd(f, g, path, node)
    BY <2>3, <2>4, <2>8 DEF TreeAdd
  <2> QED
    BY <2>2, <2>9 DEF TreeNext
<1>5. ASSUME NEW name \in Names, Removes(s, h, s2, h2, name) PROVE TreeNext(f, g)
  <2>1. /\ <<name>> \in Paths /\ \E node : Found(s, h, <<name>>, node)
        /\ \A p \in Paths : \A node :
               Found(s2, h2, p, node) <=> Found(s, h, p, node) /\ p[1] # name
    BY <1>5 DEF Removes
  <2>2. <<name>> \in DOMAIN f
    BY <1>2, <2>1
  <2>3. PICK left : left = {q \in DOMAIN f : q[1] # name}
    OBVIOUS
  <2>4. PICK new : new = [p \in left |-> f[p]]
    OBVIOUS
  <2>5. ASSUME NEW p \in Paths
        PROVE  (p \in left => p \in DOMAIN g /\ g[p] = f[p]) /\ (p \in DOMAIN g => p \in left)
    <3>1. \A node : Found(s2, h2, p, node) <=> Found(s, h, p, node) /\ p[1] # name
      BY <2>1
    <3>2. /\ \A node : Found(s, h, p, node) <=> p \in DOMAIN f /\ node = f[p]
          /\ \A node : Found(s2, h2, p, node) <=> p \in DOMAIN g /\ node = g[p]
      BY <1>2
    <3> QED
      BY <2>3, <3>1, <3>2
  <2>6. DOMAIN new = left /\ new = [p \in DOMAIN new |-> new[p]] /\ left \subseteq Paths
    BY <1>1, <2>3, <2>4
  <2>7. DOMAIN g = DOMAIN new /\ \A p \in DOMAIN g : g[p] = new[p]
    BY <1>1, <2>4, <2>5, <2>6
  <2>8. g = new
    BY <1>1, <2>6, <2>7, SameTree
  <2>9. TreeRemove(f, g, name)
    BY <2>2, <2>3, <2>4, <2>8 DEF TreeRemove
  <2> QED
    BY <2>9 DEF TreeNext
<1> QED
  BY <1>3, <1>4, <1>5 DEF Steps

\* What is visible is what is found.
LEMMA ShownNow == ShownIs => IsShown(Shown, Seen, header)
<1> SUFFICES ASSUME ShownIs PROVE IsShown(Shown, Seen, header)
  OBVIOUS
<1>1. DOMAIN Shown = {q \in Paths : Visible(q)} /\ Shown = [p \in DOMAIN Shown |-> Shown[p]]
  BY DEF Shown
<1>2. \A p \in DOMAIN Shown : Shown[p] = NodeAt(p)
  BY DEF Shown
<1>3. ASSUME NEW p \in Paths, NEW node
      PROVE  Found(Seen, header, p, node) <=> p \in DOMAIN Shown /\ node = Shown[p]
  <2>1. Found(Seen, header, p, node) <=> Visible(p) /\ node = NodeAt(p)
    BY DEF ShownIs
  <2>2. p \in DOMAIN Shown <=> Visible(p)
    BY <1>1
  <2> QED
    BY <1>2, <2>1, <2>2
<1> QED
  BY <1>1, <1>3 DEF IsShown

\* The disk as formatted is in order, and shows an empty tree.
LEMMA InitShown == Init => Orderly /\ Tree!Init
<1> SUFFICES ASSUME Init PROVE Orderly /\ Tree!Init
  OBVIOUS
<1>1. writes = << >> /\ table = [s \in Sectors |-> {}]
  BY DEF Init
<1>2. Orderly
  BY <1>1 DEF Orderly, OrderlyAt
<1>3. ASSUME NEW p \in Paths PROVE ~ Visible(p)
  <2>1. p \in Seq(Names) /\ 1 \in 1 .. Len(p) /\ 1 - 1 = 0
    BY PathIs
  <2>2. Place(p, 0) = DirectorySector /\ DirectorySector \in Sectors
    BY <2>1, PlaceSteps, FileSystemAssumption, DiskAssumption DEF DirectorySector, Sectors
  <2>3. Find(Place(p, 0), p[1]) = {}
    BY <1>1, <2>2 DEF Find
  <2>4. ~ Exists(p)
    BY <2>1, <2>3 DEF Exists, Place
  <2> QED
    BY <2>4 DEF Visible
<1>4. {q \in Paths : Visible(q)} = {}
  BY <1>3
<1>5. Tree!Init
  BY <1>4 DEF Tree!Init
<1> QED
  BY <1>2, <1>5

\* A step of the file system is one of the tree, or none.
LEMMA NextShown ==
    ShownIs /\ ShownIs' /\ Steps(Seen, header, Seen', header') => Tree!Next \/ UNCHANGED Shown
<1> SUFFICES ASSUME ShownIs, ShownIs', Steps(Seen, header, Seen', header') PROVE Tree!Next \/ UNCHANGED Shown
  OBVIOUS
<1>1. IsShown(Shown, Seen, header)
  BY ShownNow
<1>2. IsShown(Shown', Seen', header')
  <2>1. IsShown(Shown, Seen, header)'
    BY ShownNow, PTL
  <2> QED
    BY <2>1
<1>3. TreeNext(Shown, Shown') \/ Shown' = Shown
  BY <1>1, <1>2, TreeSteps
<1>4. TreeNext(Shown, Shown') => Tree!Next
  BY DEF TreeNext, TreeAdd, TreeRemove, Nodes, Parent, Shown, Tree!Next, Tree!Add, Tree!Remove, Tree!Parent
<1> QED
  BY <1>3, <1>4

\* As long as the machine never stops in the middle of a call, the files on disk
\* are a tree of named files and directories: Create, CreateDirectory and Remove
\* (filesys.cc 185-345) each take effect with one write of a directory, appear or
\* disappear as a whole, whatever the length of their chains of headers, and leave
\* every other path as it is.
THEOREM DiskImplementsTree == ASSUME MaxCrashes = 0 PROVE Spec => ImplementsTree
<1>1. Types => crashes = 0
  <2>1. ASSUME Types PROVE crashes \in 0 .. 0
    BY <2>1 DEF Types, CallTypes
  <2> QED
    BY <2>1
<1>2. Types /\ NeverStopped => DiskTypes /\ Sound
  BY <1>1 DEF NeverStopped, Types
<1>3. Types /\ NeverStopped /\ Orderly /\ [Next]_vars => Orderly' /\ Steps(Seen, header, Seen', header')
  BY <1>2, NextOrderly
<1>4. Types /\ NeverStopped /\ Orderly => ShownIs
  BY <1>2, OrderlyTidied, TidiedShows
<1>5. Spec => [](Types /\ NeverStopped /\ Orderly)
  BY <1>3, TypesHold, InitSound, NextSound, InitShown, PTL DEF Spec
<1>6. Types /\ NeverStopped /\ Orderly /\ (Types /\ NeverStopped /\ Orderly)' /\ [Next]_vars
      => [Tree!Next]_Shown
  BY <1>3, <1>4, NextShown, PTL
<1>7. Spec => Tree!Init
  BY InitShown DEF Spec
<1> QED
  BY <1>5, <1>6, <1>7, PTL DEF Spec, ImplementsTree, Tree!Spec, Shown

-----------------------------------------------------------------------------
(* What completed calls have made, through stops and whatever comes after. *)
(* The entries that a stopped call, or the current one, was on are left    *)
(* out of the directories: without them the disk is sound at every moment, *)
(* and what is found in it is what completed calls have made.              *)

\* The directories without these entries.
Kept(tables, gone) == [s \in Sectors |-> {e \in tables[s] : <<s, e.name>> \notin gone}]
\* What is found in the directories.
Lists(tables, headers, files) ==
    \A p \in Paths : \A node : Found(tables, headers, p, node) <=> <<p, node>> \in files
\* A disk with all its sectors owned once, and what is found in it.
Keeps(map, headers, tables, owners, chain, dirs, files) ==
    /\ Own(map, headers, owners, chain) /\ Linked(tables, owners, dirs)
    /\ Lists(tables, headers, files)
\* A write that changes nothing of that.
Spares(w, gone, tables, owners, chain, dirs) ==
    /\ w.to = "header" => \A o \in owners : w.sector \notin Owned(o, chain[o])
    /\ w.to = "map" => \A o \in owners : Owned(o, chain[o]) \subseteq w.value
    /\ w.to = "table" /\ w.sector \in dirs =>
           {e \in w.value : <<w.sector, e.name>> \notin gone} = tables[w.sector]
\* The files stand, whatever of the writes is done.
Stands(ws, m, h, t, gone, files) ==
    \E owners, chain, dirs :
        /\ Keeps(m, h, Kept(t, gone), owners, chain, dirs, files)
        /\ \A i \in 1 .. Len(ws) : Spares(ws[i], gone, Kept(t, gone), owners, chain, dirs)
\* Once all the writes are done these files will be there.
Lands(ws, m, h, t, gone, files) ==
    \E map, headers, tables, owners, chain, dirs :
        /\ Leads(ws, m, h, t, map, headers, tables)
        /\ Keeps(map, headers, Kept(tables, gone), owners, chain, dirs, files)
\* Both, for the call that is being written.
Intact ==
    /\ Stands(writes, marked, header, table, stopped \cup call.on, completed)
    /\ writes # << >> => Lands(writes, marked, header, table, stopped, completed \cup call.makes)
    /\ writes = << >> => call = NoCall

\* Where nothing of the owners and the directories has changed, all is as before.
LEMMA KeepsStill ==
    ASSUME NEW map, NEW headers, NEW tables, NEW owners, NEW chain, NEW dirs, NEW files,
           Keeps(map, headers, tables, owners, chain, dirs, files),
           NEW map2 \in SUBSET Sectors, NEW headers2,
           \A o \in owners : /\ Owned(o, chain[o]) \subseteq map2
                             /\ \A t \in Owned(o, chain[o]) : headers2[t] = headers[t],
           NEW tables2, \A d \in dirs : tables2[d] = tables[d]
    PROVE  Keeps(map2, headers2, tables2, owners, chain, dirs, files)
<1>1. /\ Own(map, headers, owners, chain) /\ Linked(tables, owners, dirs)
      /\ Lists(tables, headers, files)
  BY DEF Keeps
<1>2. Own(map2, headers2, owners, chain)
  BY <1>1, OwnStill
<1>3. Linked(tables2, owners, dirs)
  <2>1. \A d \in dirs : tables2[d] \subseteq tables[d]
    OBVIOUS
  <2> QED
    BY <1>1, <2>1, LinkedLess
<1>4. ASSUME NEW p \in Paths, NEW node
      PROVE  Found(tables2, headers2, p, node) <=> <<p, node>> \in files
  <2>1. Found(tables2, headers2, p, node) <=> Found(tables, headers, p, node)
    BY <1>1, <1>2, FoundSame
  <2> QED
    BY <1>1, <2>1 DEF Lists
<1>5. Lists(tables2, headers2, files)
  BY <1>4 DEF Lists
<1> QED
  BY <1>2, <1>3, <1>5 DEF Keeps

\* A path that exists and avoids these entries is one that leads on without them.
LEMMA AvoidsIs ==
    ASSUME DiskTypes, NEW owners \in SUBSET Sectors, NEW dirs, NEW gone,
           Linked(Kept(table, gone), owners, dirs), NEW path \in Paths
    PROVE  Exists(path) /\ Avoids(path, gone) <=>
               /\ LeadsOn(Kept(table, gone), path, Len(path))
               /\ \A k \in 0 .. Len(path) - 1 : Place(path, k) \in dirs
<1>1. PICK n \in Nat : n = Len(path) /\ path \in Seq(Names)
  BY PathIs
<1>2. /\ \A s \in Sectors : Kept(table, gone)[s] \subseteq table[s]
      /\ \A s \in Sectors : \A e : e \in Kept(table, gone)[s] <=> e \in table[s] /\ <<s, e.name>> \notin gone
  BY DEF Kept
<1>3. ASSUME Exists(path), Avoids(path, gone)
      PROVE  /\ LeadsOn(Kept(table, gone), path, Len(path))
             /\ \A k \in 0 .. Len(path) - 1 : Place(path, k) \in dirs
  <2>1. \A i \in 1 .. n : /\ <<Place(path, i - 1), path[i]>> \notin gone
                          /\ \E e \in Find(Place(path, i - 1), path[i]) : i < n => e.isDir
    BY <1>1, <1>3 DEF Exists, Avoids, Place
  <2>2. ASSUME NEW i \in 1 .. n, Place(path, i - 1) \in Sectors
        PROVE  \E e \in Kept(table, gone)[Place(path, i - 1)] : e.name = path[i] /\ (i < n => e.isDir)
    <3>1. PICK e \in Find(Place(path, i - 1), path[i]) : i < n => e.isDir
      BY <2>1
    <3>2. e \in table[Place(path, i - 1)] /\ e.name = path[i]
      BY DEF Find
    <3>3. e \in Kept(table, gone)[Place(path, i - 1)]
      BY <1>2, <2>1, <2>2, <3>2
    <3> QED
      BY <3>1, <3>2, <3>3
  <2>3. \A i \in 1 .. Len(path) : Place(path, i - 1) \in Sectors =>
            \E e \in Kept(table, gone)[Place(path, i - 1)] : e.name = path[i] /\ (i < Len(path) => e.isDir)
    BY <1>1, <2>2
  <2>4. PICK part : part = Kept(table, gone)
    OBVIOUS
  <2>5. /\ LeadsOn(part, path, Len(path))
        /\ \A k \in 0 .. Len(path) - 1 : Place(path, k) \in dirs
    BY <1>2, <2>3, <2>4, PathLeads
  <2> QED
    BY <2>4, <2>5
<1>4. ASSUME LeadsOn(Kept(table, gone), path, Len(path)) PROVE Exists(path) /\ Avoids(path, gone)
  <2>1. ASSUME NEW i \in 1 .. n
        PROVE  /\ <<Place(path, i - 1), path[i]>> \notin gone
               /\ \E e \in Find(Place(path, i - 1), path[i]) : i < n => e.isDir
    <3>1. PICK s \in Sectors : s = Place(path, i - 1)
      BY <1>1, <1>4 DEF LeadsOn
    <3>2. PICK e \in Kept(table, gone)[s] : e.name = path[i] /\ (i < n => e.isDir) /\ Find(s, path[i]) = {e}
      BY <1>1, <1>4, <3>1 DEF LeadsOn
    <3>3. <<s, path[i]>> \notin gone
      BY <1>2, <3>2
    <3> QED
      BY <3>1, <3>2, <3>3
  <2> QED
    BY <1>1, <2>1 DEF Exists, Avoids, Place
<1> QED
  BY <1>3, <1>4

\* Its sector is an owner's; no two such paths have the same.
LEMMA LeadsToOwner ==
    ASSUME NEW owners \in SUBSET Sectors, NEW dirs, NEW part, Linked(part, owners, dirs),
           NEW p \in Paths, LeadsOn(part, p, Len(p)), \A k \in 0 .. Len(p) - 1 : Place(p, k) \in dirs
    PROVE  /\ GetDirSector(p) \in owners
           /\ \A q \in Paths :
                 /\ LeadsOn(part, q, Len(q)) /\ \A k \in 0 .. Len(q) - 1 : Place(q, k) \in dirs
                 /\ GetDirSector(p) = GetDirSector(q)
                 => p = q
<1> DEFINE Ends(path, n) == \E e \in part[Place(path, n - 1)] : e.name = path[n] /\ e.sector = GetDirSector(path)
<1>1. ASSUME NEW path \in Paths, LeadsOn(part, path, Len(path)),
             \A k \in 0 .. Len(path) - 1 : Place(path, k) \in dirs
      PROVE  \E n \in Nat : n = Len(path) /\ n >= 1 /\ Place(path, n - 1) \in dirs /\ Ends(path, n)
  <2>1. PICK n \in Nat : n = Len(path) /\ n >= 1 /\ path \in Seq(Names)
    BY PathIs
  <2>2. n \in 1 .. n /\ n - 1 \in 0 .. n - 1
    BY <2>1
  <2>3. Place(path, n) = GetDirSector(path)
    BY <2>1, PlaceSteps
  <2>4. Ends(path, n)
    BY <1>1, <2>1, <2>2, <2>3 DEF LeadsOn
  <2>5. Place(path, n - 1) \in dirs
    BY <1>1, <2>1, <2>2
  <2> QED
    BY <2>1, <2>4, <2>5
<1>2. PICK n \in Nat : n = Len(p) /\ n >= 1 /\ Place(p, n - 1) \in dirs /\ Ends(p, n)
  BY <1>1
<1>3. GetDirSector(p) \in owners
  BY <1>2 DEF Linked
<1>4. ASSUME NEW q \in Paths, LeadsOn(part, q, Len(q)), \A k \in 0 .. Len(q) - 1 : Place(q, k) \in dirs,
             GetDirSector(p) = GetDirSector(q)
      PROVE  p = q
  <2>1. PICK m \in Nat : m = Len(q) /\ m >= 1 /\ Place(q, m - 1) \in dirs /\ Ends(q, m)
    BY <1>1, <1>4
  <2>2. PICK e \in part[Place(p, n - 1)] : e.name = p[n] /\ e.sector = GetDirSector(p)
    BY <1>2
  <2>3. PICK f \in part[Place(q, m - 1)] : f.name = q[m] /\ f.sector = GetDirSector(q)
    BY <2>1
  <2>4. Place(p, n - 1) = Place(q, m - 1) /\ e = f
    BY <1>2, <1>4, <2>1, <2>2, <2>3 DEF Linked
  <2>5. PICK at, to : /\ at = [i \in 0 .. n - 1 |-> Place(p, i)]
                      /\ to = [i \in 0 .. m - 1 |-> Place(q, i)]
    OBVIOUS
  <2>6. Way(part, p, n - 1, at)
    BY <1>2, <2>5, LeadsWay
  <2>7. Way(part, q, m - 1, to)
    BY <1>4, <2>1, <2>5, LeadsWay
  <2>8. n - 1 \in Nat /\ m - 1 \in Nat /\ n - 1 \in 0 .. n - 1 /\ m - 1 \in 0 .. m - 1
    BY <1>2, <2>1
  <2>9. at[n - 1] = to[m - 1]
    BY <2>4, <2>5, <2>8
  <2>10. n - 1 = m - 1 /\ Agree(p, q, 1, n - 1)
    BY <2>6, <2>7, <2>8, <2>9, WaysDiffer
  <2>11. n = m /\ \A i \in 1 .. n : i \in 1 .. n - 1 \/ i = n
    BY <2>8, <2>10
  <2>12. \A i \in 1 .. n : p[i] = q[i]
    BY <2>2, <2>3, <2>4, <2>10, <2>11 DEF Agree
  <2>13. p \in Seq(Names) /\ q \in Seq(Names)
    BY PathIs
  <2> QED
    BY <1>2, <2>1, <2>11, <2>12, <2>13, SeqEqual
<1> QED
  BY <1>3, <1>4

\* What stands is as CompletedFilesIntact says.
LEMMA IntactShows ==
    ASSUME DiskTypes, completed \in SUBSET (Paths \X Nodes), Intact
    PROVE  CompletedFilesIntact
<1>1. PICK gone : gone = stopped \cup call.on
  OBVIOUS
<1>2. PICK part, owners, chain, dirs :
          /\ part = Kept(table, gone)
          /\ Keeps(marked, header, part, owners, chain, dirs, completed)
  BY <1>1 DEF Intact, Stands
<1>3. /\ Own(marked, header, owners, chain) /\ Linked(part, owners, dirs)
      /\ Lists(part, header, completed) /\ owners \in SUBSET Sectors
  BY <1>2 DEF Keeps, Own
<1>4. \A s \in Sectors : part[s] \subseteq table[s]
  BY <1>2 DEF Kept
<1>5. ASSUME NEW p \in Paths
      PROVE  p \in Settled <=> /\ LeadsOn(part, p, Len(p))
                               /\ \A k \in 0 .. Len(p) - 1 : Place(p, k) \in dirs
  <2>1. p \in Settled <=> Exists(p) /\ Avoids(p, gone)
    BY <1>1 DEF Settled, Present
  <2> QED
    BY <1>2, <1>3, <2>1, AvoidsIs
<1>6. ASSUME NEW p \in Paths, NEW node
      PROVE  <<p, node>> \in completed <=> p \in Settled /\ node = NodeAt(p)
  <2>1. ASSUME <<p, node>> \in completed PROVE p \in Settled /\ node = NodeAt(p)
    <3>1. Found(part, header, p, node)
      BY <1>3, <2>1 DEF Lists
    <3>2. LeadsOn(part, p, Len(p)) /\ node = NodeAt(p)
      BY <1>3, <1>4, <3>1, FoundLeads
    <3>3. Exists(p) /\ Avoids(p, gone)
      <4>1. \A i \in 1 .. Len(p) : Place(p, i - 1) \in Sectors =>
                \E e \in part[Place(p, i - 1)] : e.name = p[i] /\ (i < Len(p) => e.isDir)
        BY <3>2 DEF LeadsOn
      <4>2. \A k \in 0 .. Len(p) - 1 : Place(p, k) \in dirs
        BY <1>3, <1>4, <4>1, PathLeads
      <4> QED
        BY <1>2, <1>3, <3>2, <4>2, AvoidsIs
    <3> QED
      BY <1>1, <3>2, <3>3 DEF Settled, Present
  <2>2. ASSUME p \in Settled PROVE <<p, NodeAt(p)>> \in completed
    <3>1. Found(part, header, p, NodeAt(p))
      BY <1>3, <1>5, <2>2, LeadsFound
    <3> QED
      BY <1>3, <3>1 DEF Lists
  <2> QED
    BY <2>1, <2>2
<1>7. completed = {<<p, NodeAt(p)>> : p \in Settled}
  <2>1. Settled \in SUBSET Paths
    BY DEF Settled, Present
  <2>2. \A f \in completed : \E p \in Paths : \E node : f = <<p, node>>
    OBVIOUS
  <2>3. \A f \in completed : f \in {<<p, NodeAt(p)>> : p \in Settled}
    BY <1>6, <2>2
  <2>4. \A p \in Settled : <<p, NodeAt(p)>> \in completed
    BY <1>6, <2>1
  <2> QED
    BY <2>3, <2>4
<1>8. \A p \in Settled : GetDirSector(p) \in owners
  BY <1>3, <1>5, LeadsToOwner DEF Settled, Present
<1>9. \A p, q \in Settled : GetDirSector(p) = GetDirSector(q) => p = q
  BY <1>3, <1>5, LeadsToOwner DEF Settled, Present
<1>10. Owners(Settled) \subseteq owners
  BY <1>3, <1>8 DEF Owners, Linked
<1>11. \A s \in Owners(Settled) :
          /\ ChainSectors(s) = Owned(s, chain[s]) /\ ChainSectors(s) \subseteq marked
          /\ Cardinality(ChainSectors(s)) = NumOwned(s)
  BY <1>3, <1>10, OwnedNow
<1>12. \A s, t \in Owners(Settled) : s # t => ChainSectors(s) \cap ChainSectors(t) = {}
  BY <1>3, <1>10, <1>11 DEF Own
<1>13. Separate(Settled)
  BY <1>9, <1>11, <1>12 DEF Separate
<1> QED
  BY <1>7, <1>13 DEF CompletedFilesIntact

\* A write that spares it leaves all that is kept.
LEMMA WriteSpares ==
    ASSUME Types, WriteNext, NEW gone, NEW owners, NEW chain, NEW dirs, NEW files,
           Keeps(marked, header, Kept(table, gone), owners, chain, dirs, files),
           Spares(writes[1], gone, Kept(table, gone), owners, chain, dirs)
    PROVE  /\ Keeps(marked', header', Kept(table', gone), owners, chain, dirs, files)
           /\ \A d \in dirs : Kept(table', gone)[d] = Kept(table, gone)[d]
<1>1. PICK w \in Writes : w = writes[1] /\ w = Head(writes)
  BY HeadTailProperties DEF WriteNext, Types, CallTypes
<1>2. /\ marked' = IF w.to = "map" THEN w.value ELSE marked
      /\ header' = IF w.to = "header" THEN [header EXCEPT ![w.sector] = w.value] ELSE header
      /\ table' = IF w.to = "table" THEN [table EXCEPT ![w.sector] = w.value] ELSE table
  BY <1>1 DEF WriteNext
<1>3. Types'
  BY WriteNextTypes
<1>4. /\ marked' \in SUBSET Sectors
      /\ header \in [Sectors -> FileHeaders] /\ table \in [Sectors -> Tables]
  BY <1>3 DEF Types, DiskTypes
<1>5. Own(marked, header, owners, chain) /\ Linked(Kept(table, gone), owners, dirs)
  BY DEF Keeps
<1>6. dirs \subseteq Sectors /\ \A o \in owners : Owned(o, chain[o]) \subseteq marked
  BY <1>5 DEF Own, Holds, Linked
<1>7. \A o \in owners : Owned(o, chain[o]) \subseteq Sectors
  BY <1>5, <1>6 DEF Own
<1>8. Spares(w, gone, Kept(table, gone), owners, chain, dirs)
  BY <1>1
<1>9. ASSUME NEW o \in owners
      PROVE  Owned(o, chain[o]) \subseteq marked' /\ \A t \in Owned(o, chain[o]) : header'[t] = header[t]
  <2>1. Owned(o, chain[o]) \subseteq marked'
    BY <1>2, <1>6, <1>8 DEF Spares
  <2>2. ASSUME NEW t \in Owned(o, chain[o]) PROVE header'[t] = header[t]
    <3>1. w.to = "header" => w.sector # t
      BY <1>8, <2>2 DEF Spares
    <3> QED
      BY <1>2, <1>4, <1>7, <3>1
  <2> QED
    BY <2>1, <2>2
<1>10. ASSUME NEW d \in dirs PROVE Kept(table', gone)[d] = Kept(table, gone)[d]
  <2>1. d \in Sectors
    BY <1>6
  <2>2. /\ Kept(table', gone)[d] = {e \in table'[d] : <<d, e.name>> \notin gone}
        /\ Kept(table, gone)[d] = {e \in table[d] : <<d, e.name>> \notin gone}
    BY <2>1 DEF Kept
  <2>3. CASE w.to = "table" /\ w.sector = d
    <3>1. table'[d] = w.value
      BY <1>2, <1>4, <2>1, <2>3
    <3>2. {e \in w.value : <<d, e.name>> \notin gone} = Kept(table, gone)[d]
      BY <1>8, <2>3 DEF Spares
    <3> QED
      BY <2>2, <3>1, <3>2
  <2>4. CASE ~ (w.to = "table" /\ w.sector = d)
    <3>1. table'[d] = table[d]
      BY <1>2, <1>4, <2>1, <2>4
    <3> QED
      BY <2>2, <3>1
  <2> QED
    BY <2>3, <2>4
<1>11. PICK m \in SUBSET Sectors : m = marked'
  BY <1>4
<1>12. PICK h, k : h = header' /\ k = Kept(table', gone)
  OBVIOUS
<1>13. \A o \in owners : /\ Owned(o, chain[o]) \subseteq m
                         /\ \A t \in Owned(o, chain[o]) : h[t] = header[t]
  BY <1>9, <1>11, <1>12
<1>14. \A d \in dirs : k[d] = Kept(table, gone)[d]
  BY <1>10, <1>12
<1>15. Keeps(m, h, k, owners, chain, dirs, files)
  BY <1>13, <1>14, KeepsStill
<1> QED
  BY <1>10, <1>11, <1>12, <1>15

\* After the last write the disk is where the writes led, and all of the call is there.
LEMMA LastWriteIntact ==
    ASSUME Types, Intact, WriteNext, writes' = << >> PROVE Intact'
<1>1. /\ writes # << >> /\ writes \in Seq(Writes) /\ writes' = Tail(writes)
      /\ stopped' = stopped
      /\ Len(writes) = 1 => completed' = completed \cup call.makes /\ call' = NoCall
  BY DEF WriteNext, Types, CallTypes
<1>2. Len(writes) = 1
  <2>1. Len(Tail(writes)) = Len(writes) - 1 /\ Len(writes) \in Nat
    BY <1>1, MakingTail
  <2>2. Tail(writes) = << >>
    BY <1>1
  <2>3. Len(Tail(writes)) = 0
    BY <2>2
  <2> QED
    BY <2>1, <2>3
<1>3. stopped' = stopped /\ completed' = completed \cup call.makes /\ call' = NoCall
  BY <1>1, <1>2
<1>4. PICK map, headers, tables, owners, chain, dirs :
          /\ Leads(writes, marked, header, table, map, headers, tables)
          /\ Keeps(map, headers, Kept(tables, stopped), owners, chain, dirs, completed \cup call.makes)
  BY <1>1 DEF Intact, Lands
<1>5. Leads(<< >>, marked', header', table', map, headers, tables)
  BY <1>4, WriteLeads
<1>6. marked' = map /\ \A s \in Sectors : header'[s] = headers[s] /\ table'[s] = tables[s]
  BY <1>5, WritesLed
<1>7. marked' \in SUBSET Sectors
  BY WriteNextTypes DEF Types, DiskTypes
<1>8. Own(map, headers, owners, chain) /\ Linked(Kept(tables, stopped), owners, dirs)
  BY <1>4 DEF Keeps
<1>9. dirs \subseteq Sectors /\ \A o \in owners : Owned(o, chain[o]) \subseteq map
  BY <1>8 DEF Own, Holds, Linked
<1>10. PICK gone : gone = stopped' \cup call'.on
  OBVIOUS
<1>11. gone = stopped
  BY <1>3, <1>10 DEF NoCall
<1>12. \A d \in dirs : Kept(table', gone)[d] = Kept(tables, stopped)[d]
  BY <1>6, <1>9, <1>11 DEF Kept
<1>13. PICK m \in SUBSET Sectors : m = marked'
  BY <1>7
<1>14. PICK h, k, files : h = header' /\ k = Kept(table', gone) /\ files = completed \cup call.makes
  OBVIOUS
<1>15. \A o \in owners : /\ Owned(o, chain[o]) \subseteq m
                         /\ \A t \in Owned(o, chain[o]) : h[t] = headers[t]
  BY <1>6, <1>7, <1>9, <1>13, <1>14
<1>16. \A d \in dirs : k[d] = Kept(tables, stopped)[d]
  BY <1>12, <1>14
<1>17. Keeps(map, headers, Kept(tables, stopped), owners, chain, dirs, files)
  BY <1>4, <1>14
<1>18. Keeps(m, h, k, owners, chain, dirs, files)
  BY <1>15, <1>16, <1>17, KeepsStill
<1>19. Stands(writes', marked', header', table', stopped' \cup call'.on, completed')
  <2>1. 1 .. Len(writes') = {}
    OBVIOUS
  <2> QED
    BY <1>3, <1>10, <1>13, <1>18, <1>14, <2>1 DEF Stands
<1> QED
  BY <1>3, <1>19 DEF Intact

\* After any other, all is as before, and the writes lead on.
LEMMA EarlyWriteIntact ==
    ASSUME Types, Intact, WriteNext, writes' # << >> PROVE Intact'
<1>1. /\ writes # << >> /\ writes \in Seq(Writes) /\ writes' = Tail(writes)
      /\ stopped' = stopped
      /\ Len(writes) # 1 => completed' = completed /\ call' = call
  BY DEF WriteNext, Types, CallTypes
<1>2. /\ Len(writes') = Len(writes) - 1 /\ Len(writes) \in Nat /\ Len(writes) >= 1
      /\ \A i \in 1 .. Len(writes) - 1 : writes'[i] = writes[i + 1]
  BY <1>1, MakingTail
<1>3. writes' \in Seq(Writes)
  BY WriteNextTypes DEF Types, CallTypes
<1>4. Len(writes) # 1
  <2>1. Len(writes') # 0
    BY <1>3
  <2> QED
    BY <1>2, <2>1
<1>5. stopped' = stopped /\ completed' = completed /\ call' = call
  BY <1>1, <1>4
<1>6. PICK gone : gone = stopped \cup call.on
  OBVIOUS
<1>7. PICK owners, chain, dirs :
          /\ Keeps(marked, header, Kept(table, gone), owners, chain, dirs, completed)
          /\ \A i \in 1 .. Len(writes) : Spares(writes[i], gone, Kept(table, gone), owners, chain, dirs)
  BY <1>6 DEF Intact, Stands
<1>8. Spares(writes[1], gone, Kept(table, gone), owners, chain, dirs)
  BY <1>2, <1>7
<1>9. /\ Keeps(marked', header', Kept(table', gone), owners, chain, dirs, completed)
      /\ \A d \in dirs : Kept(table', gone)[d] = Kept(table, gone)[d]
  BY <1>7, <1>8, WriteSpares
<1>10. ASSUME NEW i \in 1 .. Len(writes')
       PROVE  Spares(writes'[i], gone, Kept(table', gone), owners, chain, dirs)
  <2>1. i + 1 \in 1 .. Len(writes) /\ writes'[i] = writes[i + 1]
    BY <1>2
  <2>2. Spares(writes'[i], gone, Kept(table, gone), owners, chain, dirs)
    BY <1>7, <2>1
  <2> QED
    BY <1>9, <2>2 DEF Spares
<1>11. Stands(writes', marked', header', table', gone, completed)
  BY <1>9, <1>10 DEF Stands
<1>12. PICK map, headers, tables, owners2, chain2, dirs2 :
          /\ Leads(writes, marked, header, table, map, headers, tables)
          /\ Keeps(map, headers, Kept(tables, stopped), owners2, chain2, dirs2, completed \cup call.makes)
  BY <1>1 DEF Intact, Lands
<1>13. Leads(writes', marked', header', table', map, headers, tables)
  BY <1>12, WriteLeads
<1>14. Lands(writes', marked', header', table', stopped, completed \cup call.makes)
  BY <1>12, <1>13 DEF Lands
<1> QED
  BY <1>5, <1>6, <1>11, <1>14 DEF Intact

\* A stop takes the entry that the call was on away, if it was written, and of the
\* free map what is between the old one and the new.
LEMMA CrashIntact == ASSUME Types, Intact, Crash PROVE Intact'
<1>1. /\ writes # << >> /\ writes \in Seq(Writes) /\ writes' = << >> /\ call' = NoCall
      /\ header' = header /\ table' = table /\ completed' = completed
      /\ stopped' = stopped \cup {e \in call.on : Find(e[1], e[2]) # {}}
  BY DEF Crash, Types, CallTypes
<1>2. PICK w : w = writes[1] /\ w = Head(writes) /\ 1 \in 1 .. Len(writes)
  BY <1>1
<1>3. PICK gone, gone2 : gone = stopped \cup call.on /\ gone2 = stopped' \cup call'.on
  OBVIOUS
<1>4. PICK owners, chain, dirs :
          /\ Keeps(marked, header, Kept(table, gone), owners, chain, dirs, completed)
          /\ \A i \in 1 .. Len(writes) : Spares(writes[i], gone, Kept(table, gone), owners, chain, dirs)
  BY <1>3 DEF Intact, Stands
<1>5. Spares(w, gone, Kept(table, gone), owners, chain, dirs)
  BY <1>2, <1>4
<1>6. Own(marked, header, owners, chain) /\ Linked(Kept(table, gone), owners, dirs)
  BY <1>4 DEF Keeps
<1>7. /\ dirs \subseteq Sectors /\ marked \subseteq Sectors
      /\ \A o \in owners : Owned(o, chain[o]) \subseteq marked
  BY <1>6 DEF Own, Holds, Linked
<1>8. PICK m \in SUBSET Sectors : m = marked'
  BY CrashTypes DEF Types, DiskTypes
<1>9. ASSUME NEW o \in owners PROVE Owned(o, chain[o]) \subseteq m
  <2>1. CASE w.to = "map"
    <3>1. PICK k : marked' = {s \in Sectors : IF s < k THEN s \in w.value ELSE s \in marked}
      BY <1>2, <2>1 DEF Crash
    <3>2. Owned(o, chain[o]) \subseteq w.value /\ Owned(o, chain[o]) \subseteq marked
      BY <1>5, <1>7, <2>1 DEF Spares
    <3> QED
      BY <1>7, <1>8, <3>1, <3>2
  <2>2. CASE w.to # "map"
    <3>1. marked' = marked
      BY <1>2, <2>2 DEF Crash
    <3> QED
      BY <1>7, <1>8, <3>1
  <2> QED
    BY <2>1, <2>2
<1>10. \A d \in dirs : Kept(table, gone2)[d] = Kept(table, gone)[d]
  <2>1. SUFFICES ASSUME NEW d \in dirs, NEW e \in table[d]
                 PROVE  <<d, e.name>> \in gone2 <=> <<d, e.name>> \in gone
    BY <1>7 DEF Kept
  <2>2. e \in Find(d, e.name)
    BY DEF Find
  <2>3. <<d, e.name>> \in call.on =>
            <<d, e.name>> \in {x \in call.on : Find(x[1], x[2]) # {}}
    BY <2>2
  <2> QED
    BY <1>1, <1>3, <2>3 DEF NoCall
<1>11. Keeps(m, header, Kept(table, gone2), owners, chain, dirs, completed)
  <2>1. PICK k : k = Kept(table, gone2)
    OBVIOUS
  <2>2. \A d \in dirs : k[d] = Kept(table, gone)[d]
    BY <1>10, <2>1
  <2>3. \A o \in owners : /\ Owned(o, chain[o]) \subseteq m
                          /\ \A t \in Owned(o, chain[o]) : header[t] = header[t]
    BY <1>9
  <2>4. Keeps(m, header, k, owners, chain, dirs, completed)
    BY <1>4, <2>2, <2>3, KeepsStill
  <2> QED
    BY <2>1, <2>4
<1>12. Stands(writes', marked', header', table', gone2, completed')
  <2>1. 1 .. Len(writes') = {}
    BY <1>1
  <2> QED
    BY <1>1, <1>8, <1>11, <2>1 DEF Stands
<1> QED
  BY <1>1, <1>3, <1>12 DEF Intact

\* The way to a new path's directory avoids what the path avoids.
LEMMA WayAvoids ==
    ASSUME DiskTypes, NEW owners \in SUBSET Sectors, NEW dirs, NEW gone,
           Linked(Kept(table, gone), owners, dirs),
           NEW path \in Paths, IsDirectory(Parent(path)), Avoids(path, gone)
    PROVE  /\ \E to : /\ Way(Kept(table, gone), path, Len(path) - 1, to)
                      /\ to[Len(path) - 1] = GetDirSector(Parent(path))
           /\ GetDirSector(Parent(path)) \in dirs
           /\ <<GetDirSector(Parent(path)), Last(path)>> \notin gone
<1>1. PICK n \in Nat, m \in Nat : /\ n = Len(path) /\ m = n - 1 /\ n = m + 1 /\ path \in Seq(Names)
                                  /\ Last(path) = path[n] /\ m \in 0 .. Len(path)
  <2>1. PICK k \in Nat : k = Len(path) - 1 /\ Last(path) = path[k + 1] /\ path \in Seq(Names)
    BY NameBefore
  <2>2. Len(path) \in Nat /\ Len(path) = k + 1 /\ k \in 0 .. Len(path)
    BY <2>1
  <2> QED
    BY <2>1, <2>2
<1>2. PICK q \in Seq(Names) :
          /\ q = Parent(path) /\ Len(q) = m /\ \A i \in 1 .. m : q[i] = path[i]
          /\ \A k \in 0 .. m : SubSeq(q, 1, k) = SubSeq(path, 1, k)
  BY <1>1, Beginning DEF Parent
<1>3. Place(q, 0) = DirectorySector /\ Place(q, m) = GetDirSector(q)
  BY <1>2, PlaceSteps
<1>4. \A i \in 1 .. m : \E f \in Find(Place(q, i - 1), q[i]) : f.isDir
  BY <1>2, DirectorySteps
<1>5. \A i \in 1 .. n : <<Place(q, i - 1), path[i]>> \notin gone
  <2>1. ASSUME NEW i \in 1 .. n PROVE <<Place(q, i - 1), path[i]>> \notin gone
    <3>1. i - 1 \in 0 .. m /\ i \in 1 .. Len(path)
      BY <1>1
    <3>2. Place(q, i - 1) = GetDirSector(SubSeq(path, 1, i - 1))
      BY <1>2, <3>1 DEF Place
    <3> QED
      BY <3>1, <3>2 DEF Avoids
  <2> QED
    BY <2>1
<1>6. ASSUME NEW i \in 1 .. m, Place(q, i - 1) \in Sectors
      PROVE  \E f \in Kept(table, gone)[Place(q, i - 1)] :
                 f.name = path[i] /\ f.sector = Place(q, i) /\ f.isDir
  <2>1. PICK s \in Sectors : s = Place(q, i - 1)
    BY <1>6
  <2>2. PICK f \in Find(s, q[i]) : f.isDir
    BY <1>4, <2>1
  <2>3. Follow(s, q[i]) = f.sector /\ f \in table[s] /\ f.name = q[i]
    BY <2>2, OneEntry
  <2>4. i \in 1 .. Len(q) /\ i \in 1 .. n /\ q[i] = path[i]
    BY <1>1, <1>2
  <2>5. Place(q, i) = f.sector
    BY <2>1, <2>3, <2>4, PlaceSteps
  <2>6. f \in Kept(table, gone)[s]
    BY <1>5, <2>1, <2>3, <2>4 DEF Kept
  <2> QED
    BY <2>1, <2>2, <2>3, <2>4, <2>5, <2>6
<1> DEFINE T == {k \in Nat : k <= m => Place(q, k) \in dirs}
<1>7. ASSUME NEW k \in Nat, \A j \in 0 .. k - 1 : j \in T PROVE k \in T
  <2> SUFFICES ASSUME k <= m PROVE Place(q, k) \in dirs
    OBVIOUS
  <2>1. CASE k = 0
    BY <1>3, <2>1 DEF Linked
  <2>2. CASE k > 0
    <3>1. k - 1 \in 0 .. k - 1 /\ k - 1 <= m /\ k \in 1 .. m
      BY <1>1, <2>2
    <3>2. Place(q, k - 1) \in dirs /\ Place(q, k - 1) \in Sectors
      BY <1>7, <3>1 DEF Linked
    <3>3. PICK f \in Kept(table, gone)[Place(q, k - 1)] : f.sector = Place(q, k) /\ f.isDir
      BY <1>6, <3>1, <3>2
    <3> QED
      BY <3>2, <3>3 DEF Linked
  <2> QED
    BY <2>1, <2>2
<1>8. \A k \in Nat : k \in T
  <2> HIDE DEF T
  <2> QED
    BY <1>7, AllNumbers
<1>9. \A k \in 0 .. m : Place(q, k) \in dirs /\ Place(q, k) \in Sectors
  BY <1>8 DEF Linked
<1>10. PICK to : to = [i \in 0 .. m |-> Place(q, i)]
  OBVIOUS
<1>11. Way(Kept(table, gone), path, m, to)
  <2>1. to[0] = DirectorySector
    BY <1>1, <1>3, <1>10
  <2>2. ASSUME NEW i \in 1 .. m
        PROVE  \E f \in Kept(table, gone)[to[i - 1]] : f.name = path[i] /\ f.sector = to[i] /\ f.isDir
    <3>1. i - 1 \in 0 .. m /\ i \in 0 .. m
      BY <1>1
    <3>2. to[i - 1] = Place(q, i - 1) /\ to[i] = Place(q, i) /\ Place(q, i - 1) \in Sectors
      BY <1>9, <1>10, <3>1
    <3> QED
      BY <1>6, <3>2
  <2> QED
    BY <2>1, <2>2 DEF Way
<1>12. m \in 0 .. m /\ n \in 1 .. n
  BY <1>1
<1>13. to[m] = GetDirSector(q) /\ GetDirSector(q) \in dirs
  BY <1>3, <1>9, <1>10, <1>12
<1>14. <<GetDirSector(q), path[n]>> \notin gone
  BY <1>1, <1>3, <1>5, <1>12
<1> QED
  BY <1>1, <1>2, <1>11, <1>13, <1>14

\* The writes of a call that adds an entry spare all that is kept without it.
LEMMA EntrySpares ==
    ASSUME NEW owners, NEW chain, NEW dirs, NEW gone, NEW part, NEW dir \in dirs, NEW e, NEW c, NEW n \in Nat,
           Own(marked, header, owners, chain), Linked(part, owners, dirs),
           part[dir] = {f \in table[dir] : <<dir, f.name>> \notin gone}, <<dir, e.name>> \in gone,
           NEW ws, EntryToWrite(ws, marked, header, table, marked, dir, e, c, n),
           NEW map, NEW headers, NEW tables, Leads(ws, marked, header, table, map, headers, tables),
           marked \subseteq map
    PROVE  \A i \in 1 .. Len(ws) : Spares(ws[i], gone, part, owners, chain, dirs)
<1>1. /\ Fresh(marked, e.sector, c)
      /\ Len(ws) = n + 2 + (IF e.isDir THEN 1 ELSE 0)
      /\ \A i \in 1 .. n : ws[i].to = "header" /\ ws[i].sector \in Owned(e.sector, c)
      /\ ws[n + 1] = TableWrite(dir, table[dir] \cup {e})
      /\ ws[n + 2].to = "map"
      /\ e.isDir => ws[n + 3] = TableWrite(e.sector, {})
  BY DEF EntryToWrite
<1>2. \A o \in owners : Owned(o, chain[o]) \subseteq marked
  BY DEF Own, Holds
<1>3. Owned(e.sector, c) \cap marked = {}
  BY <1>1 DEF Fresh, Owned
<1>4. e.sector \notin dirs
  <2>1. dirs \subseteq marked
    BY DEF Own, Linked
  <2> QED
    BY <1>1, <2>1 DEF Fresh
<1>5. ASSUME NEW i \in 1 .. n PROVE Spares(ws[i], gone, part, owners, chain, dirs)
  BY <1>1, <1>2, <1>3 DEF Spares
<1>6. Spares(ws[n + 1], gone, part, owners, chain, dirs)
  <2>1. /\ ws[n + 1].to = "table" /\ ws[n + 1].sector = dir
        /\ ws[n + 1].value = table[dir] \cup {e}
    BY <1>1 DEF TableWrite
  <2>2. {f \in table[dir] \cup {e} : <<dir, f.name>> \notin gone} = part[dir]
    OBVIOUS
  <2> QED
    BY <2>1, <2>2 DEF Spares
<1>7. Spares(ws[n + 2], gone, part, owners, chain, dirs)
  <2>1. n + 2 \in 1 .. Len(ws)
    BY <1>1
  <2>2. n + 2 \in MapWrites(ws)
    BY <1>1, <2>1 DEF MapWrites
  <2>3. ws[n + 2].value = map
    BY <2>2 DEF Leads, Settles
  <2> QED
    BY <1>1, <1>2, <2>3 DEF Spares
<1>8. ASSUME e.isDir PROVE Spares(ws[n + 3], gone, part, owners, chain, dirs)
  <2>1. ws[n + 3].to = "table" /\ ws[n + 3].sector = e.sector
    BY <1>1, <1>8 DEF TableWrite
  <2> QED
    BY <1>4, <2>1 DEF Spares
<1>9. ASSUME NEW i \in 1 .. Len(ws)
      PROVE  i \in 1 .. n \/ i = n + 1 \/ i = n + 2 \/ (e.isDir /\ i = n + 3)
  <2>1. CASE e.isDir
    BY <1>1, <2>1
  <2>2. CASE ~ e.isDir
    BY <1>1, <2>2
  <2> QED
    BY <2>1, <2>2
<1> QED
  BY <1>5, <1>6, <1>7, <1>8, <1>9

\* Directories with a new entry, and a new directory's own table.
Entered(tables, dir, e) ==
    IF e.isDir THEN TablesWith(TablesWith(tables, dir, tables[dir] \cup {e}), e.sector, {})
               ELSE TablesWith(tables, dir, tables[dir] \cup {e})

\* They are so too without what was left out of them before.
LEMMA EnteredKept ==
    ASSUME NEW tables, NEW gone, NEW dir \in Sectors, NEW e, <<dir, e.name>> \notin gone
    PROVE  Kept(Entered(tables, dir, e), gone) = Entered(Kept(tables, gone), dir, e)
<1>1. \A s \in Sectors : Kept(tables, gone)[s] = {f \in tables[s] : <<s, f.name>> \notin gone}
  BY DEF Kept
<1>2. PICK t, k : /\ t = TablesWith(tables, dir, tables[dir] \cup {e})
                  /\ k = TablesWith(Kept(tables, gone), dir, Kept(tables, gone)[dir] \cup {e})
  OBVIOUS
<1>3. ASSUME NEW s \in Sectors PROVE {f \in t[s] : <<s, f.name>> \notin gone} = k[s]
  <2>1. CASE s = dir
    <3>1. t[s] = tables[dir] \cup {e} /\ k[s] = Kept(tables, gone)[dir] \cup {e}
      BY <1>2, <2>1 DEF TablesWith
    <3> QED
      BY <1>1, <2>1, <3>1
  <2>2. CASE s # dir
    <3>1. t[s] = tables[s] /\ k[s] = Kept(tables, gone)[s]
      BY <1>2, <2>2 DEF TablesWith
    <3> QED
      BY <1>1, <3>1
  <2> QED
    BY <2>1, <2>2
<1>4. CASE e.isDir
  <2>1. /\ Entered(tables, dir, e) = TablesWith(t, e.sector, {})
        /\ Entered(Kept(tables, gone), dir, e) = TablesWith(k, e.sector, {})
    BY <1>2, <1>4 DEF Entered
  <2>2. ASSUME NEW s \in Sectors
        PROVE  {f \in TablesWith(t, e.sector, {})[s] : <<s, f.name>> \notin gone}
               = IF s = e.sector THEN {} ELSE k[s]
    <3>1. TablesWith(t, e.sector, {})[s] = IF s = e.sector THEN {} ELSE t[s]
      BY DEF TablesWith
    <3> QED
      BY <1>3, <3>1
  <2> QED
    BY <2>1, <2>2 DEF Kept, TablesWith
<1>5. CASE ~ e.isDir
  <2>1. Entered(tables, dir, e) = t /\ Entered(Kept(tables, gone), dir, e) = k
    BY <1>2, <1>5 DEF Entered
  <2>2. Kept(t, gone) = [s \in Sectors |-> k[s]]
    BY <1>3 DEF Kept
  <2>3. k = [s \in Sectors |-> k[s]]
    BY <1>2 DEF TablesWith
  <2> QED
    BY <2>1, <2>2, <2>3
<1> QED
  BY <1>4, <1>5

\* The last entry of a path is new, as is the chain it leads to, and the way to its
\* directory is there.
IsAdded(map, headers, part, dirs, path, to, dir, e, c, headers2) ==
    /\ path \in Paths /\ e.name = Last(path)
    /\ Way(part, path, Len(path) - 1, to) /\ to[Len(path) - 1] = dir /\ dir \in dirs
    /\ Fresh(map, e.sector, c) /\ Stored(headers2, e.sector, c)
    /\ \A t \in map : headers2[t] = headers[t]
\* Some owners keep it.
KeptBySome(map, headers, part, files) ==
    \E owners, chain, dirs : Keeps(map, headers, part, owners, chain, dirs, files)

\* A disk with a new entry keeps what it had, and what the entry is for.
LEMMA AddingKeeps ==
    ASSUME NEW map, NEW owners, NEW chain, NEW dirs, NEW part, NEW headers, NEW files,
           Keeps(map, headers, part, owners, chain, dirs, files),
           NEW path, NEW to, NEW dir, NEW e, NEW c, NEW headers2,
           IsAdded(map, headers, part, dirs, path, to, dir, e, c, headers2)
    PROVE  KeptBySome(map \cup Owned(e.sector, c), headers2, Entered(part, dir, e),
                      files \cup {<<path, [isDir |-> e.isDir, size |-> FileLength(c)]>>})
<1>1. /\ path \in Paths /\ e.name = Last(path)
      /\ Way(part, path, Len(path) - 1, to) /\ to[Len(path) - 1] = dir /\ dir \in dirs
      /\ Fresh(map, e.sector, c) /\ Stored(headers2, e.sector, c)
      /\ \A t \in map : headers2[t] = headers[t]
  BY DEF IsAdded
<1>2. Own(map, headers, owners, chain) /\ Linked(part, owners, dirs) /\ Lists(part, headers, files)
  BY DEF Keeps
<1>3. /\ owners \in SUBSET Sectors /\ owners \subseteq map /\ dirs \subseteq owners
      /\ \A o \in owners : Owned(o, chain[o]) \subseteq map
  BY <1>2 DEF Own, Holds, Linked
<1>4. e.sector \in Sectors \ owners /\ e.sector \notin map
  BY <1>1, <1>3 DEF Fresh
<1>5. PICK map2 : map2 = map \cup Owned(e.sector, c)
  OBVIOUS
<1>6. PICK chain2 : chain2 = [o \in owners \cup {e.sector} |-> IF o = e.sector THEN c ELSE chain[o]]
  OBVIOUS
<1>7. Own(map2, headers2, owners \cup {e.sector}, chain2)
  <2>1. chain2[e.sector] = c /\ \A o \in owners : chain2[o] = chain[o]
    BY <1>4, <1>6
  <2> QED
    BY <1>1, <1>2, <1>5, <2>1, NewOwner
<1>8. Own(map2, headers2, owners, chain)
  <2>1. map2 \in SUBSET Sectors
    BY <1>7 DEF Own
  <2>2. \A o \in owners : /\ Owned(o, chain[o]) \subseteq map2
                          /\ \A t \in Owned(o, chain[o]) : headers2[t] = headers[t]
    BY <1>1, <1>3, <1>5
  <2>3. owners \in SUBSET owners
    OBVIOUS
  <2> QED
    BY <1>2, <2>1, <2>2, <2>3, OwnStill
<1>9. PICK part2 : part2 = Entered(part, dir, e)
  OBVIOUS
<1>10. \E dirs2 : Linked(part2, owners \cup {e.sector}, dirs2)
  <2>1. PICK entries : entries = part[dir] \cup {e}
    OBVIOUS
  <2>2. CASE e.isDir
    <3>1. Linked(TablesWith(TablesWith(part, dir, entries), e.sector, {}),
                 owners \cup {e.sector}, dirs \cup {e.sector})
      BY <1>1, <1>2, <1>3, <1>4, <2>1, LinkDirectory
    <3> QED
      BY <1>9, <2>1, <2>2, <3>1 DEF Entered
  <2>3. CASE ~ e.isDir
    <3>1. Linked(TablesWith(part, dir, entries), owners \cup {e.sector}, dirs)
      BY <1>1, <1>2, <1>3, <1>4, <2>1, <2>3, LinkFile
    <3> QED
      BY <1>9, <2>1, <2>3, <3>1 DEF Entered
  <2> QED
    BY <2>2, <2>3
<1>11. With(part, part2, dirs, dir, e)
  <2>1. ASSUME NEW d \in dirs PROVE part2[d] = IF d = dir THEN part[d] \cup {e} ELSE part[d]
    <3>1. d \in Sectors /\ d # e.sector
      BY <1>3, <1>4
    <3>2. TablesWith(part, dir, part[dir] \cup {e})[d] = IF d = dir THEN part[d] \cup {e} ELSE part[d]
      BY <3>1 DEF TablesWith
    <3>3. CASE e.isDir
      BY <1>9, <3>1, <3>2, <3>3 DEF Entered, TablesWith
    <3>4. CASE ~ e.isDir
      BY <1>9, <3>2, <3>4 DEF Entered
    <3> QED
      BY <3>3, <3>4
  <2>2. e.isDir => part2[e.sector] = {}
    BY <1>4, <1>9 DEF Entered, TablesWith
  <2> QED
    BY <2>1, <2>2 DEF With
<1>12. PICK node : node = [isDir |-> e.isDir, size |-> FileLength(c)]
  OBVIOUS
<1>13. IsChain(c) /\ e.sector \notin owners /\ With(part, part2, dirs, to[Len(path) - 1], e)
  BY <1>1, <1>4, <1>11 DEF Fresh
<1>14. ASSUME NEW p \in Paths, NEW other
       PROVE  Found(part2, headers2, p, other) <=> <<p, other>> \in files \cup {<<path, node>>}
  <2>1. Found(part2, headers2, p, other) <=>
            \/ Found(part, headers, p, other)
            \/ p = path /\ other = [isDir |-> e.isDir, size |-> FileLength(c)]
    BY <1>1, <1>2, <1>8, <1>13, FoundAdd
  <2>2. Found(part, headers, p, other) <=> <<p, other>> \in files
    BY <1>2 DEF Lists
  <2> QED
    BY <1>12, <2>1, <2>2
<1>15. Lists(part2, headers2, files \cup {<<path, node>>})
  BY <1>14 DEF Lists
<1> QED
  BY <1>5, <1>7, <1>9, <1>10, <1>12, <1>15 DEF Keeps, KeptBySome

\* A call that adds an entry leaves what it had, and lands with what it adds.
LEMMA AddingIntact ==
    ASSUME DiskTypes, NEW owners, NEW chain, NEW dirs,
           Keeps(marked, header, Kept(table, stopped), owners, chain, dirs, completed),
           NEW path \in Paths, IsDirectory(Parent(path)), Untouched(path),
           NEW size \in Nat, NEW isDir \in BOOLEAN, NEW new, Made(new, path, size, isDir),
           NEW e, e = [name |-> Last(path), sector |-> new.sector, isDir |-> isDir],
           NEW ws, NEW n \in Nat, EntryToWrite(ws, marked, header, table, marked, new.dir, e, new.chain, n),
           NEW headers, headers = Put(header, new.sector, new.chain),
           Leads(ws, marked, header, table, new.map, headers, Entered(table, new.dir, e)),
           NEW made, made = Creating(new.dir, path, isDir, size)
    PROVE  /\ Stands(ws, marked, header, table, stopped \cup made.on, completed)
           /\ Lands(ws, marked, header, table, stopped, completed \cup made.makes)
<1>1. PICK part : part = Kept(table, stopped)
  OBVIOUS
<1>2. /\ Own(marked, header, owners, chain) /\ Linked(part, owners, dirs)
      /\ owners \in SUBSET Sectors /\ dirs \subseteq Sectors
  BY <1>1 DEF Keeps, Own, Linked
<1>3. PICK dir : /\ dir = new.dir /\ dir = GetDirSector(Parent(path))
                 /\ Find(dir, Last(path)) = {}
  BY DEF Made
<1>4. /\ dir \in dirs /\ <<dir, Last(path)>> \notin stopped
      /\ \E to : Way(part, path, Len(path) - 1, to) /\ to[Len(path) - 1] = dir
  <2>1. Avoids(path, stopped) /\ Linked(Kept(table, stopped), owners, dirs)
    BY <1>1, <1>2 DEF Untouched
  <2>2. /\ \E to : /\ Way(Kept(table, stopped), path, Len(path) - 1, to)
                   /\ to[Len(path) - 1] = GetDirSector(Parent(path))
        /\ GetDirSector(Parent(path)) \in dirs
        /\ <<GetDirSector(Parent(path)), Last(path)>> \notin stopped
    BY <1>2, <2>1, WayAvoids
  <2> QED
    BY <1>1, <1>3, <2>2
<1>5. /\ e.name = Last(path) /\ e.sector = new.sector /\ e.isDir = isDir
      /\ Fresh(marked, e.sector, new.chain) /\ new.map = marked \cup Owned(e.sector, new.chain)
      /\ FileLength(new.chain) = size
  BY DEF Made
<1>6. made = [on |-> {<<dir, Last(path)>>}, makes |-> {<<path, [isDir |-> isDir, size |-> size]>>}]
  BY <1>3 DEF Creating
<1>7. PICK gone : gone = stopped \cup {<<dir, Last(path)>>}
  OBVIOUS
<1>8. Kept(table, gone) = part
  <2>1. ASSUME NEW s \in Sectors, NEW f \in table[s]
        PROVE  <<s, f.name>> \in gone <=> <<s, f.name>> \in stopped
    <3>1. <<s, f.name>> # <<dir, Last(path)>>
      BY <1>3 DEF Find
    <3> QED
      BY <1>7, <3>1
  <2> QED
    BY <1>1, <2>1 DEF Kept
<1>9. Stands(ws, marked, header, table, gone, completed)
  <2>1. part[dir] = {f \in table[dir] : <<dir, f.name>> \notin gone} /\ <<dir, e.name>> \in gone
    BY <1>2, <1>4, <1>5, <1>7, <1>8 DEF Kept
  <2>2. EntryToWrite(ws, marked, header, table, marked, dir, e, new.chain, n) /\ marked \subseteq new.map
    BY <1>3, <1>5
  <2>3. \A i \in 1 .. Len(ws) : Spares(ws[i], gone, part, owners, chain, dirs)
    BY <1>2, <1>4, <2>1, <2>2, EntrySpares
  <2>4. Keeps(marked, header, Kept(table, gone), owners, chain, dirs, completed)
    BY <1>1, <1>8
  <2> QED
    BY <1>8, <2>3, <2>4 DEF Stands
<1>10. PICK map, tables : map = new.map /\ tables = Entered(table, dir, e)
  OBVIOUS
<1>11. Kept(tables, stopped) = Entered(part, dir, e)
  <2>1. dir \in Sectors /\ <<dir, e.name>> \notin stopped
    BY <1>2, <1>4, <1>5
  <2> QED
    BY <1>1, <1>10, <2>1, EnteredKept
<1>12. PICK to : Way(part, path, Len(path) - 1, to) /\ to[Len(path) - 1] = dir
  BY <1>4
<1>13. Stored(headers, e.sector, new.chain) /\ \A t \in marked : headers[t] = header[t]
  BY <1>5, PutStores
<1>14. Keeps(marked, header, part, owners, chain, dirs, completed)
  BY <1>1
<1>15. KeptBySome(map, headers, Entered(part, dir, e),
                  completed \cup {<<path, [isDir |-> e.isDir, size |-> FileLength(new.chain)]>>})
  <2>1. PICK c : c = new.chain
    OBVIOUS
  <2>2. IsAdded(marked, header, part, dirs, path, to, dir, e, c, headers)
    BY <1>4, <1>5, <1>12, <1>13, <2>1 DEF IsAdded
  <2>3. KeptBySome(marked \cup Owned(e.sector, c), headers, Entered(part, dir, e),
                   completed \cup {<<path, [isDir |-> e.isDir, size |-> FileLength(c)]>>})
    BY <1>14, <2>2, AddingKeeps
  <2>4. map = marked \cup Owned(e.sector, c)
    BY <1>5, <1>10, <2>1
  <2> QED
    BY <2>1, <2>3, <2>4
<1>16. Lands(ws, marked, header, table, stopped, completed \cup made.makes)
  <2>1. made.makes = {<<path, [isDir |-> e.isDir, size |-> FileLength(new.chain)]>>}
    BY <1>5, <1>6
  <2>2. Leads(ws, marked, header, table, map, headers, tables)
    BY <1>3, <1>10
  <2>3. KeptBySome(map, headers, Kept(tables, stopped), completed \cup made.makes)
    BY <1>11, <1>15, <2>1
  <2> QED
    BY <2>2, <2>3 DEF Lands, KeptBySome
<1>17. stopped \cup made.on = gone
  BY <1>6, <1>7
<1> QED
  BY <1>9, <1>16, <1>17

\* Between two calls the disk keeps what completed calls have made.
LEMMA IntactNow ==
    ASSUME Intact, writes = << >>
    PROVE  KeptBySome(marked, header, Kept(table, stopped), completed)
<1>1. call = NoCall /\ Stands(writes, marked, header, table, stopped \cup call.on, completed)
  BY DEF Intact
<1>2. stopped \cup call.on = stopped
  BY <1>1 DEF NoCall
<1> QED
  BY <1>1, <1>2 DEF Stands, KeptBySome

\* A call that has its writes to do is intact when it stands and lands.
LEMMA BeginsIntact ==
    ASSUME NEW ws, ws # << >>, NEW gone, NEW on, NEW files, NEW made, UNCHANGED disk,
           writes' = ws, stopped' = gone, completed' = files, call' = [on |-> on, makes |-> made],
           Stands(ws, marked, header, table, gone \cup on, files),
           Lands(ws, marked, header, table, gone, files \cup made)
    PROVE  Intact'
<1>1. /\ Stands(writes', marked', header', table', stopped' \cup call'.on, completed')
      /\ Lands(writes', marked', header', table', stopped', completed' \cup call'.makes)
      /\ writes' # << >>
  BY DEF disk
<1> QED
  BY <1>1 DEF Intact

\* Create begins so.
LEMMA CreateIntact ==
    ASSUME Types, Intact, NEW path \in Paths, NEW size \in Sizes, Create(path, size) PROVE Intact'
<1>1. PICK new : new = NewFile(path, size, FALSE)
  OBVIOUS
<1>2. /\ writes = << >> /\ IsDirectory(Parent(path)) /\ Untouched(path) /\ new.ok
      /\ writes' = CreateWrites(new) /\ UNCHANGED disk
      /\ call' = Creating(new.dir, path, FALSE, size) /\ completed' = completed /\ stopped' = stopped
  BY <1>1 DEF Create
<1>3. DiskTypes /\ size \in Nat
  BY FileSystemAssumption DEF Types
<1>4. IsNewFile(new) /\ Made(new, path, size, FALSE)
  BY <1>1, <1>2, <1>3, NewFileIs, NewFileMade
<1>5. PICK owners, chain, dirs :
          Keeps(marked, header, Kept(table, stopped), owners, chain, dirs, completed)
  BY <1>2, IntactNow DEF KeptBySome
<1>6. PICK e : e = [name |-> Last(path), sector |-> new.sector, isDir |-> FALSE]
  OBVIOUS
<1>7. e.sector = new.sector /\ ~ e.isDir /\ new.entries = table[new.dir] \cup {e}
  BY <1>4, <1>6 DEF Made
<1>8. Fresh(marked, new.sector, new.chain)
  BY <1>4 DEF Made
<1>9. PICK ws : ws = CreateWrites(new) /\ ws # << >>
  BY <1>4, CreateWritesIs
<1>10. PICK n \in Nat : n = Len(new.chain)
  <2>1. PICK c : c = new.chain /\ IsChain(c)
    BY <1>4 DEF IsNewFile
  <2> QED
    BY <2>1, CountAtLeast
<1>11. EntryToWrite(ws, marked, header, table, marked, new.dir, e, new.chain, n)
  BY <1>3, <1>4, <1>7, <1>8, <1>9, <1>10, CreateEntry
<1>12. PICK headers : headers = Put(header, new.sector, new.chain)
  OBVIOUS
<1>13. Leads(ws, marked, header, table, new.map, headers, Entered(table, new.dir, e))
  <2>1. Leads(ws, marked, header, table, new.map, headers, TablesWith(table, new.dir, new.entries))
    BY <1>3, <1>4, <1>8, <1>9, <1>12, CreateLeads
  <2> QED
    BY <1>7, <2>1 DEF Entered
<1>14. PICK made : made = Creating(new.dir, path, FALSE, size)
  OBVIOUS
<1>15. FALSE \in BOOLEAN
  OBVIOUS
<1>16. /\ Stands(ws, marked, header, table, stopped \cup made.on, completed)
       /\ Lands(ws, marked, header, table, stopped, completed \cup made.makes)
  BY <1>2, <1>3, <1>4, <1>5, <1>6, <1>11, <1>12, <1>13, <1>14, <1>15, AddingIntact
<1>17. made = [on |-> made.on, makes |-> made.makes]
  BY <1>14 DEF Creating
<1> QED
  BY <1>2, <1>9, <1>14, <1>16, <1>17, BeginsIntact

\* CreateDirectory too.
LEMMA CreateDirectoryIntact ==
    ASSUME Types, Intact, NEW path \in Paths, CreateDirectory(path) PROVE Intact'
<1>1. PICK new : new = NewFile(path, DirectoryFileSize, TRUE)
  OBVIOUS
<1>2. /\ writes = << >> /\ IsDirectory(Parent(path)) /\ Untouched(path) /\ new.ok
      /\ writes' = CreateDirectoryWrites(new) /\ UNCHANGED disk
      /\ call' = Creating(new.dir, path, TRUE, DirectoryFileSize)
      /\ completed' = completed /\ stopped' = stopped
  BY <1>1 DEF CreateDirectory, CreateDirectoryWrites
<1>3. DiskTypes /\ DirectoryFileSize \in Nat
  BY FileSystemAssumption DEF Types
<1>4. IsNewFile(new) /\ Made(new, path, DirectoryFileSize, TRUE)
  BY <1>1, <1>2, <1>3, NewFileIs, NewFileMade
<1>5. PICK owners, chain, dirs :
          Keeps(marked, header, Kept(table, stopped), owners, chain, dirs, completed)
  BY <1>2, IntactNow DEF KeptBySome
<1>6. PICK e : e = [name |-> Last(path), sector |-> new.sector, isDir |-> TRUE]
  OBVIOUS
<1>7. e.sector = new.sector /\ e.isDir /\ new.entries = table[new.dir] \cup {e}
  BY <1>4, <1>6 DEF Made
<1>8. Fresh(marked, new.sector, new.chain)
  BY <1>4 DEF Made
<1>9. new.sector # new.dir
  <2>1. Own(marked, header, owners, chain) /\ Linked(Kept(table, stopped), owners, dirs)
    BY <1>5 DEF Keeps
  <2>2. owners \in SUBSET Sectors /\ new.sector \notin owners
    BY <1>8, <2>1 DEF Own, Fresh
  <2>3. Avoids(path, stopped)
    BY <1>2 DEF Untouched
  <2>4. GetDirSector(Parent(path)) \in dirs
    BY <1>2, <1>3, <2>1, <2>2, <2>3, WayAvoids
  <2> QED
    BY <1>4, <2>1, <2>2, <2>4 DEF Linked, Made
<1>10. PICK ws : ws = CreateDirectoryWrites(new)
  OBVIOUS
<1>11. PICK n \in Nat : n = Len(new.chain)
  <2>1. PICK c : c = new.chain /\ IsChain(c)
    BY <1>4 DEF IsNewFile
  <2> QED
    BY <2>1, CountAtLeast
<1>12. EntryToWrite(ws, marked, header, table, marked, new.dir, e, new.chain, n)
  BY <1>3, <1>4, <1>7, <1>8, <1>9, <1>10, <1>11, CreateDirectoryEntry
<1>13. PICK headers : headers = Put(header, new.sector, new.chain)
  OBVIOUS
<1>14. Leads(ws, marked, header, table, new.map, headers, Entered(table, new.dir, e))
  <2>1. Leads(ws, marked, header, table, new.map, headers,
              TablesWith(TablesWith(table, new.dir, new.entries), new.sector, {}))
    BY <1>3, <1>4, <1>8, <1>9, <1>10, <1>13, CreateDirectoryLeads
  <2> QED
    BY <1>7, <2>1 DEF Entered
<1>15. PICK made : made = Creating(new.dir, path, TRUE, DirectoryFileSize)
  OBVIOUS
<1>16. TRUE \in BOOLEAN
  OBVIOUS
<1>17. /\ Stands(ws, marked, header, table, stopped \cup made.on, completed)
       /\ Lands(ws, marked, header, table, stopped, completed \cup made.makes)
  BY <1>2, <1>3, <1>4, <1>5, <1>6, <1>12, <1>13, <1>14, <1>15, <1>16, AddingIntact
<1>18. made = [on |-> made.on, makes |-> made.makes]
  BY <1>15 DEF Creating
<1>19. ws # << >>
  <2>1. PICK a \in Seq(Writes) : a = CreateWrites(new)
    BY <1>4, CreateWritesIs
  <2> DEFINE w == TableWrite(new.sector, {})
  <2>2. Len(a) \in Nat /\ Len(a \o <<w>>) = Len(a) + 1
    BY <2>1
  <2>3. Len(<< >>) = 0
    OBVIOUS
  <2> QED
    BY <1>10, <2>1, <2>2, <2>3 DEF CreateDirectoryWrites
<1> QED
  BY <1>2, <1>10, <1>15, <1>17, <1>18, <1>19, BeginsIntact

\* Without an entry of the root, and what it is for, the directories are linked still.
LEMMA LinkedWithout ==
    ASSUME NEW tables, NEW owners, NEW dirs, Linked(tables, owners, dirs),
           NEW e, NEW tables2, Without(tables, tables2, dirs, e)
    PROVE  Linked(tables2, owners \ {e.sector}, dirs \ {e.sector})
<1>1. /\ e \in tables[DirectorySector] /\ DirectorySector \in dirs
      /\ \A d \in dirs : tables2[d] = IF d = DirectorySector THEN tables[d] \ {e} ELSE tables[d]
  BY DEF Linked, Without
<1>2. PICK s : s = e.sector /\ s \in owners \ {FreeMapSector, DirectorySector}
  BY <1>1 DEF Linked
<1>3. \A d \in dirs : tables2[d] \subseteq tables[d]
  BY <1>1
<1>4. ASSUME NEW d \in dirs, NEW f \in tables2[d] PROVE f.sector # s
  <2>1. SUFFICES ASSUME f.sector = s PROVE FALSE
    OBVIOUS
  <2>2. d = DirectorySector /\ f = e
    BY <1>1, <1>2, <1>3, <2>1 DEF Linked
  <2> QED
    BY <1>1, <2>2
<1>5. /\ {FreeMapSector, DirectorySector} \subseteq owners \ {s}
      /\ DirectorySector \in dirs \ {s} /\ dirs \ {s} \subseteq owners \ {s}
  BY <1>2 DEF Linked
<1>6. \A d \in dirs \ {s} : \A f \in tables2[d] :
          /\ f.sector \in (owners \ {s}) \ {FreeMapSector, DirectorySector}
          /\ f.isDir => f.sector \in dirs \ {s}
  BY <1>3, <1>4 DEF Linked
<1>7. \A c, d \in dirs \ {s} : \A f \in tables2[c], g \in tables2[d] :
          f.sector = g.sector => c = d /\ f = g
  BY <1>3 DEF Linked
<1> QED
  BY <1>2, <1>5, <1>6, <1>7 DEF Linked

\* The entry that Remove finds, and what it is about to write.
Going(name, e, freed, ws) ==
    /\ Find(DirectorySector, name) = {e} /\ e \in table[DirectorySector] /\ e.name = name
    /\ freed = DataSectors(FetchFrom(e.sector)) \cup {e.sector}
    /\ ws = <<MapWrite(marked \ freed),
              TableWrite(DirectorySector, table[DirectorySector] \ {e})>>

\* Remove finds the one entry of that name, untouched by calls that never returned.
LEMMA RemoveGoes ==
    ASSUME DiskTypes, NEW name \in Names, Remove(name)
    PROVE  \E e, freed :
              /\ Going(name, e, freed, writes')
              /\ <<DirectorySector, name>> \notin stopped
              /\ stopped' = {x \in stopped : x[1] # e.sector}
<1>1. DirectorySector \in Sectors
  BY FileSystemAssumption, DiskAssumption DEF DirectorySector, Sectors
<1>2. PICK e \in Find(DirectorySector, name) : TRUE
  BY DEF Remove
<1>3. /\ Follow(DirectorySector, name) = e.sector /\ Find(DirectorySector, name) = {e}
      /\ e \in table[DirectorySector] /\ e.name = name
  BY <1>1, <1>2, OneEntry
<1>4. PICK p \in Seq(Names) : p = <<name>> /\ Len(p) = 1 /\ p[1] = name
  <2>1. <<name>> \in Seq(Names) /\ Len(<<name>>) = 1 /\ <<name>>[1] = name
    OBVIOUS
  <2> QED
    BY <2>1
<1>5. 1 \in 1 .. Len(p) /\ 1 - 1 = 0
  BY <1>4
<1>6. Place(p, 1) = Follow(Place(p, 0), p[1]) /\ Place(p, 0) = DirectorySector
  BY <1>5, PlaceSteps
<1>7. Place(p, 1) = GetDirSector(p)
  BY <1>4, PlaceSteps
<1>8. GetDirSector(<<name>>) = e.sector
  BY <1>3, <1>4, <1>6, <1>7
<1>9. <<DirectorySector, name>> \notin stopped
  <2>1. Untouched(p)
    BY <1>4 DEF Remove
  <2>2. <<Place(p, 1 - 1), p[1]>> \notin stopped
    BY <1>5, <2>1 DEF Untouched, Avoids, Place
  <2> QED
    BY <1>4, <1>5, <1>6, <2>2
<1>10. PICK freed : freed = DataSectors(FetchFrom(e.sector)) \cup {e.sector}
  OBVIOUS
<1>11. /\ writes' = <<MapWrite(marked \ freed),
                      TableWrite(DirectorySector, table[DirectorySector] \ {e})>>
       /\ stopped' = {x \in stopped : x[1] # e.sector}
  BY <1>3, <1>8, <1>10 DEF Remove
<1> QED
  BY <1>3, <1>9, <1>10, <1>11 DEF Going

\* The directories with the entry that goes, and without it; what is left of the
\* entries of stopped calls, and in the root.
Leaves(name, e, part, mid, gone, left) ==
    /\ Find(DirectorySector, name) = {e} /\ e \in table[DirectorySector] /\ e.name = name
    /\ <<DirectorySector, name>> \notin stopped
    /\ part = Kept(table, stopped)
    /\ mid = TablesWith(part, DirectorySector, part[DirectorySector] \ {e})
    /\ gone = {x \in stopped : x[1] # e.sector} /\ left = table[DirectorySector] \ {e}

\* Directories other than the one in sector s are so.
Else(s, dirs, tables, tables2) == \A d \in dirs \ {s} : tables[d] = tables2[d]

\* Without that entry the directories are the same, whether the entry is left out
\* or the root has been written.
LEMMA GoingWithout ==
    ASSUME NEW name, NEW e, NEW part, NEW mid, NEW gone, NEW left,
           Leaves(name, e, part, mid, gone, left),
           NEW owners, NEW dirs, Linked(part, owners, dirs), dirs \subseteq Sectors
    PROVE  /\ Without(part, mid, dirs, e)
           /\ Else(e.sector, dirs, Kept(table, gone \cup {<<DirectorySector, name>>}), mid)
           /\ Else(e.sector, dirs, Kept(TablesWith(table, DirectorySector, left), gone), mid)
<1>1. /\ Find(DirectorySector, name) = {e} /\ e \in table[DirectorySector] /\ e.name = name
      /\ <<DirectorySector, name>> \notin stopped
      /\ part = Kept(table, stopped)
      /\ mid = TablesWith(part, DirectorySector, part[DirectorySector] \ {e})
      /\ gone = {x \in stopped : x[1] # e.sector} /\ left = table[DirectorySector] \ {e}
  BY DEF Leaves
<1>2. DirectorySector \in dirs /\ DirectorySector \in Sectors
  BY DEF Linked
<1>3. \A s \in Sectors : part[s] = {f \in table[s] : <<s, f.name>> \notin stopped}
  BY <1>1 DEF Kept
<1>4. e \in part[DirectorySector]
  BY <1>1, <1>2, <1>3
<1>5. \A f \in table[DirectorySector] : f.name = name <=> f = e
  <2>1. \A f \in table[DirectorySector] : f.name = name => f \in Find(DirectorySector, name)
    BY DEF Find
  <2> QED
    BY <1>1, <2>1
<1>6. \A d \in dirs : mid[d] = IF d = DirectorySector THEN part[d] \ {e} ELSE part[d]
  BY <1>1 DEF TablesWith
<1>7. Without(part, mid, dirs, e)
  <2>1. \A f \in part[DirectorySector] : f.name = e.name => f = e
    BY <1>1, <1>2, <1>3, <1>5
  <2> QED
    BY <1>4, <1>6, <2>1 DEF Without
<1>8. ASSUME NEW d \in dirs \ {e.sector}
      PROVE  /\ Kept(table, gone \cup {<<DirectorySector, name>>})[d] = mid[d]
             /\ Kept(TablesWith(table, DirectorySector, left), gone)[d] = mid[d]
  <2>1. d \in Sectors /\ d # e.sector
    OBVIOUS
  <2>2. ASSUME NEW f PROVE <<d, f.name>> \in gone <=> <<d, f.name>> \in stopped
    <3>1. <<d, f.name>>[1] = d
      OBVIOUS
    <3> QED
      BY <1>1, <2>1, <3>1
  <2>3. /\ Kept(table, gone \cup {<<DirectorySector, name>>})[d]
            = {f \in table[d] : <<d, f.name>> \notin gone \cup {<<DirectorySector, name>>}}
        /\ Kept(TablesWith(table, DirectorySector, left), gone)[d]
            = {f \in TablesWith(table, DirectorySector, left)[d] : <<d, f.name>> \notin gone}
    BY <2>1 DEF Kept
  <2>4. CASE d = DirectorySector
    <3>1. mid[d] = {f \in table[d] : <<d, f.name>> \notin stopped} \ {e}
      BY <1>3, <1>6, <2>1, <2>4
    <3>2. TablesWith(table, DirectorySector, left)[d] = table[d] \ {e}
      BY <1>1, <2>1, <2>4 DEF TablesWith
    <3>3. \A f \in table[d] : <<d, f.name>> = <<DirectorySector, name>> <=> f = e
      BY <1>5, <2>4
    <3>4. Kept(table, gone \cup {<<DirectorySector, name>>})[d] = mid[d]
      BY <2>2, <2>3, <3>1, <3>3
    <3>5. Kept(TablesWith(table, DirectorySector, left), gone)[d] = mid[d]
      BY <2>2, <2>3, <3>1, <3>2
    <3> QED
      BY <3>4, <3>5
  <2>5. CASE d # DirectorySector
    <3>1. mid[d] = {f \in table[d] : <<d, f.name>> \notin stopped}
      BY <1>3, <1>6, <2>1, <2>5
    <3>2. TablesWith(table, DirectorySector, left)[d] = table[d]
      BY <2>1, <2>5 DEF TablesWith
    <3>3. \A f : <<d, f.name>> # <<DirectorySector, name>>
      BY <2>5
    <3>4. Kept(table, gone \cup {<<DirectorySector, name>>})[d] = mid[d]
      BY <2>2, <2>3, <3>1, <3>3
    <3>5. Kept(TablesWith(table, DirectorySector, left), gone)[d] = mid[d]
      BY <2>2, <2>3, <3>1, <3>2
    <3> QED
      BY <3>4, <3>5
  <2> QED
    BY <2>4, <2>5
<1> QED
  BY <1>7, <1>8 DEF Else

\* What these owners have is marked.
Marks(map, owners, chain) == \A o \in owners : Owned(o, chain[o]) \subseteq map

\* The directories without an entry of the root keep what does not begin with its name.
LEMMA KeepsWithout ==
    ASSUME NEW map, NEW headers, NEW part, NEW owners, NEW chain, NEW dirs, NEW files,
           Keeps(map, headers, part, owners, chain, dirs, files),
           NEW e, NEW mid, Without(part, mid, dirs, e),
           NEW files2, files2 = {f \in files : f[1][1] # e.name},
           NEW freed, freed \subseteq Owned(e.sector, chain[e.sector])
    PROVE  /\ Keeps(map, headers, mid, owners \ {e.sector}, chain, dirs \ {e.sector}, files2)
           /\ Marks(map \ freed, owners \ {e.sector}, chain)
<1>1. Own(map, headers, owners, chain) /\ Linked(part, owners, dirs) /\ Lists(part, headers, files)
  BY DEF Keeps
<1>2. e \in part[DirectorySector] /\ DirectorySector \in dirs
  BY <1>1 DEF Linked, Without
<1>3. PICK s \in owners : s = e.sector
  BY <1>1, <1>2 DEF Linked
<1>4. /\ Own(map, headers, owners \ {s}, chain)
      /\ \A o \in owners \ {s} : Owned(o, chain[o]) \subseteq map \ freed
  <2>1. freed \subseteq Owned(s, chain[s])
    BY <1>3
  <2> QED
    BY <1>1, <2>1, OwnedWithout
<1>5. Linked(mid, owners \ {s}, dirs \ {s})
  BY <1>1, <1>3, LinkedWithout
<1>6. ASSUME NEW p \in Paths, NEW node
      PROVE  Found(mid, headers, p, node) <=> <<p, node>> \in files2
  <2>1. Found(mid, headers, p, node) <=> Found(part, headers, p, node) /\ p[1] # e.name
    BY <1>1, FoundRemove
  <2>2. Found(part, headers, p, node) <=> <<p, node>> \in files
    BY <1>1 DEF Lists
  <2>3. <<p, node>>[1] = p
    OBVIOUS
  <2> QED
    BY <2>1, <2>2, <2>3
<1>7. Lists(mid, headers, files2)
  BY <1>6 DEF Lists
<1> QED
  BY <1>3, <1>4, <1>5, <1>7 DEF Keeps, Marks

\* Remove begins so, too.
LEMMA RemoveIntact ==
    ASSUME Types, Intact, NEW name \in Names, Remove(name) PROVE Intact'
<1>1. DiskTypes
  BY DEF Types
<1>2. PICK e, freed :
          /\ Going(name, e, freed, writes')
          /\ <<DirectorySector, name>> \notin stopped
          /\ stopped' = {x \in stopped : x[1] # e.sector}
  BY <1>1, RemoveGoes
<1>3. /\ writes = << >> /\ UNCHANGED disk
      /\ call' = [on |-> {<<DirectorySector, name>>}, makes |-> {}]
      /\ completed' = {f \in completed : f[1][1] # name}
  BY DEF Remove
<1>4. PICK part : part = Kept(table, stopped)
  OBVIOUS
<1>5. PICK owners, chain, dirs : Keeps(marked, header, part, owners, chain, dirs, completed)
  BY <1>3, <1>4, IntactNow DEF KeptBySome
<1>6. Own(marked, header, owners, chain) /\ Linked(part, owners, dirs)
  BY <1>5 DEF Keeps
<1>7. dirs \subseteq Sectors /\ DirectorySector \in dirs /\ marked \in SUBSET Sectors
  BY <1>6 DEF Own, Linked
<1>8. PICK left, gone, files :
          /\ left = table[DirectorySector] \ {e} /\ gone = {x \in stopped : x[1] # e.sector}
          /\ files = {f \in completed : f[1][1] # name}
  OBVIOUS
<1>9. PICK mid : mid = TablesWith(part, DirectorySector, part[DirectorySector] \ {e})
  OBVIOUS
<1>10. PICK ws : ws = writes' /\ Going(name, e, freed, ws)
  BY <1>2
<1>11. Leaves(name, e, part, mid, gone, left)
  BY <1>2, <1>4, <1>8, <1>9 DEF Leaves, Going
<1>12. /\ Without(part, mid, dirs, e)
       /\ Else(e.sector, dirs, Kept(table, gone \cup {<<DirectorySector, name>>}), mid)
       /\ Else(e.sector, dirs, Kept(TablesWith(table, DirectorySector, left), gone), mid)
  BY <1>6, <1>7, <1>11, GoingWithout
<1>13. /\ e.name = name /\ freed = DataSectors(FetchFrom(e.sector)) \cup {e.sector}
       /\ ws = <<MapWrite(marked \ freed), TableWrite(DirectorySector, left)>>
  BY <1>8, <1>10 DEF Going
<1>14. e.sector \in owners /\ e.sector # DirectorySector
  BY <1>6, <1>7, <1>12 DEF Linked, Without
<1>15. freed \subseteq Owned(e.sector, chain[e.sector])
  <2>1. PICK s \in owners : s = e.sector
    BY <1>14
  <2>2. FetchFrom(s) = chain[s]
    BY <1>6, OwnedNow
  <2> QED
    BY <1>13, <2>1, <2>2 DEF Owned, Taken
<1>16. PICK owners2, dirs2 : owners2 = owners \ {e.sector} /\ dirs2 = dirs \ {e.sector}
  OBVIOUS
<1>17. /\ Keeps(marked, header, mid, owners2, chain, dirs2, files)
       /\ \A o \in owners2 : Owned(o, chain[o]) \subseteq marked \ freed
  <2>1. /\ Keeps(marked, header, mid, owners \ {e.sector}, chain, dirs \ {e.sector}, files)
        /\ Marks(marked \ freed, owners \ {e.sector}, chain)
    <3>1. files = {f \in completed : f[1][1] # e.name}
      BY <1>8, <1>13
    <3> QED
      BY <1>5, <1>12, <1>15, <3>1, KeepsWithout
  <2> QED
    BY <1>16, <2>1 DEF Marks
<1>18. PICK on, kept : /\ on = {<<DirectorySector, name>>}
                       /\ kept = Kept(table, gone \cup on)
  OBVIOUS
<1>19. \A d \in dirs2 : kept[d] = mid[d]
  BY <1>12, <1>16, <1>18 DEF Else
<1>20. Stands(ws, marked, header, table, gone \cup on, files)
  <2>1. Keeps(marked, header, kept, owners2, chain, dirs2, files)
    <3>1. \A o \in owners2 : /\ Owned(o, chain[o]) \subseteq marked
                             /\ \A t \in Owned(o, chain[o]) : header[t] = header[t]
      BY <1>17
    <3> QED
      BY <1>7, <1>17, <1>19, <3>1, KeepsStill
  <2>2. Len(ws) = 2 /\ ws[1] = MapWrite(marked \ freed) /\ ws[2] = TableWrite(DirectorySector, left)
    BY <1>13
  <2>3. /\ ws[1].to = "map" /\ ws[1].value = marked \ freed
        /\ ws[2].to = "table" /\ ws[2].sector = DirectorySector /\ ws[2].value = left
    BY <2>2 DEF MapWrite, TableWrite
  <2>4. Spares(ws[1], gone \cup on, kept, owners2, chain, dirs2)
    BY <1>17, <2>3 DEF Spares
  <2>5. {f \in left : <<DirectorySector, f.name>> \notin gone \cup on} = kept[DirectorySector]
    <3>1. kept[DirectorySector] = {f \in table[DirectorySector] : <<DirectorySector, f.name>> \notin gone \cup on}
      BY <1>7, <1>18 DEF Kept
    <3>2. <<DirectorySector, e.name>> \in gone \cup on
      BY <1>13, <1>18
    <3> QED
      BY <1>8, <3>1, <3>2
  <2>6. Spares(ws[2], gone \cup on, kept, owners2, chain, dirs2)
    BY <2>3, <2>5 DEF Spares
  <2>7. \A i \in 1 .. Len(ws) : Spares(ws[i], gone \cup on, kept, owners2, chain, dirs2)
    BY <2>2, <2>4, <2>6
  <2> QED
    BY <1>18, <2>1, <2>7 DEF Stands
<1>21. PICK map, tables : map = marked \ freed /\ tables = TablesWith(table, DirectorySector, left)
  OBVIOUS
<1>22. KeptBySome(map, header, Kept(tables, gone), files)
  <2>1. PICK k : k = Kept(tables, gone)
    OBVIOUS
  <2>2. \A d \in dirs2 : k[d] = mid[d]
    BY <1>12, <1>16, <1>21, <2>1 DEF Else
  <2>3. map \in SUBSET Sectors
    BY <1>7, <1>21
  <2>4. \A o \in owners2 : /\ Owned(o, chain[o]) \subseteq map
                           /\ \A t \in Owned(o, chain[o]) : header[t] = header[t]
    BY <1>17, <1>21
  <2>5. Keeps(map, header, k, owners2, chain, dirs2, files)
    BY <1>17, <2>2, <2>3, <2>4, KeepsStill
  <2> QED
    BY <2>1, <2>5 DEF KeptBySome
<1>23. Lands(ws, marked, header, table, gone, files \cup {})
  <2>1. Leads(ws, marked, header, table, map, header, tables)
    BY <1>13, <1>21, RemoveLeads
  <2>2. files \cup {} = files
    OBVIOUS
  <2> QED
    BY <1>22, <2>1, <2>2 DEF Lands, KeptBySome
<1>24. ws # << >>
  BY <1>13
<1>25. /\ writes' = ws /\ stopped' = gone /\ completed' = files
       /\ call' = [on |-> on, makes |-> {}]
  BY <1>2, <1>3, <1>8, <1>10, <1>18
<1> QED
  BY <1>3, <1>20, <1>23, <1>24, <1>25, BeginsIntact

\* A formatted disk has nothing but the free map and the root.
LEMMA InitIntact == Init => Intact
<1> SUFFICES ASSUME Init PROVE Intact
  OBVIOUS
<1>1. /\ writes = << >> /\ table = [s \in Sectors |-> {}]
      /\ call = NoCall /\ completed = {} /\ stopped = {}
  BY DEF Init
<1>2. PICK owners, dirs : /\ owners = {FreeMapSector, DirectorySector} /\ dirs = {DirectorySector}
  OBVIOUS
<1>3. PICK chain : Own(marked, header, owners, chain) /\ Linked(table, owners, dirs)
  BY <1>2, InitOwn
<1>4. PICK part : part = Kept(table, stopped \cup call.on)
  OBVIOUS
<1>5. \A s \in Sectors : part[s] = {} /\ table[s] = {}
  BY <1>1, <1>4 DEF Kept
<1>6. dirs \subseteq Sectors
  BY <1>3 DEF Own, Linked
<1>7. \A d \in dirs : part[d] \subseteq table[d]
  BY <1>5, <1>6
<1>8. Linked(part, owners, dirs)
  BY <1>3, <1>7, LinkedLess
<1>9. ASSUME NEW p \in Paths, NEW node PROVE ~ Found(part, header, p, node)
  <2>1. SUFFICES ASSUME Found(part, header, p, node) PROVE FALSE
    OBVIOUS
  <2>2. PICK n \in Nat : n = Len(p) - 1
    BY PathIs
  <2>3. PICK at, e : Way(part, p, n, at) /\ e \in part[at[n]]
    BY <2>1, <2>2 DEF Found
  <2>4. at[n] \in dirs
    BY <1>8, <2>3, WayLinked
  <2> QED
    BY <1>5, <1>6, <2>3, <2>4
<1>10. Lists(part, header, completed)
  BY <1>1, <1>9 DEF Lists
<1>11. Keeps(marked, header, part, owners, chain, dirs, completed)
  BY <1>3, <1>8, <1>10 DEF Keeps
<1>12. Stands(writes, marked, header, table, stopped \cup call.on, completed)
  <2>1. 1 .. Len(writes) = {}
    BY <1>1
  <2> QED
    BY <1>4, <1>11, <2>1 DEF Stands
<1> QED
  BY <1>1, <1>12 DEF Intact

\* Every step keeps them intact.
LEMMA NextIntact == Types /\ Intact /\ [Next]_vars => Intact'
<1> SUFFICES ASSUME Types, Intact, [Next]_vars PROVE Intact'
  OBVIOUS
<1>1. CASE UNCHANGED vars
  BY <1>1 DEF vars, disk, Intact
<1>2. ASSUME NEW path \in Paths, NEW size \in Sizes, Create(path, size) PROVE Intact'
  BY <1>2, CreateIntact
<1>3. ASSUME NEW path \in Paths, CreateDirectory(path) PROVE Intact'
  BY <1>3, CreateDirectoryIntact
<1>4. ASSUME NEW name \in Names, Remove(name) PROVE Intact'
  BY <1>4, RemoveIntact
<1>5. CASE WriteNext
  BY <1>5, LastWriteIntact, EarlyWriteIntact
<1>6. CASE Crash
  BY <1>6, CrashIntact
<1> QED
  BY <1>1, <1>2, <1>3, <1>4, <1>5, <1>6 DEF Next

\* What the calls that returned TRUE have made and not removed is there, whole and
\* alone in its sectors, at every moment: while another call writes its headers, its
\* directory and the free map (filesys.cc 185-345), after a stop between any two of
\* these writes or within the free map, and through all calls after it that leave
\* the entries of stopped calls alone.  Nothing else is there but on an entry of
\* the current call or of a stopped one.  For every disk, every depth of
\* directories and any number of stops.
THEOREM CompletedFilesStay == Spec => []CompletedFilesIntact
<1>1. Init => Intact
  BY InitIntact
<1>2. Types /\ Intact /\ [Next]_vars => Intact'
  BY NextIntact
<1>3. Types /\ Intact => CompletedFilesIntact
  BY IntactShows DEF Types, CallTypes
<1> QED
  BY <1>1, <1>2, <1>3, TypesHold, PTL DEF Spec
=============================================================================
