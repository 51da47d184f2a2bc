-------------------------- MODULE BookmarksProofs --------------------------
(***************************************************************************)
(* Proofs about Bookmarks: one name is lost at the most for each time the  *)
(* program is killed (OneLostPerKill) and every operation does what it is  *)
(* asked (AsAsked), for all labels, depths and numbers of entries and      *)
(* kills.  What loading, storing and appending to a part of a line do to   *)
(* the names is told by the lemmas LoadAdds, LinesKeep and AppendedTells;  *)
(* from there on the proofs are about sets of names.                       *)
(***************************************************************************)
EXTENDS Bookmarks, SequenceTheorems, FiniteSetTheorems, WellFoundedInduction, TLAPS

Labels == Label \cup {Garbled}

(* The types of the variables without the conjuncts about folders *)
Typed ==
  /\ file = None \/ file \in Seq(Entry)
  /\ work = None \/ work \in Seq(Entry)
  /\ part \in Entry \cup {None}
  /\ list \in Seq(Entry)
  /\ current = <<>> \/ current \in NamesIn(list)
  /\ clipboard = None \/ clipboard \in [label : Labels, c : Coord \cup {Folder},
                                        children : BOOLEAN]
  /\ asked \in [adds : SUBSET Name, takes : SUBSET Name, twice : BOOLEAN]
  /\ pc \in {"idle", "store", "unlink", "rename", "dead"}
  /\ pc \in {"store", "unlink", "rename"} => work \in Seq(Entry)
  /\ pc = "dead" => current = <<>>
  /\ names \subseteq Name /\ stray \subseteq Name /\ swallowed \subseteq Name
  /\ kills \in 0..MaxKills

(* In l every entry comes after the folders it is in *)
Closed(l) ==
  \A i \in DOMAIN l : FoldersOf(l[i].name) \subseteq NamesIn(SubSeq(l, 1, i - 1))

(* What the user has and has not asked to remove, and what he wants *)
Kept == names \ asked.takes
Wanted == Kept \cup asked.adds

(* A part of a line, and what was swallowed: each has had a kill of its own *)
Counted(s, p, n) ==
  /\ IsFiniteSet(s)
  /\ Cardinality(s) + (IF p = None THEN 0 ELSE 1) <= n

(* Garbled names: those of their folders that are not garbled are folders  *)
(* of names in S                                                           *)
Garbles(S) ==
  {n \in Name : IsGarbled(n) /\ \A m \in FoldersOf(n) : IsGarbled(m) \/ m \in WithFolders(S)}

(* Between operations the list is what was loaded.  What the user keeps is *)
(* in the file, or, when there is none, in the working file or swallowed;  *)
(* while the file is there, its names are in the changed list; from the    *)
(* time the file is unlinked they are in the working file or swallowed.    *)
(* Names nobody asked for are stray or garbled.                            *)
Inv ==
  /\ Typed
  /\ Counted(swallowed, part, kills)
  /\ pc = "idle" => asked = Nothing /\ list = Load(file) /\ NamesIn(list) \subseteq names
  /\ Kept \subseteq NamesIn(Load(IF file = None THEN work ELSE file))
                  \cup IF file = None THEN WithFolders(swallowed) ELSE {}
  /\ Twice(Load(file)) \subseteq stray
  /\ pc \in {"idle", "store", "dead"} =>
       /\ NamesOn(work) \subseteq stray
       /\ part # None => part.name \in stray
  /\ pc = "store" =>
       /\ NamesIn(list) \subseteq Wanted \cup stray
       /\ asked.adds \subseteq NamesIn(list)
       /\ file # None => Kept \subseteq NamesIn(list)
  /\ pc \in {"unlink", "rename"} =>
       /\ Wanted \subseteq NamesIn(Load(work)) \cup WithFolders(swallowed)
       /\ NamesIn(work) \subseteq Wanted \cup stray \cup Garbles(stray)
  /\ pc = "rename" => file = None

-----------------------------------------------------------------------------
(* Loops.  A set of numbers has a least one. *)
LEMMA LeastOf ==
  ASSUME NEW S \in SUBSET Nat, S # {}
  PROVE  \E n \in S : \A m \in S : n <= m
<1> DEFINE R == OpToRel(<, Nat)
<1>1. IsWellFoundedOn(R, Nat)
  BY NatLessThanWellFounded
<1>2. \A m, n \in Nat : m < n => <<m, n>> \in R
  BY DEF OpToRel
<1> HIDE DEF R
<1>3. PICK n \in S : \A m \in S : <<m, n>> \notin R
  BY <1>1, WFMin
<1>4. ASSUME NEW m \in S PROVE n <= m
  <2>1. m \in Nat /\ n \in Nat /\ ~(m < n)
    BY <1>2, <1>3
  <2> QED BY <2>1
<1> QED BY <1>4

(* u holds the results of n rounds of a loop, the k-th of which applies    *)
(* g[k], from d on                                                         *)
Runs(u, n, S, d, g) ==
  /\ u \in [0..n -> S] /\ u[0] = d
  /\ \A k \in 1..n : u[k] = g[k][u[k - 1]]

(* Every loop has them *)
LEMMA Iterated ==
  ASSUME NEW n \in Nat, NEW S, NEW d \in S, NEW g \in [1..n -> [S -> S]]
  PROVE  \E u : Runs(u, n, S, d, g)
<1> DEFINE Bad == {m \in 0..n : ~\E u : Runs(u, m, S, d, g)}
<1>1. ASSUME NEW m \in Bad, \A k \in Bad : m <= k PROVE FALSE
  <2>1. CASE m = 0
    <3>1. Runs([k \in 0..0 |-> d], 0, S, d, g)
      BY DEF Runs
    <3> QED BY <1>1, <2>1, <3>1
  <2>2. CASE m # 0
    <3>1. m \in 1..n /\ m - 1 \in 0..n /\ ~(m <= m - 1)
      BY <2>2
    <3>2. m - 1 \notin Bad
      BY <1>1, <3>1
    <3>3. PICK u : Runs(u, m - 1, S, d, g)
      BY <3>1, <3>2
    <3> DEFINE w == [k \in 0..m |-> IF k = m THEN g[m][u[m - 1]] ELSE u[k]]
    <3>4. u[m - 1] \in S /\ g[m] \in [S -> S]
      BY <3>1, <3>3 DEF Runs
    <3>5. g[m][u[m - 1]] \in S
      BY <3>4
    <3>6. w \in [0..m -> S]
      BY <3>1, <3>3, <3>5 DEF Runs
    <3>7. w[0] = d
      BY <3>1, <3>3 DEF Runs
    <3>8. ASSUME NEW k \in 1..m PROVE w[k] = g[k][w[k - 1]]
      <4>1. CASE k = m
        BY <3>1, <4>1
      <4>2. CASE k # m
        <5>1. k \in 1..(m - 1) /\ k - 1 # m /\ k - 1 \in 0..m /\ k \in 0..m
          BY <3>1, <4>2
        <5> QED BY <3>3, <4>2, <5>1 DEF Runs
      <4> QED BY <4>1, <4>2
    <3>9. Runs(w, m, S, d, g)
      BY <3>6, <3>7, <3>8 DEF Runs
    <3> QED BY <3>9
  <2> QED BY <2>1, <2>2
<1>2. Bad \in SUBSET Nat
  OBVIOUS
<1>3. Bad = {}
  <2> HIDE DEF Bad
  <2> QED BY <1>1, <1>2, LeastOf
<1>4. \E u : Runs(u, n, S, d, g)
  <2>1. n \in 0..n
    OBVIOUS
  <2> QED BY <1>3, <2>1
<1> QED BY <1>4

(* What holds before a loop and is kept by its rounds holds after it *)
LEMMA Looped ==
  ASSUME NEW n \in Nat, NEW r, NEW K, r[0] \in K[0],
         \A k \in 1..n : r[k - 1] \in K[k - 1] => r[k] \in K[k]
  PROVE  r[n] \in K[n]
<1> DEFINE Bad == {k \in 0..n : r[k] \notin K[k]}
<1>1. ASSUME NEW k \in Bad, \A m \in Bad : k <= m PROVE FALSE
  <2>1. k \in 1..n /\ k - 1 \in 0..n /\ ~(k <= k - 1)
    <3>1. k # 0
      OBVIOUS
    <3> QED BY <3>1
  <2>2. r[k - 1] \in K[k - 1]
    BY <1>1, <2>1
  <2> QED BY <2>1, <2>2
<1>2. Bad \in SUBSET Nat
  OBVIOUS
<1>3. Bad = {}
  <2> HIDE DEF Bad
  <2> QED BY <1>1, <1>2, LeastOf
<1> QED BY <1>3

-----------------------------------------------------------------------------
(* Names *)
LEMMA NameIs ==
  ASSUME NEW n
  PROVE  n \in Name <=> n \in Seq(Labels) /\ Len(n) >= 1
<1>1. ASSUME n \in Seq(Labels) PROVE n # <<>> <=> Len(n) >= 1
  BY <1>1
<1> QED BY <1>1 DEF Name, Labels

(* The folders of a name are names, and their folders are among them *)
LEMMA FolderNames ==
  ASSUME NEW n \in Name, NEW k \in 1..(Len(n) - 1)
  PROVE  /\ SubSeq(n, 1, k) \in Name
         /\ Len(SubSeq(n, 1, k)) = k
         /\ FoldersOf(SubSeq(n, 1, k)) = {SubSeq(n, 1, j) : j \in 1..(k - 1)}
<1>1. n \in Seq(Labels) /\ Len(n) >= 1
  BY NameIs
<1>2. SubSeq(n, 1, k) \in Seq(Labels) /\ Len(SubSeq(n, 1, k)) = k
  BY <1>1
<1>3. SubSeq(n, 1, k) \in Name
  <2>1. PICK x : x = SubSeq(n, 1, k)
    OBVIOUS
  <2>2. x \in Seq(Labels) /\ Len(x) >= 1
    BY <1>1, <1>2, <2>1
  <2> QED BY <2>1, <2>2, NameIs
<1>4. ASSUME NEW j \in 1..(k - 1)
      PROVE  SubSeq(SubSeq(n, 1, k), 1, j) = SubSeq(n, 1, j)
  BY <1>1, <1>2
<1> QED BY <1>2, <1>3, <1>4 DEF FoldersOf

LEMMA FoldersTyped ==
  ASSUME NEW n \in Name
  PROVE  FoldersOf(n) \subseteq Name
BY FolderNames DEF FoldersOf

LEMMA NamesTyped ==
  ASSUME NEW l \in Seq(Entry)
  PROVE  NamesIn(l) \subseteq Name
<1>1. ASSUME NEW i \in DOMAIN l PROVE l[i].name \in Name
  <2>1. l[i] \in Entry
    OBVIOUS
  <2> QED BY <2>1 DEF Entry
<1> QED BY <1>1 DEF NamesIn

LEMMA NamesAppend ==
  ASSUME NEW l \in Seq(Entry), NEW e \in Entry
  PROVE  /\ Append(l, e) \in Seq(Entry)
         /\ NamesIn(Append(l, e)) = NamesIn(l) \cup {e.name}
<1>1. /\ Append(l, e) \in Seq(Entry) /\ Len(Append(l, e)) = Len(l) + 1
      /\ \A i \in 1..Len(l) : Append(l, e)[i] = l[i]
      /\ Append(l, e)[Len(l) + 1] = e
  BY AppendProperties
<1>2. /\ DOMAIN l = 1..Len(l) /\ DOMAIN Append(l, e) = 1..(Len(l) + 1)
      /\ 1..(Len(l) + 1) = (1..Len(l)) \cup {Len(l) + 1}
  BY <1>1
<1> HIDE DEF Entry
<1> QED BY <1>1, <1>2 DEF NamesIn

LEMMA NamesConcat ==
  ASSUME NEW l \in Seq(Entry), NEW m \in Seq(Entry)
  PROVE  /\ l \o m \in Seq(Entry)
         /\ NamesIn(l \o m) = NamesIn(l) \cup NamesIn(m)
<1>1. /\ l \o m \in Seq(Entry) /\ Len(l \o m) = Len(l) + Len(m)
      /\ \A i \in 1..(Len(l) + Len(m)) :
           (l \o m)[i] = IF i <= Len(l) THEN l[i] ELSE m[i - Len(l)]
  BY ConcatProperties
<1>2. ASSUME NEW i \in DOMAIN (l \o m)
      PROVE  (l \o m)[i].name \in NamesIn(l) \cup NamesIn(m)
  <2>1. CASE i <= Len(l)
    BY <1>1, <2>1 DEF NamesIn
  <2>2. CASE ~(i <= Len(l))
    <3>1. i - Len(l) \in DOMAIN m /\ (l \o m)[i] = m[i - Len(l)]
      BY <1>1, <2>2
    <3> QED BY <3>1 DEF NamesIn
  <2> QED BY <2>1, <2>2
<1>3. ASSUME NEW i \in DOMAIN l PROVE l[i].name \in NamesIn(l \o m)
  <2>1. i \in DOMAIN (l \o m) /\ (l \o m)[i] = l[i]
    BY <1>1
  <2> QED BY <2>1 DEF NamesIn
<1>4. ASSUME NEW i \in DOMAIN m PROVE m[i].name \in NamesIn(l \o m)
  <2>1. i + Len(l) \in DOMAIN (l \o m) /\ (l \o m)[i + Len(l)] = m[i]
    BY <1>1
  <2> QED BY <2>1 DEF NamesIn
<1> QED BY <1>1, <1>2, <1>3, <1>4 DEF NamesIn

LEMMA EmptyList ==
  /\ NamesIn(<<>>) = {} /\ Twice(<<>>) = {}
  /\ Closed(<<>>) /\ WithFolders({}) = {}
<1>1. DOMAIN <<>> = {}
  OBVIOUS
<1>2. NamesIn(<<>>) = {} /\ Twice(<<>>) = {}
  BY <1>1 DEF NamesIn, Twice
<1>3. Closed(<<>>) /\ WithFolders({}) = {}
  BY <1>1 DEF Closed, WithFolders
<1> QED BY <1>2, <1>3

(* A set of names with its folders *)
LEMMA WithFoldersGrows ==
  ASSUME NEW S, NEW T, S \subseteq T
  PROVE  WithFolders(S) \subseteq WithFolders(T) /\ S \subseteq WithFolders(S)
BY DEF WithFolders

LEMMA FoldersAreThere ==
  ASSUME NEW S \in SUBSET Name
  PROVE  /\ WithFolders(S) \subseteq Name
         /\ WithFolders(WithFolders(S)) = WithFolders(S)
<1>1. WithFolders(S) \subseteq Name
  BY FoldersTyped DEF WithFolders
<1>2. ASSUME NEW n \in WithFolders(S), NEW m \in FoldersOf(n)
      PROVE  m \in WithFolders(S)
  <2>1. CASE n \in S
    BY <1>2, <2>1 DEF WithFolders
  <2>2. CASE n \notin S
    <3>1. PICK x \in S : n \in FoldersOf(x)
      BY <2>2 DEF WithFolders
    <3>2. PICK k \in 1..(Len(x) - 1) : n = SubSeq(x, 1, k)
      BY <3>1 DEF FoldersOf
    <3>3. PICK j \in 1..(k - 1) : m = SubSeq(x, 1, j)
      BY <1>2, <3>2, FolderNames
    <3>4. j \in 1..(Len(x) - 1)
      <4>1. Len(x) \in Nat
        BY <3>1, NameIs
      <4> QED BY <3>2, <3>3, <4>1
    <3>5. m \in FoldersOf(x)
      BY <3>3, <3>4 DEF FoldersOf
    <3> QED BY <3>1, <3>5 DEF WithFolders
  <2> QED BY <2>1, <2>2
<1>3. WithFolders(WithFolders(S)) \subseteq WithFolders(S)
  BY <1>2 DEF WithFolders
<1> QED BY <1>1, <1>3, WithFoldersGrows

LEMMA FoldersOfTwo ==
  ASSUME NEW S, NEW T
  PROVE  WithFolders(S \cup T) = WithFolders(S) \cup WithFolders(T)
BY DEF WithFolders

LEMMA GarblesGrow ==
  ASSUME NEW S, NEW T, S \subseteq T
  PROVE  Garbles(S) \subseteq Garbles(T)
BY WithFoldersGrows DEF Garbles


-----------------------------------------------------------------------------
(* Loading *)
LEMMA ClosedAppend ==
  ASSUME NEW l \in Seq(Entry), Closed(l), NEW e \in Entry,
         FoldersOf(e.name) \subseteq NamesIn(l)
  PROVE  Closed(Append(l, e))
<1> HIDE DEF Entry
<1>1. /\ Append(l, e) \in Seq(Entry) /\ Len(Append(l, e)) = Len(l) + 1
      /\ \A i \in 1..Len(l) : Append(l, e)[i] = l[i]
      /\ Append(l, e)[Len(l) + 1] = e
  BY AppendProperties
<1>2. ASSUME NEW i \in 1..(Len(l) + 1)
      PROVE  SubSeq(Append(l, e), 1, i - 1) = SubSeq(l, 1, i - 1)
  BY <1>1
<1>3. SubSeq(l, 1, Len(l)) = l
  OBVIOUS
<1>4. ASSUME NEW i \in DOMAIN Append(l, e)
      PROVE  FoldersOf(Append(l, e)[i].name) \subseteq NamesIn(SubSeq(Append(l, e), 1, i - 1))
  <2>1. i \in 1..(Len(l) + 1)
    BY <1>1
  <2>2. CASE i = Len(l) + 1
    <3>1. i - 1 = Len(l) /\ Append(l, e)[i] = e
      BY <1>1, <2>2
    <3> QED BY <1>2, <1>3, <2>1, <3>1
  <2>3. CASE i # Len(l) + 1
    <3>1. i \in DOMAIN l /\ Append(l, e)[i] = l[i]
      BY <1>1, <2>1, <2>3
    <3> QED BY <1>2, <2>1, <3>1 DEF Closed
  <2> QED BY <2>2, <2>3
<1> QED BY <1>4 DEF Closed

LEMMA FolderAdds ==
  ASSUME NEW l \in Seq(Entry), NEW n \in Name
  PROVE  /\ AddFolder(l, n) \in Seq(Entry)
         /\ NamesIn(AddFolder(l, n)) = NamesIn(l) \cup {n}
         /\ Closed(l) /\ FoldersOf(n) \subseteq NamesIn(l) => Closed(AddFolder(l, n))
<1>1. CASE n \in NamesIn(l)
  BY <1>1 DEF AddFolder
<1>2. CASE n \notin NamesIn(l)
  <2>1. PICK e : e = [name |-> n, c |-> Folder]
    OBVIOUS
  <2>2. e \in Entry /\ e.name = n
    BY <2>1 DEF Entry
  <2>3. AddFolder(l, n) = Append(l, e)
    BY <1>2, <2>1 DEF AddFolder
  <2> QED BY <2>2, <2>3, NamesAppend, ClosedAppend
<1> QED BY <1>1, <1>2

(* Lists with the names of l and S, closed if l is *)
Adding(l, S) ==
  {m \in Seq(Entry) : NamesIn(m) = NamesIn(l) \cup S /\ (Closed(l) => Closed(m))}

LEMMA EntryAdds ==
  ASSUME NEW l \in Seq(Entry), NEW e \in Entry
  PROVE  LoadEntry(l, e) \in Adding(l, FoldersOf(e.name) \cup {e.name})
<1> DEFINE d == Len(e.name) - 1
           P(k) == SubSeq(e.name, 1, k)
           g == [k \in 1..d |-> [x \in Seq(Entry) |-> AddFolder(x, P(k))]]
           IsLoop(v) == v = [k \in 0..d |-> IF k = 0 THEN l ELSE AddFolder(v[k - 1], P(k))]
           m == CHOOSE v : IsLoop(v)
           K == [k \in 0..d |-> Adding(l, {P(j) : j \in 1..k})]
<1>1. e.name \in Name /\ d \in Nat
  <2>1. e.name \in Name
    BY DEF Entry
  <2> QED BY <2>1, NameIs
<1>2. \A k \in 1..d : P(k) \in Name /\ FoldersOf(P(k)) = {P(j) : j \in 1..(k - 1)}
  BY <1>1, FolderNames
<1> HIDE DEF P
<1>3. PICK u : Runs(u, d, Seq(Entry), l, g)
  <2>1. g \in [1..d -> [Seq(Entry) -> Seq(Entry)]]
    BY <1>2, FolderAdds
  <2> HIDE DEF g, d
  <2> QED BY <1>1, <2>1, Iterated
<1>4. IsLoop(u)
  <2>1. ASSUME NEW k \in 0..d
        PROVE  u[k] = IF k = 0 THEN l ELSE AddFolder(u[k - 1], P(k))
    <3>1. CASE k # 0
      <4>1. k \in 1..d /\ k - 1 \in 0..d
        BY <1>1, <3>1
      <4>2. u[k] = g[k][u[k - 1]] /\ u[k - 1] \in Seq(Entry)
        BY <1>3, <4>1 DEF Runs
      <4> QED BY <3>1, <4>1, <4>2
    <3> QED BY <1>3, <3>1 DEF Runs
  <2>2. u = [k \in 0..d |-> u[k]]
    BY <1>3 DEF Runs
  <2> QED BY <2>1, <2>2
<1>5. IsLoop(m)
  <2> HIDE DEF IsLoop
  <2> QED BY <1>4
<1>6. \A k \in 0..d : m[k] = IF k = 0 THEN l ELSE AddFolder(m[k - 1], P(k))
  <2> HIDE DEF m
  <2> QED BY <1>5
<1>7. LoadEntry(l, e) = Append(m[d], e)
  BY DEF LoadEntry, P
<1> HIDE DEF m, IsLoop, g, d
<1>8. m[0] \in K[0]
  <2>1. m[0] = l /\ 0 \in 0..d /\ {P(j) : j \in 1..0} = {}
    BY <1>1, <1>6
  <2>2. K[0] = Adding(l, {})
    BY <2>1
  <2> QED BY <2>1, <2>2 DEF Adding
<1>9. ASSUME NEW k \in 1..d, m[k - 1] \in K[k - 1]
      PROVE  m[k] \in K[k]
  <2>1. k \in 0..d /\ k - 1 \in 0..d /\ k # 0 /\ 1..k = (1..(k - 1)) \cup {k}
    BY <1>1
  <2>2. m[k] = AddFolder(m[k - 1], P(k)) /\ m[k - 1] \in Adding(l, {P(j) : j \in 1..(k - 1)})
    BY <1>6, <1>9, <2>1
  <2>3. m[k] \in Adding(l, {P(j) : j \in 1..(k - 1)} \cup {P(k)})
    BY <1>2, <2>2, FolderAdds DEF Adding
  <2>4. {P(j) : j \in 1..k} = {P(j) : j \in 1..(k - 1)} \cup {P(k)}
    BY <2>1
  <2> QED BY <2>1, <2>3, <2>4
<1>10. m[d] \in K[d]
  <2> HIDE DEF K
  <2> QED BY <1>1, <1>8, <1>9, Looped
<1>11. FoldersOf(e.name) = {P(j) : j \in 1..d} /\ K[d] = Adding(l, {P(j) : j \in 1..d})
  BY <1>1 DEF FoldersOf, P, d
<1>12. m[d] \in Adding(l, FoldersOf(e.name))
  BY <1>10, <1>11
<1> QED BY <1>7, <1>12, NamesAppend, ClosedAppend DEF Adding

(* Loading gives the names that are in the file and the folders they are   *)
(* in, each after its own folders                                          *)
LEMMA AllAdds ==
  ASSUME NEW f \in Seq(Entry)
  PROVE  /\ LoadAll(f) \in Seq(Entry) /\ Closed(LoadAll(f))
         /\ NamesIn(LoadAll(f)) = WithFolders(NamesIn(f))
<1> DEFINE d == Len(f)
           g == [k \in 1..d |-> [x \in Seq(Entry) |-> LoadEntry(x, f[k])]]
           IsLoop(v) == v = [k \in 0..d |-> IF k = 0 THEN <<>> ELSE LoadEntry(v[k - 1], f[k])]
           m == CHOOSE v : IsLoop(v)
           N(k) == {f[j].name : j \in 1..k}
           K == [k \in 0..d |->
                   {x \in Seq(Entry) : Closed(x) /\ NamesIn(x) = WithFolders(N(k))}]
<1>1. d \in Nat /\ <<>> \in Seq(Entry) /\ \A k \in 1..d : f[k] \in Entry
  OBVIOUS
<1>2. \A k \in 1..d : \A x \in Seq(Entry) :
        LoadEntry(x, f[k]) \in Adding(x, FoldersOf(f[k].name) \cup {f[k].name})
  BY <1>1, EntryAdds
<1>3. PICK u : Runs(u, d, Seq(Entry), <<>>, g)
  <2>1. g \in [1..d -> [Seq(Entry) -> Seq(Entry)]]
    BY <1>2 DEF Adding
  <2> HIDE DEF g, d
  <2> QED BY <1>1, <2>1, Iterated
<1>4. IsLoop(u)
  <2>1. ASSUME NEW k \in 0..d
        PROVE  u[k] = IF k = 0 THEN <<>> ELSE LoadEntry(u[k - 1], f[k])
    <3>1. CASE k # 0
      <4>1. k \in 1..d /\ k - 1 \in 0..d
        BY <1>1, <3>1
      <4>2. u[k] = g[k][u[k - 1]] /\ u[k - 1] \in Seq(Entry)
        BY <1>3, <4>1 DEF Runs
      <4> QED BY <3>1, <4>1, <4>2
    <3> QED BY <1>3, <3>1 DEF Runs
  <2>2. u = [k \in 0..d |-> u[k]]
    BY <1>3 DEF Runs
  <2> QED BY <2>1, <2>2
<1>5. IsLoop(m)
  <2> HIDE DEF IsLoop
  <2> QED BY <1>4
<1>6. \A k \in 0..d : m[k] = IF k = 0 THEN <<>> ELSE LoadEntry(m[k - 1], f[k])
  <2> HIDE DEF m
  <2> QED BY <1>5
<1>7. LoadAll(f) = m[d]
  BY DEF LoadAll
<1> HIDE DEF m, IsLoop, g, d
<1>8. m[0] \in K[0]
  <2>1. 0 \in 0..d /\ N(0) = {}
    BY <1>1
  <2> HIDE DEF N
  <2>2. m[0] = <<>>
    BY <1>6, <2>1
  <2>3. Closed(<<>>) /\ NamesIn(<<>>) = {} /\ WithFolders({}) = {}
    BY EmptyList
  <2> QED BY <1>1, <2>1, <2>2, <2>3
<1>9. ASSUME NEW k \in 1..d, m[k - 1] \in K[k - 1]
      PROVE  m[k] \in K[k]
  <2>1. k \in 0..d /\ k - 1 \in 0..d /\ k # 0 /\ 1..k = (1..(k - 1)) \cup {k}
    BY <1>1
  <2>2. N(k) = N(k - 1) \cup {f[k].name}
    BY <2>1
  <2> HIDE DEF N
  <2>3. /\ m[k - 1] \in Seq(Entry) /\ Closed(m[k - 1])
        /\ NamesIn(m[k - 1]) = WithFolders(N(k - 1))
    BY <1>9, <2>1
  <2>4. m[k] \in Adding(m[k - 1], FoldersOf(f[k].name) \cup {f[k].name})
    BY <1>2, <1>6, <2>1, <2>3
  <2>5. WithFolders(N(k)) = WithFolders(N(k - 1)) \cup FoldersOf(f[k].name) \cup {f[k].name}
    BY <2>2 DEF WithFolders
  <2> QED BY <2>1, <2>3, <2>4, <2>5 DEF Adding
<1>10. m[d] \in K[d]
  <2> HIDE DEF K
  <2> QED BY <1>1, <1>8, <1>9, Looped
<1>11. N(d) = NamesIn(f)
  BY DEF NamesIn, d
<1> HIDE DEF N
<1>12. d \in 0..d
  BY <1>1
<1> QED BY <1>7, <1>10, <1>11, <1>12

(* Storing writes every name *)
LEMMA LinesKeep ==
  ASSUME NEW l \in Seq(Entry)
  PROVE  Lines(l) \in Seq(Entry) /\ NamesIn(Lines(l)) = NamesIn(l)
<1> DEFINE d == Len(l)
           g == [k \in 1..d |-> [x \in Seq(Entry) |-> StoreEntry(x, l[k])]]
           IsLoop(v) == v = [k \in 0..d |-> IF k = 0 THEN <<>> ELSE StoreEntry(v[k - 1], l[k])]
           m == CHOOSE v : IsLoop(v)
           N(k) == {l[j].name : j \in 1..k}
           K == [k \in 0..d |-> {x \in Seq(Entry) : NamesIn(x) = N(k)}]
<1>1. d \in Nat /\ <<>> \in Seq(Entry) /\ \A k \in 1..d : l[k] \in Entry
  OBVIOUS
<1>2. \A k \in 1..d : \A x \in Seq(Entry) :
        /\ StoreEntry(x, l[k]) \in Seq(Entry)
        /\ NamesIn(StoreEntry(x, l[k])) = NamesIn(x) \cup {l[k].name}
  BY <1>1, NamesAppend DEF StoreEntry
<1>3. PICK u : Runs(u, d, Seq(Entry), <<>>, g)
  <2>1. g \in [1..d -> [Seq(Entry) -> Seq(Entry)]]
    BY <1>2
  <2> HIDE DEF g, d
  <2> QED BY <1>1, <2>1, Iterated
<1>4. IsLoop(u)
  <2>1. ASSUME NEW k \in 0..d
        PROVE  u[k] = IF k = 0 THEN <<>> ELSE StoreEntry(u[k - 1], l[k])
    <3>1. CASE k # 0
      <4>1. k \in 1..d /\ k - 1 \in 0..d
        BY <1>1, <3>1
      <4>2. u[k] = g[k][u[k - 1]] /\ u[k - 1] \in Seq(Entry)
        BY <1>3, <4>1 DEF Runs
      <4> QED BY <3>1, <4>1, <4>2
    <3> QED BY <1>3, <3>1 DEF Runs
  <2>2. u = [k \in 0..d |-> u[k]]
    BY <1>3 DEF Runs
  <2> QED BY <2>1, <2>2
<1>5. IsLoop(m)
  <2> HIDE DEF IsLoop
  <2> QED BY <1>4
<1>6. \A k \in 0..d : m[k] = IF k = 0 THEN <<>> ELSE StoreEntry(m[k - 1], l[k])
  <2> HIDE DEF m
  <2> QED BY <1>5
<1>7. Lines(l) = m[d]
  BY DEF Lines
<1> HIDE DEF m, IsLoop, g, d
<1>8. m[0] \in K[0]
  <2>1. m[0] = <<>> /\ 0 \in 0..d /\ N(0) = {} /\ NamesIn(<<>>) = {}
    BY <1>1, <1>6 DEF NamesIn
  <2> HIDE DEF N
  <2> QED BY <1>1, <2>1
<1>9. ASSUME NEW k \in 1..d, m[k - 1] \in K[k - 1]
      PROVE  m[k] \in K[k]
  <2>1. k \in 0..d /\ k - 1 \in 0..d /\ k # 0 /\ 1..k = (1..(k - 1)) \cup {k}
    BY <1>1
  <2>2. N(k) = N(k - 1) \cup {l[k].name}
    BY <2>1
  <2> HIDE DEF N
  <2>3. m[k - 1] \in Seq(Entry) /\ NamesIn(m[k - 1]) = N(k - 1)
    BY <1>9, <2>1
  <2> QED BY <1>2, <1>6, <2>1, <2>2, <2>3
<1>10. m[d] \in K[d]
  <2> HIDE DEF K
  <2> QED BY <1>1, <1>8, <1>9, Looped
<1>11. N(d) = NamesIn(l)
  BY DEF NamesIn, d
<1> HIDE DEF N
<1>12. d \in 0..d
  BY <1>1
<1> QED BY <1>7, <1>10, <1>11, <1>12

LEMMA LoadAdds ==
  ASSUME NoneAssumption, NEW f, f = None \/ f \in Seq(Entry)
  PROVE  /\ Load(f) \in Seq(Entry) /\ Closed(Load(f))
         /\ NamesIn(Load(f)) = WithFolders(NamesOn(f))
         /\ NamesOn(f) \subseteq Name
<1>1. CASE f = None
  <2>1. Load(f) = <<>> /\ NamesOn(f) = {}
    BY <1>1 DEF Load, NamesOn
  <2>2. Closed(<<>>) /\ NamesIn(<<>>) = {} /\ WithFolders({}) = {}
    BY EmptyList
  <2>3. <<>> \in Seq(Entry)
    OBVIOUS
  <2>4. Closed(Load(f)) /\ NamesIn(Load(f)) = {} /\ WithFolders(NamesOn(f)) = {}
    BY <2>1, <2>2
  <2> QED BY <2>1, <2>3, <2>4
<1>2. CASE f # None
  BY <1>2, AllAdds, NamesTyped DEF Load, NamesOn
<1> QED BY <1>1, <1>2

-----------------------------------------------------------------------------
(* What the operations do to the list *)
LEMMA FirstIs ==
  ASSUME list \in Seq(Entry), NEW n \in NamesIn(list)
  PROVE  /\ FirstOf(n) \in DOMAIN list /\ list[FirstOf(n)].name = n
         /\ \A j \in DOMAIN list : list[j].name = n => FirstOf(n) <= j
<1> DEFINE S == {i \in DOMAIN list : list[i].name = n}
<1>1. S \in SUBSET Nat /\ S # {}
  BY DEF NamesIn
<1>2. \E i \in S : \A j \in S : i <= j
  <2> HIDE DEF S
  <2> QED BY <1>1, LeastOf
<1>3. \E i \in DOMAIN list :
        list[i].name = n /\ \A j \in DOMAIN list : list[j].name = n => i <= j
  BY <1>2
<1> QED BY <1>3 DEF FirstOf

(* A child of the folder that is shown *)
LEMMA ChildIs ==
  ASSUME Typed, NEW label \in Labels
  PROVE  /\ current \in Seq(Labels) /\ Child(label) \in Name
         /\ Len(Child(label)) = Len(current) + 1
<1>1. current \in Seq(Labels)
  <2>1. CASE current = <<>>
    BY <2>1
  <2>2. CASE current # <<>>
    <3>1. current \in Name
      BY <2>2, NamesTyped DEF Typed
    <3> QED BY <3>1, NameIs
  <2> QED BY <2>1, <2>2
<1>2. PICK n : n = Append(current, label)
  OBVIOUS
<1>3. n \in Seq(Labels) /\ Len(n) = Len(current) + 1 /\ Len(current) \in Nat
  BY <1>1, <1>2
<1>4. n \in Name
  BY <1>3, NameIs
<1> QED BY <1>1, <1>2, <1>3, <1>4 DEF Child

(* The name remains only if it was there twice *)
LEMMA WithoutOne ==
  ASSUME list \in Seq(Entry), NEW label, Child(label) \in NamesIn(list)
  PROVE  /\ WithoutEntry(label) \in Seq(Entry)
         /\ NamesIn(list) \ {Child(label)} \subseteq NamesIn(WithoutEntry(label))
         /\ NamesIn(WithoutEntry(label)) \subseteq (NamesIn(list) \ {Child(label)}) \cup Twice(list)
<1>1. PICK n, i : n = Child(label) /\ i = FirstOf(n)
  OBVIOUS
<1>2. /\ i \in 1..Len(list) /\ Len(list) \in Nat /\ list[i].name = n
      /\ \A j \in DOMAIN list : list[j].name = n => i <= j
  BY <1>1, FirstIs
<1>3. PICK s, t : s = SubSeq(list, 1, i - 1) /\ t = SubSeq(list, i + 1, Len(list))
  OBVIOUS
<1>4. WithoutEntry(label) = s \o t
  BY <1>1, <1>3 DEF WithoutEntry, RemoveAt
<1>5. /\ s \in Seq(Entry) /\ Len(s) = i - 1 /\ \A k \in 1..(i - 1) : s[k] = list[k]
      /\ t \in Seq(Entry) /\ Len(t) = Len(list) - i
      /\ \A k \in 1..(Len(list) - i) : t[k] = list[i + k]
  <2>1. /\ i \in Int /\ i - 1 \in Int /\ i + 1 \in Int /\ Len(list) \in Int
        /\ \A k \in 1..(i - 1) : list[k] \in Entry
        /\ \A k \in (i + 1)..Len(list) : list[k] \in Entry
    BY <1>2
  <2> HIDE DEF Entry
  <2>2. /\ s \in Seq(Entry) /\ Len(s) = IF 1 <= i - 1 THEN i - 1 - 1 + 1 ELSE 0
        /\ \A k \in 1..(i - 1 - 1 + 1) : s[k] = list[1 + k - 1]
    BY <1>3, <2>1, SubSeqProperties
  <2>3. /\ t \in Seq(Entry)
        /\ Len(t) = IF i + 1 <= Len(list) THEN Len(list) - (i + 1) + 1 ELSE 0
        /\ \A k \in 1..(Len(list) - (i + 1) + 1) : t[k] = list[i + 1 + k - 1]
    BY <1>3, <2>1, SubSeqProperties
  <2> QED BY <1>2, <2>2, <2>3
<1>6. /\ s \o t \in Seq(Entry)
      /\ NamesIn(s \o t) = NamesIn(s) \cup NamesIn(t)
  BY <1>5, NamesConcat
<1>7. NamesIn(s) = {list[k].name : k \in 1..(i - 1)}
  <2>1. DOMAIN s = 1..(i - 1)
    BY <1>2, <1>5
  <2> QED BY <1>5, <2>1 DEF NamesIn
<1>8. NamesIn(t) = {list[k].name : k \in (i + 1)..Len(list)}
  <2>1. DOMAIN t = 1..(Len(list) - i)
    BY <1>5
  <2>2. \A k \in (i + 1)..Len(list) : k - i \in DOMAIN t /\ t[k - i] = list[k]
    BY <1>2, <1>5
  <2>3. \A k \in DOMAIN t : i + k \in (i + 1)..Len(list) /\ t[k] = list[i + k]
    BY <1>2, <1>5, <2>1
  <2> QED BY <2>2, <2>3 DEF NamesIn
<1>9. NamesIn(list) \ {n} \subseteq NamesIn(s) \cup NamesIn(t)
  <2>1. ASSUME NEW k \in DOMAIN list, list[k].name # n
        PROVE  k \in 1..(i - 1) \/ k \in (i + 1)..Len(list)
    BY <1>2, <2>1
  <2> QED BY <1>7, <1>8, <2>1 DEF NamesIn
<1>10. ASSUME NEW k \in (1..(i - 1)) \cup ((i + 1)..Len(list))
       PROVE  list[k].name \in (NamesIn(list) \ {n}) \cup Twice(list)
  <2>1. k \in DOMAIN list
    BY <1>2
  <2>2. CASE list[k].name # n
    BY <2>1, <2>2 DEF NamesIn
  <2>3. CASE list[k].name = n
    <3>1. i <= k
      BY <1>2, <2>1, <2>3
    <3>2. i \in 1..(k - 1) /\ list[i].name = list[k].name
      BY <1>2, <1>10, <2>3, <3>1
    <3> QED BY <2>1, <3>2 DEF Twice
  <2> QED BY <2>2, <2>3
<1>11. NamesIn(s) \cup NamesIn(t) \subseteq (NamesIn(list) \ {n}) \cup Twice(list)
  BY <1>7, <1>8, <1>10
<1> QED BY <1>1, <1>4, <1>6, <1>9, <1>11

(* The names that go when n becomes m, and what becomes of them *)
Moved(n) == {n} \cup {list[i].name : i \in Below(list, n)}
Moves(n, m, x) == m \o SubSeq(x, Len(n) + 1, Len(x))

LEMMA MovesTyped ==
  ASSUME list \in Seq(Entry), NEW n \in Name, NEW m \in Name,
         Len(n) = Len(m), NEW x \in Moved(n)
  PROVE  x \in Name /\ Len(x) >= Len(n) /\ Moves(n, m, x) \in Name
<1>1. n \in Seq(Labels) /\ m \in Seq(Labels) /\ Len(n) \in Nat \ {0}
  BY NameIs
<1>2. x \in Name /\ Len(x) >= Len(n)
  <2>1. CASE x = n
    BY <1>1, <2>1
  <2>2. CASE x # n
    <3>1. PICK i \in DOMAIN list : i \in Below(list, n) /\ x = list[i].name
      BY <2>2 DEF Moved, Below
    <3>2. x \in NamesIn(list)
      BY <3>1 DEF NamesIn
    <3>3. x \in Name
      BY <3>2, NamesTyped
    <3>4. x \in Seq(Labels) /\ Len(n) <= Len(x)
      BY <3>1, <3>3, NameIs DEF Below, IsStrictPrefix, IsPrefix
    <3> QED BY <1>1, <3>3, <3>4
  <2> QED BY <2>1, <2>2
<1>3. x \in Seq(Labels) /\ Len(x) \in Nat
  BY <1>2, NameIs
<1>4. PICK t : t = SubSeq(x, Len(n) + 1, Len(x))
  OBVIOUS
<1>5. t \in Seq(Labels)
  <2>1. /\ Len(n) + 1 \in Int /\ Len(x) \in Int
        /\ \A i \in (Len(n) + 1)..Len(x) : x[i] \in Labels
    BY <1>1, <1>3
  <2> QED BY <1>4, <2>1, SubSeqProperties
<1>6. m \o t \in Seq(Labels) /\ Len(m \o t) = Len(m) + Len(t) /\ Len(t) \in Nat
  BY <1>1, <1>5, ConcatProperties
<1>7. PICK y : y = m \o t
  OBVIOUS
<1>8. y \in Seq(Labels) /\ Len(y) >= 1
  BY <1>1, <1>6, <1>7
<1>9. y \in Name
  BY <1>8, NameIs
<1> QED BY <1>2, <1>4, <1>7, <1>9 DEF Moves

LEMMA RenamedAll ==
  ASSUME list \in Seq(Entry), NEW n \in Name, NEW m \in Name,
         Len(n) = Len(m), n \in NamesIn(list)
  PROVE  LET adds == {Moves(n, m, x) : x \in Moved(n)}
         IN /\ Renamed(n, m) \in Seq(Entry)
            /\ adds \subseteq NamesIn(Renamed(n, m))
            /\ NamesIn(list) \ Moved(n) \subseteq NamesIn(Renamed(n, m))
            /\ NamesIn(Renamed(n, m)) \subseteq
                 (NamesIn(list) \ Moved(n)) \cup adds \cup Twice(list)
<1> DEFINE adds == {Moves(n, m, x) : x \in Moved(n)}
           l == Renamed(n, m)
           there(i) == i = FirstOf(n) \/ i \in Below(list, n)
           new(i) == [list[i] EXCEPT !.name = m \o SubSeq(@, Len(n) + 1, Len(@))]
<1>1. /\ FirstOf(n) \in DOMAIN list /\ list[FirstOf(n)].name = n
      /\ \A j \in DOMAIN list : list[j].name = n => FirstOf(n) <= j
  BY FirstIs
<1>2. l = [i \in DOMAIN list |-> IF there(i) THEN new(i) ELSE list[i]]
  BY DEF Renamed
<1>3. \A i \in DOMAIN list : list[i] \in Entry
  OBVIOUS
<1>4. \A i \in DOMAIN list : there(i) => list[i].name \in Moved(n)
  BY <1>1 DEF Moved
<1>5. \A i \in DOMAIN list : new(i).name = Moves(n, m, list[i].name)
  <2>1. ASSUME NEW e \in Entry, NEW x
        PROVE  [e EXCEPT !.name = x].name = x
    BY DEF Entry
  <2>2. ASSUME NEW i \in DOMAIN list
        PROVE  new(i) = [list[i] EXCEPT !.name = Moves(n, m, list[i].name)]
    BY DEF Moves
  <2> QED BY <1>3, <2>1, <2>2
<1>6. \A i \in DOMAIN list : there(i) => new(i) \in Entry
  <2>1. ASSUME NEW e \in Entry, NEW x \in Name
        PROVE  [e EXCEPT !.name = x] \in Entry
    BY DEF Entry
  <2>2. ASSUME NEW i \in DOMAIN list
        PROVE  new(i) = [list[i] EXCEPT !.name = Moves(n, m, list[i].name)]
    BY DEF Moves
  <2> HIDE DEF new, there
  <2> QED BY <1>3, <1>4, <2>1, <2>2, MovesTyped
<1> HIDE DEF there, new, l
<1>7. DOMAIN l = DOMAIN list /\ DOMAIN list = 1..Len(list) /\ Len(list) \in Nat
  BY <1>2
<1>8. l \in Seq(Entry)
  <2>1. l \in [1..Len(list) -> Entry]
    BY <1>2, <1>3, <1>6, <1>7
  <2> QED BY <1>7, <2>1
<1>9. ASSUME NEW i \in DOMAIN list, there(i)
      PROVE  l[i].name = Moves(n, m, list[i].name)
  BY <1>2, <1>5, <1>9
<1>10. ASSUME NEW i \in DOMAIN list, ~there(i)
       PROVE  l[i].name = list[i].name
  BY <1>2, <1>10
<1>11. ASSUME NEW x \in Moved(n) PROVE Moves(n, m, x) \in NamesIn(l)
  <2>1. PICK i \in DOMAIN list : there(i) /\ x = list[i].name
    BY <1>1 DEF Moved, Below, there
  <2> QED BY <1>7, <1>9, <2>1 DEF NamesIn
<1>12. ASSUME NEW i \in DOMAIN list, list[i].name \notin Moved(n)
       PROVE  list[i].name \in NamesIn(l)
  <2>1. ~there(i)
    BY <1>4, <1>12
  <2> QED BY <1>7, <1>10, <2>1 DEF NamesIn
<1>13. ASSUME NEW i \in DOMAIN list
       PROVE  l[i].name \in (NamesIn(list) \ Moved(n)) \cup adds \cup Twice(list)
  <2>1. CASE there(i)
    BY <1>4, <1>9, <2>1
  <2>2. CASE ~there(i) /\ list[i].name \notin Moved(n)
    BY <1>10, <2>2 DEF NamesIn
  <2>3. CASE ~there(i) /\ list[i].name \in Moved(n)
    <3>1. list[i].name = n
      BY <2>3 DEF Moved, Below, there
    <3>2. FirstOf(n) # i /\ FirstOf(n) <= i
      BY <1>1, <2>3, <3>1 DEF there
    <3>3. FirstOf(n) \in 1..(i - 1)
      BY <1>1, <1>7, <3>2
    <3>4. list[i].name \in Twice(list)
      BY <1>1, <3>1, <3>3 DEF Twice
    <3> QED BY <1>10, <2>3, <3>4
  <2> QED BY <2>1, <2>2, <2>3
<1>14. NamesIn(l) \subseteq (NamesIn(list) \ Moved(n)) \cup adds \cup Twice(list)
  BY <1>7, <1>13 DEF NamesIn
<1>15. adds \subseteq NamesIn(l)
  BY <1>11
<1>16. NamesIn(list) \ Moved(n) \subseteq NamesIn(l)
  BY <1>12 DEF NamesIn
<1> QED BY <1>8, <1>14, <1>15, <1>16 DEF l

-----------------------------------------------------------------------------
(* The steps.  What the files hold, in terms of names *)
LEMMA FilesNames ==
  ASSUME NoneAssumption, Typed
  PROVE  /\ Load(file) \in Seq(Entry) /\ Closed(Load(file))
         /\ NamesIn(Load(file)) = WithFolders(NamesOn(file)) /\ NamesOn(file) \subseteq Name
         /\ Load(work) \in Seq(Entry) /\ Closed(Load(work))
         /\ NamesIn(Load(work)) = WithFolders(NamesOn(work)) /\ NamesOn(work) \subseteq Name
BY LoadAdds DEF Typed

LEMMA ChangeKeeps ==
  ASSUME NoneAssumption, Inv, pc = "idle",
         NEW l \in Seq(Entry), NEW adds \in SUBSET Name, NEW takes \in SUBSET Name,
         NEW twice \in BOOLEAN, Change(l, adds, takes, twice),
         clipboard' = None \/ clipboard' \in [label : Labels, c : Coord \cup {Folder},
                                              children : BOOLEAN],
         current = <<>> \/ current \in NamesIn(l),
         adds \subseteq NamesIn(l), NamesIn(list) \ takes \subseteq NamesIn(l),
         NamesIn(l) \subseteq (NamesIn(list) \ takes) \cup adds \cup Twice(list)
  PROVE  Inv'
<1>1. /\ list' = l /\ pc' = "store" /\ asked'.adds = adds /\ asked'.takes = takes
      /\ asked' \in [adds : SUBSET Name, takes : SUBSET Name, twice : BOOLEAN]
      /\ work' = IF work = None THEN <<>> ELSE work
      /\ UNCHANGED <<file, part, current, names, stray, swallowed, kills>>
  BY DEF Change, ghosts
<1>2. /\ Typed /\ asked.takes = {} /\ list = Load(file) /\ NamesIn(list) \subseteq names
      /\ names \subseteq NamesIn(Load(IF file = None THEN work ELSE file))
                       \cup IF file = None THEN WithFolders(swallowed) ELSE {}
      /\ Twice(list) \subseteq stray /\ NamesOn(work) \subseteq stray
      /\ part # None => part.name \in stray
      /\ Counted(swallowed, part, kills)
  BY DEF Inv, Nothing, Kept
<1>3. work' \in Seq(Entry) /\ NamesOn(work') = NamesOn(work)
  <2>1. <<>> \in Seq(Entry) /\ NamesIn(<<>>) = {}
    BY EmptyList
  <2>2. <<>> # None
    BY <2>1 DEF NoneAssumption
  <2> QED BY <1>1, <1>2, <2>1, <2>2 DEF NamesOn, Typed
<1>4. Typed'
  BY <1>1, <1>2, <1>3 DEF Typed
<1>5. Kept' = names \ takes /\ Wanted' = (names \ takes) \cup adds
  BY <1>1 DEF Kept, Wanted
<1>6. NamesIn(Load(work')) = NamesIn(Load(work))
  BY <1>2, <1>3, LoadAdds DEF Typed
<1>7. Kept' \subseteq NamesIn(Load(IF file' = None THEN work' ELSE file'))
                    \cup IF file' = None THEN WithFolders(swallowed') ELSE {}
  BY <1>1, <1>2, <1>5, <1>6
<1>8. NamesIn(list') \subseteq Wanted' \cup stray'
  BY <1>1, <1>2, <1>5
<1>9. file' # None => Kept' \subseteq NamesIn(list')
  BY <1>1, <1>2, <1>5
<1>10. /\ Twice(Load(file')) \subseteq stray' /\ NamesOn(work') \subseteq stray'
       /\ part' # None => part'.name \in stray'
       /\ Counted(swallowed', part', kills')
  BY <1>1, <1>2, <1>3
<1> QED BY <1>1, <1>4, <1>7, <1>8, <1>9, <1>10 DEF Inv

LEMMA AddKeeps ==
  ASSUME NoneAssumption, Inv, pc = "idle",
         NEW label \in Labels, NEW c \in Coord \cup {Folder}, NEW twice \in BOOLEAN,
         UNCHANGED clipboard,
         Change(Append(list, [name |-> Child(label), c |-> c]), {Child(label)}, {}, twice)
  PROVE  Inv'
<1>1. PICK e : e = [name |-> Child(label), c |-> c]
  OBVIOUS
<1>2. Typed /\ list \in Seq(Entry)
  BY DEF Inv, Typed
<1>3. Child(label) \in Name
  BY <1>2, ChildIs
<1>4. e \in Entry /\ e.name = Child(label)
  BY <1>1, <1>3 DEF Entry
<1>5. /\ Append(list, e) \in Seq(Entry)
      /\ NamesIn(Append(list, e)) = NamesIn(list) \cup {Child(label)}
  BY <1>2, <1>4, NamesAppend
<1>6. PICK l : l = Append(list, e)
  OBVIOUS
<1>7. Change(l, {Child(label)}, {}, twice)
  BY <1>1, <1>6
<1>8. current = <<>> \/ current \in NamesIn(l)
  BY <1>2, <1>5, <1>6 DEF Typed
<1>9. clipboard' = None \/ clipboard' \in [label : Labels, c : Coord \cup {Folder},
                                           children : BOOLEAN]
  BY <1>2 DEF Typed
<1>10. PICK adds : adds = {Child(label)}
  OBVIOUS
<1>11. /\ l \in Seq(Entry) /\ adds \subseteq NamesIn(l) /\ adds \in SUBSET Name
       /\ {} \in SUBSET Name /\ NamesIn(list) \ {} \subseteq NamesIn(l)
       /\ NamesIn(l) \subseteq (NamesIn(list) \ {}) \cup adds \cup Twice(list)
  BY <1>3, <1>5, <1>6, <1>10
<1>12. Change(l, adds, {}, twice)
  BY <1>7, <1>10
<1> QED BY <1>8, <1>9, <1>11, <1>12, ChangeKeeps

(* The clipboard *)
LEMMA CopyTyped ==
  ASSUME list \in Seq(Entry), NEW label \in Labels, Child(label) \in NamesIn(list)
  PROVE  CopyOf(label) \in [label : Labels, c : Coord \cup {Folder}, children : BOOLEAN]
<1>1. FirstOf(Child(label)) \in DOMAIN list
  BY FirstIs
<1>2. list[FirstOf(Child(label))] \in Entry
  BY <1>1
<1>3. list[FirstOf(Child(label))].c \in Coord \cup {Folder}
  BY <1>2 DEF Entry
<1> QED BY <1>3 DEF CopyOf

LEMMA RemoveKeeps ==
  ASSUME NoneAssumption, Inv, pc = "idle",
         NEW label \in Labels, Child(label) \in NamesIn(list),
         clipboard' \in {clipboard, CopyOf(label)},
         Change(WithoutEntry(label), {}, {Child(label)}, FALSE)
  PROVE  Inv'
<1>1. Typed /\ list \in Seq(Entry)
  BY DEF Inv, Typed
<1>2. PICK l : l = WithoutEntry(label)
  OBVIOUS
<1>3. /\ l \in Seq(Entry) /\ NamesIn(list) \ {Child(label)} \subseteq NamesIn(l)
      /\ NamesIn(l) \subseteq (NamesIn(list) \ {Child(label)}) \cup Twice(list)
  BY <1>1, <1>2, WithoutOne
<1>4. Child(label) \in Name /\ current # Child(label)
  <2>1. /\ current \in Seq(Labels) /\ Child(label) \in Name
        /\ Len(Child(label)) = Len(current) + 1
    BY <1>1, ChildIs
  <2> QED BY <2>1
<1>5. current = <<>> \/ current \in NamesIn(l)
  BY <1>1, <1>3, <1>4 DEF Typed
<1>6. clipboard' = None \/ clipboard' \in [label : Labels, c : Coord \cup {Folder},
                                           children : BOOLEAN]
  BY <1>1, CopyTyped DEF Typed
<1>7. Change(l, {}, {Child(label)}, FALSE)
  BY <1>2
<1>8. {Child(label)} \in SUBSET Name /\ {} \in SUBSET Name /\ FALSE \in BOOLEAN
  BY <1>4
<1> QED BY <1>3, <1>5, <1>6, <1>7, <1>8, ChangeKeeps

LEMMA RenameKeeps ==
  ASSUME NoneAssumption, Inv,
         NEW old \in Labels, NEW new \in Label, RenameBookmark(old, new)
  PROVE  Inv'
<1>1. Typed /\ list \in Seq(Entry) /\ pc = "idle" /\ Child(old) \in NamesIn(list)
  BY DEF Inv, Typed, RenameBookmark
<1>2. PICK n, m : n = Child(old) /\ m = Child(new)
  OBVIOUS
<1>3. /\ current \in Seq(Labels) /\ n \in Name /\ m \in Name
      /\ Len(n) = Len(current) + 1 /\ Len(m) = Len(n)
  BY <1>1, <1>2, ChildIs DEF Labels
<1>4. PICK l, adds, takes : /\ l = Renamed(n, m) /\ takes = Moved(n)
                            /\ adds = {Moves(n, m, x) : x \in Moved(n)}
  OBVIOUS
<1>5. /\ l \in Seq(Entry) /\ adds \subseteq NamesIn(l)
      /\ NamesIn(list) \ takes \subseteq NamesIn(l)
      /\ NamesIn(l) \subseteq (NamesIn(list) \ takes) \cup adds \cup Twice(list)
  BY <1>1, <1>2, <1>3, <1>4, RenamedAll
<1>6. /\ takes \subseteq Name /\ adds \subseteq Name
      /\ \A x \in takes : Len(x) >= Len(n)
  BY <1>1, <1>3, <1>4, MovesTyped
<1>7. current \notin takes
  <2>1. Len(current) \in Nat /\ ~(Len(current) >= Len(n))
    BY <1>3
  <2> QED BY <1>6, <2>1
<1>8. current = <<>> \/ current \in NamesIn(l)
  BY <1>1, <1>5, <1>7 DEF Typed
<1>9. Change(l, adds, takes, FALSE) /\ UNCHANGED clipboard
  BY <1>2, <1>4 DEF RenameBookmark, Moved, Moves
<1>10. clipboard' = None \/ clipboard' \in [label : Labels, c : Coord \cup {Folder},
                                            children : BOOLEAN]
  BY <1>1, <1>9 DEF Typed
<1> QED BY <1>1, <1>5, <1>6, <1>8, <1>9, <1>10, ChangeKeeps

LEMMA MoveKeeps ==
  ASSUME NoneAssumption, Inv,
         MoveRoot \/ MoveUp \/ \E label \in Labels : MoveDown(label) \/ CopyBookmark(label)
  PROVE  Inv'
<1>1. Typed /\ list = Load(file) /\ pc = "idle" /\ list \in Seq(Entry)
  BY DEF Inv, Typed, MoveRoot, MoveUp, MoveDown, CopyBookmark
<1>2. /\ UNCHANGED <<file, work, part, list, asked, pc, names, stray, swallowed, kills>>
      /\ UNCHANGED current \/ UNCHANGED clipboard
  BY DEF MoveRoot, MoveUp, MoveDown, CopyBookmark, disk, ghosts
<1>3. current' = <<>> \/ current' \in NamesIn(list)
  <2>1. CASE MoveUp
    <3>1. current \in NamesIn(list) /\ current' = SubSeq(current, 1, Len(current) - 1)
      BY <1>1, <2>1 DEF MoveUp, Front, Typed
    <3>2. current \in Name /\ current \in Seq(Labels) /\ Len(current) \in Nat \ {0}
      BY <1>1, <3>1, NamesTyped, NameIs
    <3>3. CASE Len(current) = 1
      BY <3>1, <3>2, <3>3
    <3>4. CASE Len(current) # 1
      <4>1. Len(current) - 1 \in 1..(Len(current) - 1)
        <5>1. PICK d : d = Len(current)
          OBVIOUS
        <5>2. d \in Nat \ {0} /\ d # 1
          BY <3>2, <3>4, <5>1
        <5>3. d - 1 \in 1..(d - 1)
          BY <5>2
        <5> QED BY <5>1, <5>3
      <4>2. current' \in FoldersOf(current)
        BY <3>1, <4>1 DEF FoldersOf
      <4>3. current' \in WithFolders(NamesIn(list))
        BY <3>1, <4>2 DEF WithFolders
      <4>4. NamesIn(list) = WithFolders(NamesOn(file)) /\ NamesOn(file) \in SUBSET Name
        BY <1>1, FilesNames
      <4> QED BY <4>3, <4>4, FoldersAreThere
    <3> QED BY <3>3, <3>4
  <2>2. CASE ~MoveUp
    BY <1>1, <2>2 DEF MoveRoot, MoveDown, CopyBookmark, Typed
  <2> QED BY <2>1, <2>2
<1>4. clipboard' = None \/ clipboard' \in [label : Labels, c : Coord \cup {Folder},
                                           children : BOOLEAN]
  <2>1. CASE UNCHANGED clipboard
    BY <1>1, <2>1 DEF Typed
  <2>2. CASE ~UNCHANGED clipboard
    <3>1. PICK label \in Labels : CopyBookmark(label)
      BY <2>2 DEF MoveRoot, MoveUp, MoveDown
    <3> QED BY <1>1, <3>1, CopyTyped DEF CopyBookmark
  <2> QED BY <2>1, <2>2
<1>5. Typed'
  BY <1>1, <1>2, <1>3, <1>4 DEF Typed
<1> QED BY <1>2, <1>5 DEF Inv, Kept, Wanted

(* Names that may be read of lines that are appended to a part of one *)
LEMMA GarbledAre ==
  ASSUME NEW p \in Entry, NEW e \in Entry, NEW n \in GarbledNames(p, e)
  PROVE  n \in Garbles({p.name})
<1>1. PICK k \in 0..(Len(p.name) - 1), t \in {<<>>, Tail(e.name)} :
        n = SubSeq(p.name, 1, k) \o <<Garbled>> \o t
  <2>1. \E k \in 0..(Len(p.name) - 1), t \in {<<>>, Tail(e.name)} : n = Garble(p.name, k, t)
    BY DEF GarbledNames
  <2> QED BY <2>1 DEF Garble
<1>2. PICK q : q = p.name
  OBVIOUS
<1>3. q \in Name /\ q \in Seq(Labels) /\ Len(q) \in Nat /\ Len(q) >= 1
  BY <1>2, NameIs DEF Entry
<1>4. t \in Seq(Labels)
  <2>1. PICK r : r = e.name
    OBVIOUS
  <2>2. r \in Name
    BY <2>1 DEF Entry
  <2>3. r \in Seq(Labels) /\ Len(r) >= 1
    BY <2>2, NameIs
  <2>4. Tail(r) \in Seq(Labels)
    BY <2>3
  <2>5. t = <<>> \/ t = Tail(r)
    BY <1>1, <2>1
  <2>6. <<>> \in Seq(Labels)
    OBVIOUS
  <2> QED BY <2>4, <2>5, <2>6
<1>5. PICK s : s = SubSeq(q, 1, k)
  OBVIOUS
<1>6. s \in Seq(Labels) /\ Len(s) = k /\ \A j \in 1..k : s[j] = q[j]
  BY <1>1, <1>2, <1>3, <1>5
<1>7. PICK g : g = s \o <<Garbled>>
  OBVIOUS
<1>8. <<Garbled>> \in Seq(Labels) /\ Len(<<Garbled>>) = 1 /\ <<Garbled>>[1] = Garbled
  BY DEF Labels
<1>9. /\ g \in Seq(Labels) /\ Len(g) = k + 1 /\ g[k + 1] = Garbled
      /\ \A j \in 1..k : g[j] = q[j]
  BY <1>1, <1>6, <1>7, <1>8, ConcatProperties
<1>10. /\ n \in Seq(Labels) /\ Len(n) = k + 1 + Len(t) /\ n[k + 1] = Garbled
       /\ \A j \in 1..k : n[j] = q[j]
  <2>1. n = g \o t
    BY <1>1, <1>2, <1>5, <1>7
  <2>2. Len(t) \in Nat /\ k \in Nat
    BY <1>1, <1>4
  <2>3. /\ g \o t \in Seq(Labels) /\ Len(g \o t) = Len(g) + Len(t)
        /\ \A j \in 1..(Len(g) + Len(t)) :
             (g \o t)[j] = IF j <= Len(g) THEN g[j] ELSE t[j - Len(g)]
    BY <1>4, <1>9, ConcatProperties
  <2> QED BY <1>9, <2>1, <2>2, <2>3
<1>11. n \in Name /\ IsGarbled(n)
  <2>1. Len(n) >= 1 /\ k + 1 \in DOMAIN n
    BY <1>1, <1>4, <1>10
  <2> QED BY <1>10, <2>1, NameIs DEF IsGarbled, Range
<1>12. ASSUME NEW m \in FoldersOf(n)
       PROVE  IsGarbled(m) \/ m \in WithFolders({q})
  <2>1. PICK j \in 1..(Len(n) - 1) : m = SubSeq(n, 1, j)
    BY DEF FoldersOf
  <2>2. j \in Nat /\ j <= Len(n) /\ Len(n) \in Nat
    BY <1>10, <2>1
  <2>3. m \in Seq(Labels) /\ Len(m) = j /\ \A i \in 1..j : m[i] = n[i]
    BY <1>10, <2>1, <2>2
  <2>4. CASE j >= k + 1
    <3>1. k + 1 \in DOMAIN m /\ m[k + 1] = Garbled
      BY <1>1, <1>10, <2>2, <2>3, <2>4
    <3> QED BY <3>1 DEF IsGarbled, Range
  <2>5. CASE ~(j >= k + 1)
    <3>1. j \in 1..k /\ j \in 1..(Len(q) - 1)
      BY <1>1, <1>2, <1>3, <2>1, <2>2, <2>5
    <3>2. PICK r : r = SubSeq(q, 1, j)
      OBVIOUS
    <3>3. r \in Seq(Labels) /\ Len(r) = j /\ \A i \in 1..j : r[i] = q[i]
      BY <1>3, <3>1, <3>2
    <3>4. \A i \in 1..j : m[i] = r[i]
      BY <1>10, <2>3, <3>1, <3>3
    <3>5. m = r
      BY <2>3, <3>3, <3>4
    <3>6. m \in FoldersOf(q)
      BY <3>1, <3>2, <3>5 DEF FoldersOf
    <3> QED BY <3>6 DEF WithFolders
  <2> QED BY <2>2, <2>4, <2>5, <1>1
<1> QED BY <1>2, <1>11, <1>12 DEF Garbles

LEMMA JoinedIs ==
  ASSUME NEW p \in Entry, NEW e \in Entry, NEW j \in Joined(p, e)
  PROVE  /\ j \in Seq(Entry) /\ NamesIn(j) \subseteq {e.name} \cup Garbles({p.name})
         /\ j # <<>> => j[1] \in Entry
<1>1. CASE j = <<>>
  BY <1>1, EmptyList
<1>2. CASE j # <<>>
  <2>1. PICK n \in {e.name} \cup GarbledNames(p, e) : j = <<[name |-> n, c |-> p.c]>>
    BY <1>2 DEF Joined
  <2>2. n \in {e.name} \cup Garbles({p.name}) /\ n \in Name
    BY <2>1, GarbledAre DEF Garbles, Entry
  <2>3. PICK x : x = [name |-> n, c |-> p.c]
    OBVIOUS
  <2>4. x \in Entry /\ x.name = n
    BY <2>2, <2>3 DEF Entry
  <2>5. j = <<x>>
    BY <2>1, <2>3
  <2> HIDE DEF Entry
  <2>6. j \in Seq(Entry) /\ DOMAIN j = {1} /\ j[1] = x
    BY <2>4, <2>5
  <2> QED BY <2>2, <2>4, <2>6 DEF NamesIn
<1> QED BY <1>1, <1>2

(* Appending adds the names of the lines but for one that is swallowed,    *)
(* and garbled ones                                                        *)
LEMMA AppendedTells ==
  ASSUME work \in Seq(Entry), part \in Entry \cup {None}, NEW ls \in Seq(Entry),
         NEW w \in Appended(ls)
  PROVE  /\ w \in Seq(Entry)
         /\ NamesIn(work) \subseteq NamesIn(w)
         /\ NamesIn(ls) \subseteq NamesIn(w) \cup Swallows(ls)
         /\ NamesIn(w) \subseteq NamesIn(work) \cup NamesIn(ls)
                               \cup IF part = None THEN {} ELSE Garbles({part.name})
         /\ Swallows(ls) \subseteq Name
         /\ \/ Swallows(ls) = {}
            \/ part # None /\ ls # <<>> /\ \E x : Swallows(ls) = {x}
<1>1. CASE part = None \/ ls = <<>>
  <2>1. w = work \o ls /\ Swallows(ls) = {}
    BY <1>1 DEF Appended, Swallows
  <2> QED BY <2>1, NamesConcat
<1>2. CASE part # None /\ ls # <<>>
  <2>1. PICK j \in Joined(part, Head(ls)) : w = work \o j \o Tail(ls)
    BY <1>2 DEF Appended
  <2>2. part \in Entry /\ Head(ls) \in Entry /\ Tail(ls) \in Seq(Entry)
    BY <1>2
  <2>3. NamesIn(ls) = {Head(ls).name} \cup NamesIn(Tail(ls))
    <3> HIDE DEF Entry
    <3>1. /\ Len(ls) \in Nat /\ Len(ls) >= 1 /\ Head(ls) = ls[1]
          /\ Len(Tail(ls)) = Len(ls) - 1
          /\ \A i \in 1..(Len(ls) - 1) : Tail(ls)[i] = ls[i + 1]
      BY <1>2
    <3>2. DOMAIN ls = 1..Len(ls) /\ DOMAIN Tail(ls) = 1..(Len(ls) - 1)
      BY <2>2, <3>1
    <3>3. ASSUME NEW i \in DOMAIN ls
          PROVE  ls[i].name \in {Head(ls).name} \cup NamesIn(Tail(ls))
      <4>1. CASE i = 1
        BY <3>1, <4>1
      <4>2. CASE i # 1
        <5>1. i - 1 \in DOMAIN Tail(ls) /\ i - 1 + 1 = i /\ i - 1 \in 1..(Len(ls) - 1)
          BY <3>1, <3>2, <4>2
        <5>2. Tail(ls)[i - 1] = ls[i]
          BY <3>1, <5>1
        <5> QED BY <5>1, <5>2 DEF NamesIn
      <4> QED BY <4>1, <4>2
    <3>4. ASSUME NEW i \in DOMAIN Tail(ls)
          PROVE  Tail(ls)[i].name \in NamesIn(ls)
      <4>1. i + 1 \in DOMAIN ls /\ Tail(ls)[i] = ls[i + 1]
        BY <3>1, <3>2
      <4> QED BY <4>1 DEF NamesIn
    <3>5. Head(ls).name \in NamesIn(ls)
      <4>1. 1 \in DOMAIN ls
        BY <3>1, <3>2
      <4> QED BY <3>1, <4>1 DEF NamesIn
    <3> QED BY <3>3, <3>4, <3>5 DEF NamesIn
  <2>4. j \in Seq(Entry) /\ NamesIn(j) \subseteq {Head(ls).name} \cup Garbles({part.name})
    BY <2>1, <2>2, JoinedIs
  <2>5. /\ w \in Seq(Entry)
        /\ NamesIn(w) = NamesIn(work) \cup NamesIn(j) \cup NamesIn(Tail(ls))
    <3>1. PICK v : v = work \o j
      OBVIOUS
    <3>2. v \in Seq(Entry) /\ NamesIn(v) = NamesIn(work) \cup NamesIn(j)
      BY <2>4, <3>1, NamesConcat
    <3>3. w = v \o Tail(ls)
      BY <2>1, <3>1
    <3> QED BY <2>2, <3>2, <3>3, NamesConcat
  <2>6. Swallows(ls) = {Head(ls).name} /\ Head(ls).name \in Name
    BY <1>2, <2>2 DEF Swallows, Entry
  <2>7. \E x : Swallows(ls) = {x}
    BY <2>6
  <2> QED BY <1>2, <2>3, <2>4, <2>5, <2>6, <2>7
<1> QED BY <1>1, <1>2

(* What is on disk afterwards or swallowed, and what that has cost *)
LEMMA AppendedKeeps ==
  ASSUME NoneAssumption, work \in Seq(Entry), part \in Entry \cup {None},
         NEW ls \in Seq(Entry), NEW w \in Appended(ls),
         swallowed \subseteq Name, Counted(swallowed, part, kills), kills \in Nat,
         NEW s, s = (swallowed \cup Swallows(ls)) \ NamesIn(w)
  PROVE  /\ s \subseteq Name
         /\ NamesIn(Load(work)) \cup NamesIn(ls) \cup WithFolders(swallowed)
              \subseteq NamesIn(Load(w)) \cup WithFolders(s)
         /\ IsFiniteSet(s) /\ Cardinality(s) \in Nat /\ Cardinality(s) <= kills
         /\ ls = <<>> => Counted(s, part, kills)
<1>1. /\ w \in Seq(Entry) /\ NamesIn(work) \subseteq NamesIn(w)
      /\ NamesIn(ls) \subseteq NamesIn(w) \cup Swallows(ls) /\ Swallows(ls) \subseteq Name
      /\ \/ Swallows(ls) = {}
         \/ part # None /\ ls # <<>> /\ \E x : Swallows(ls) = {x}
  BY AppendedTells
<1>2. s \subseteq Name
  BY <1>1
<1>3. NamesIn(Load(work)) \cup NamesIn(ls) \cup WithFolders(swallowed)
        \subseteq NamesIn(Load(w)) \cup WithFolders(s)
  <2>1. /\ NamesIn(Load(work)) = WithFolders(NamesIn(work))
        /\ NamesIn(Load(w)) = WithFolders(NamesIn(w))
    BY <1>1, LoadAdds DEF NamesOn, NoneAssumption
  <2>2. NamesIn(work) \cup swallowed \cup NamesIn(ls) \subseteq NamesIn(w) \cup s
    BY <1>1
  <2>3. WithFolders(NamesIn(work) \cup swallowed) \subseteq WithFolders(NamesIn(w) \cup s)
    BY <2>2, WithFoldersGrows
  <2>4. NamesIn(ls) \subseteq WithFolders(NamesIn(w) \cup s)
    BY <2>2, WithFoldersGrows
  <2>5. /\ WithFolders(NamesIn(work) \cup swallowed)
             = WithFolders(NamesIn(work)) \cup WithFolders(swallowed)
        /\ WithFolders(NamesIn(w) \cup s) = WithFolders(NamesIn(w)) \cup WithFolders(s)
    BY FoldersOfTwo
  <2> QED BY <2>1, <2>3, <2>4, <2>5
<1>4. IsFiniteSet(swallowed) /\ Cardinality(swallowed) \in Nat
  BY FS_CardinalityType DEF Counted
<1>5. CASE Swallows(ls) = {}
  <2>1. s \subseteq swallowed
    BY <1>5
  <2>2. /\ IsFiniteSet(s) /\ Cardinality(s) \in Nat
        /\ Cardinality(s) <= Cardinality(swallowed)
    BY <1>4, <2>1, FS_Subset, FS_CardinalityType
  <2>3. Cardinality(swallowed) <= kills /\ Cardinality(s) <= kills
    <3>1. Cardinality(swallowed) <= kills
      BY <1>4 DEF Counted
    <3> QED BY <1>4, <2>2, <3>1
  <2>4. Counted(s, part, kills)
    <3>1. CASE part = None
      BY <2>2, <2>3, <3>1 DEF Counted
    <3>2. CASE part # None
      <4>1. Cardinality(swallowed) + 1 <= kills
        BY <3>2 DEF Counted
      <4>2. Cardinality(s) + 1 <= kills
        BY <1>4, <2>2, <4>1
      <4> QED BY <2>2, <3>2, <4>2 DEF Counted
    <3> QED BY <3>1, <3>2
  <2> QED BY <1>2, <1>3, <1>4, <2>2, <2>3, <2>4
<1>6. CASE Swallows(ls) # {}
  <2>1. PICK x : part # None /\ ls # <<>> /\ Swallows(ls) = {x}
    BY <1>1, <1>6
  <2>2. /\ IsFiniteSet(swallowed \cup {x}) /\ Cardinality(swallowed \cup {x}) \in Nat
        /\ Cardinality(swallowed \cup {x}) <= Cardinality(swallowed) + 1
    <3>1. /\ IsFiniteSet(swallowed \cup {x})
          /\ Cardinality(swallowed \cup {x}) =
               IF x \in swallowed THEN Cardinality(swallowed) ELSE Cardinality(swallowed) + 1
      BY <1>4, FS_AddElement
    <3> QED BY <1>4, <3>1
  <2>3. s \subseteq swallowed \cup {x}
    BY <2>1
  <2>4. /\ IsFiniteSet(s) /\ Cardinality(s) \in Nat
        /\ Cardinality(s) <= Cardinality(swallowed \cup {x})
    BY <2>2, <2>3, FS_Subset, FS_CardinalityType
  <2>5. Cardinality(swallowed) + 1 <= kills
    BY <2>1 DEF Counted
  <2>6. Cardinality(s) <= kills
    BY <1>4, <2>2, <2>4, <2>5
  <2> QED BY <1>2, <1>3, <2>1, <2>4, <2>6
<1> QED BY <1>5, <1>6

LEMMA StoreKeeps ==
  ASSUME NoneAssumption, Inv, Store
  PROVE  Inv'
<1>1. /\ Typed /\ work \in Seq(Entry) /\ list \in Seq(Entry) /\ pc' = "unlink"
      /\ work' \in Appended(Lines(list)) /\ work # None
      /\ part' = (IF list = <<>> THEN part ELSE None) /\ part \in Entry \cup {None}
      /\ swallowed' = (swallowed \cup Swallows(Lines(list))) \ NamesIn(work')
      /\ UNCHANGED <<file, list, current, clipboard, asked, names, stray, kills>>
  BY DEF Inv, Typed, Store, NoneAssumption
<1>2. /\ NamesIn(list) \subseteq Wanted \cup stray /\ NamesIn(work) \subseteq stray
      /\ asked.adds \subseteq NamesIn(list)
      /\ file # None => Kept \subseteq NamesIn(list)
      /\ Kept \subseteq NamesIn(Load(IF file = None THEN work ELSE file))
                      \cup IF file = None THEN WithFolders(swallowed) ELSE {}
      /\ Twice(Load(file)) \subseteq stray
      /\ part # None => part.name \in stray
      /\ Counted(swallowed, part, kills)
  BY <1>1 DEF Inv, Store, NamesOn
<1>3. PICK ls : ls = Lines(list)
  OBVIOUS
<1>4. ls \in Seq(Entry) /\ NamesIn(ls) = NamesIn(list)
  BY <1>1, <1>3, LinesKeep
<1>5. /\ Kept' = Kept /\ Wanted' = Wanted /\ Wanted = Kept \cup asked.adds
  BY <1>1 DEF Kept, Wanted
<1>6. kills \in Nat /\ swallowed \subseteq Name
  BY <1>1 DEF Typed
<1>7. /\ work' \in Seq(Entry)
      /\ NamesIn(work') \subseteq NamesIn(work) \cup NamesIn(list)
                                 \cup IF part = None THEN {} ELSE Garbles({part.name})
  <2>1. work' \in Appended(ls)
    BY <1>1, <1>3
  <2> QED BY <1>1, <1>4, <2>1, AppendedTells
<1>8. /\ swallowed' \subseteq Name
      /\ NamesIn(Load(work)) \cup NamesIn(list) \cup WithFolders(swallowed)
           \subseteq NamesIn(Load(work')) \cup WithFolders(swallowed')
      /\ IsFiniteSet(swallowed') /\ Cardinality(swallowed') \in Nat
      /\ Cardinality(swallowed') <= kills
      /\ ls = <<>> => Counted(swallowed', part, kills)
  <2>1. PICK w, s : w = work' /\ s = swallowed'
    OBVIOUS
  <2>2. w \in Appended(ls) /\ s = (swallowed \cup Swallows(ls)) \ NamesIn(w)
    BY <1>1, <1>3, <2>1
  <2>3. /\ s \subseteq Name
        /\ NamesIn(Load(work)) \cup NamesIn(ls) \cup WithFolders(swallowed)
             \subseteq NamesIn(Load(w)) \cup WithFolders(s)
        /\ IsFiniteSet(s) /\ Cardinality(s) \in Nat /\ Cardinality(s) <= kills
        /\ ls = <<>> => Counted(s, part, kills)
    <3> HIDE DEF Entry
    <3>1. /\ work \in Seq(Entry) /\ part \in Entry \cup {None} /\ Counted(swallowed, part, kills)
      BY <1>1, <1>2
    <3> QED BY <1>4, <1>6, <2>2, <3>1, AppendedKeeps
  <2> QED BY <1>4, <2>1, <2>3
<1>9. Counted(swallowed', part', kills')
  <2>1. CASE list = <<>>
    <3>1. NamesIn(ls) = {}
      BY <1>4, <2>1, EmptyList
    <3>2. ls = <<>>
      <4>1. CASE ls # <<>>
        <5>1. 1 \in DOMAIN ls
          BY <1>4, <4>1
        <5>2. ls[1].name \in NamesIn(ls)
          BY <5>1 DEF NamesIn
        <5> QED BY <3>1, <5>2
      <4> QED BY <4>1
    <3> QED BY <1>1, <1>8, <2>1, <3>2
  <2>2. CASE list # <<>>
    <3>1. part' = None /\ kills' = kills
      BY <1>1, <2>2
    <3> QED BY <1>8, <3>1 DEF Counted
  <2> QED BY <2>1, <2>2
<1>10. Kept \subseteq NamesIn(Load(work')) \cup WithFolders(swallowed')
  BY <1>2, <1>8
<1>11. Wanted' \subseteq NamesIn(Load(work')) \cup WithFolders(swallowed')
  BY <1>2, <1>5, <1>8, <1>10
<1>12. NamesIn(work') \subseteq Wanted' \cup stray' \cup Garbles(stray')
  <2>1. part # None => Garbles({part.name}) \subseteq Garbles(stray)
    BY <1>2, GarblesGrow
  <2> QED BY <1>1, <1>2, <1>5, <1>7, <2>1
<1>13. Kept' \subseteq NamesIn(Load(IF file' = None THEN work' ELSE file'))
                      \cup IF file' = None THEN WithFolders(swallowed') ELSE {}
  BY <1>1, <1>2, <1>5, <1>10
<1>14. Typed'
  BY <1>1, <1>7, <1>8 DEF Typed
<1> QED BY <1>1, <1>2, <1>9, <1>11, <1>12, <1>13, <1>14 DEF Inv

LEMMA UnlinkKeeps ==
  ASSUME NoneAssumption, Inv, Unlink
  PROVE  Inv'
<1>1. /\ Typed /\ pc' = "rename" /\ pc = "unlink" /\ file' = None
      /\ UNCHANGED <<work, part, list, current, clipboard, asked, names, stray, swallowed, kills>>
  BY DEF Inv, Unlink, ghosts
<1>2. /\ Wanted \subseteq NamesIn(Load(work)) \cup WithFolders(swallowed)
      /\ NamesIn(work) \subseteq Wanted \cup stray \cup Garbles(stray)
      /\ Counted(swallowed, part, kills)
  BY <1>1 DEF Inv
<1>3. Kept' = Kept /\ Wanted' = Wanted /\ Kept \subseteq Wanted
  BY <1>1 DEF Kept, Wanted
<1>4. Kept' \subseteq NamesIn(Load(IF file' = None THEN work' ELSE file'))
                    \cup IF file' = None THEN WithFolders(swallowed') ELSE {}
  BY <1>1, <1>2, <1>3
<1>5. Twice(Load(file')) \subseteq stray'
  BY <1>1, EmptyList DEF Load
<1>6. Typed'
  BY <1>1 DEF Typed
<1> QED BY <1>1, <1>2, <1>3, <1>4, <1>5, <1>6 DEF Inv

LEMMA ListsTwice ==
  ASSUME NEW l \in Seq(Entry)
  PROVE  Twice(l) \subseteq NamesIn(l)
BY DEF Twice, NamesIn

LEMMA RenameFileKeeps ==
  ASSUME NoneAssumption, Inv, Rename
  PROVE  Inv'
<1>1. /\ Typed /\ work \in Seq(Entry) /\ work # None
      /\ file' = work /\ work' = None /\ names' = NamesIn(Load(work))
      /\ stray' = Twice(Load(work)) /\ asked' = Nothing /\ UNCHANGED kills
      /\ part' = None /\ swallowed' = {}
  BY DEF Inv, Typed, Rename, NoneAssumption
<1>2. Load(work) \in Seq(Entry) /\ NamesIn(Load(work)) \subseteq Name
  BY <1>1, FilesNames, NamesTyped
<1>3. names' \subseteq Name /\ stray' \subseteq Name
  BY <1>1, <1>2, ListsTwice
<1>4. asked' \in [adds : SUBSET Name, takes : SUBSET Name, twice : BOOLEAN]
  BY <1>1 DEF Nothing
<1>5. Kept' = names'
  BY <1>1 DEF Kept, Nothing
<1>6. Kept' \subseteq NamesIn(Load(IF file' = None THEN work' ELSE file'))
                    \cup IF file' = None THEN WithFolders(swallowed') ELSE {}
  BY <1>1, <1>5
<1>7. /\ Twice(Load(file')) \subseteq stray' /\ NamesOn(work') \subseteq stray'
      /\ part' # None => part'.name \in stray'
  BY <1>1 DEF NamesOn
<1>10. Counted(swallowed', part', kills')
  <2>1. kills \in Nat
    BY <1>1 DEF Typed
  <2>2. IsFiniteSet({}) /\ Cardinality({}) = 0
    BY FS_EmptySet
  <2> QED BY <1>1, <2>1, <2>2 DEF Counted
<1>8. CASE pc' = "idle" /\ list' = Load(work) /\ current' = <<>> /\ UNCHANGED clipboard
  <2>1. Typed'
    BY <1>1, <1>2, <1>3, <1>4, <1>8 DEF Typed
  <2>2. list' = Load(file') /\ NamesIn(list') \subseteq names'
    BY <1>1, <1>8
  <2> QED BY <1>1, <1>6, <1>7, <1>8, <1>10, <2>1, <2>2 DEF Inv
<1>9. CASE Gone
  <2>1. Typed' /\ pc' = "dead"
    BY <1>1, <1>3, <1>4, <1>9 DEF Typed, Gone
  <2> QED BY <1>6, <1>7, <1>10, <2>1 DEF Inv
<1> QED BY <1>8, <1>9 DEF Rename

(* Being killed in the middle of writing *)
LEMMA CutOffKeeps ==
  ASSUME NoneAssumption, Inv, pc = "store", NEW k \in 0..Len(Lines(list)),
         CutOff(Lines(list), k), kills' = kills + 1
  PROVE  /\ work' \in Seq(Entry) /\ part' \in Entry \cup {None} /\ swallowed' \subseteq Name
         /\ NamesIn(Load(work)) \cup WithFolders(swallowed)
              \subseteq NamesIn(Load(work')) \cup WithFolders(swallowed')
         /\ Counted(swallowed', part', kills')
<1>1. /\ Typed /\ work \in Seq(Entry) /\ list \in Seq(Entry) /\ part \in Entry \cup {None}
      /\ swallowed \subseteq Name /\ kills \in Nat /\ Counted(swallowed, part, kills)
  BY DEF Inv, Typed
<1>2. PICK ls : ls = Lines(list)
  OBVIOUS
<1>3. ls \in Seq(Entry) /\ k \in 0..Len(ls) /\ Len(ls) \in Nat
  BY <1>1, <1>2, LinesKeep
<1>4. PICK b : b = SubSeq(ls, 1, k)
  OBVIOUS
<1>5. b \in Seq(Entry) /\ (k = 0 => b = <<>>)
  <2>1. k \in Int /\ 1 \in Int /\ \A i \in 1..k : ls[i] \in Entry
    BY <1>3
  <2> HIDE DEF Entry
  <2>2. b \in Seq(Entry) /\ Len(b) = IF 1 <= k THEN k - 1 + 1 ELSE 0
    BY <1>4, <2>1, SubSeqProperties
  <2> QED BY <2>2
<1>6. PICK w, s : w = work' /\ s = swallowed'
  OBVIOUS
<1>7. w \in Appended(b) /\ s = (swallowed \cup Swallows(b)) \ NamesIn(w)
  BY <1>2, <1>4, <1>6 DEF CutOff
<1>8. w \in Seq(Entry)
  BY <1>1, <1>5, <1>7, AppendedTells
<1>9. /\ s \subseteq Name
      /\ NamesIn(Load(work)) \cup NamesIn(b) \cup WithFolders(swallowed)
           \subseteq NamesIn(Load(w)) \cup WithFolders(s)
      /\ IsFiniteSet(s) /\ Cardinality(s) \in Nat /\ Cardinality(s) <= kills
  BY <1>1, <1>5, <1>7, AppendedKeeps
<1>10. Counted(swallowed', part', kills')
  BY <1>1, <1>6, <1>9 DEF Counted
<1>11. part' \in Entry \cup {None}
  <2>1. CASE part' = IF k = 0 THEN part ELSE None
    BY <1>1, <2>1
  <2>2. CASE k < Len(ls) /\ part' = ls[k + 1]
    <3>1. k + 1 \in 1..Len(ls)
      BY <1>3, <2>2
    <3> HIDE DEF Entry
    <3> QED BY <1>3, <2>2, <3>1
  <2>3. CASE part # None /\ ls # <<>> /\ \E j \in Joined(part, ls[1]) \ {<<>>} : part' = j[1]
    <3>1. ls[1] \in Entry /\ part \in Entry
      BY <1>1, <1>3, <2>3
    <3> QED BY <2>3, <3>1, JoinedIs
  <2> QED BY <1>2, <2>1, <2>2, <2>3 DEF CutOff
<1> QED BY <1>6, <1>8, <1>9, <1>10, <1>11

LEMMA KillKeeps ==
  ASSUME BookmarksAssumption, NoneAssumption, Inv, Kill
  PROVE  Inv'
<1>1. /\ Typed /\ pc' = "dead" /\ list' = <<>> /\ current' = <<>> /\ clipboard' = None
      /\ kills' \in 0..MaxKills /\ kills' = kills + 1 /\ kills \in Nat
      /\ stray' = stray \cup NamesOn(work') \cup (IF part' = None THEN {} ELSE {part'.name})
      /\ UNCHANGED <<file, asked, names>>
  <2>1. kills \in 0..MaxKills /\ MaxKills \in Nat
    BY DEF Inv, Typed, BookmarksAssumption
  <2> QED BY <2>1 DEF Inv, Kill, Gone
<1>2. /\ work' = None \/ work' \in Seq(Entry)
      /\ part' \in Entry \cup {None} /\ swallowed' \subseteq Name
      /\ NamesIn(Load(work)) \cup WithFolders(swallowed)
           \subseteq NamesIn(Load(work')) \cup WithFolders(swallowed')
      /\ Counted(swallowed', part', kills')
  <2>1. CASE UNCHANGED <<work, part, swallowed>>
    <3>1. Counted(swallowed, part, kills)
      BY DEF Inv
    <3>2. IsFiniteSet(swallowed) /\ Cardinality(swallowed) \in Nat
      BY <3>1, FS_CardinalityType DEF Counted
    <3>3. Counted(swallowed, part, kills + 1)
      BY <1>1, <3>1, <3>2 DEF Counted
    <3> QED BY <1>1, <2>1, <3>3 DEF Typed
  <2>2. CASE pc = "store" /\ \E k \in 0..Len(Lines(list)) : CutOff(Lines(list), k)
    BY <1>1, <2>2, CutOffKeeps
  <2> QED BY <2>1, <2>2 DEF Kill
<1>3. NamesOn(work') \subseteq Name
  BY <1>2, LoadAdds
<1>4. stray' \subseteq Name
  BY <1>1, <1>2, <1>3 DEF Typed, Entry
<1>5. Typed'
  <2>1. <<>> \in Seq(Entry)
    OBVIOUS
  <2> QED BY <1>1, <1>2, <1>4, <2>1 DEF Typed
<1>6. Kept' = Kept
  BY <1>1 DEF Kept
<1>7. Kept' \subseteq NamesIn(Load(IF file' = None THEN work' ELSE file'))
                    \cup IF file' = None THEN WithFolders(swallowed') ELSE {}
  BY <1>1, <1>2, <1>6 DEF Inv
<1>8. /\ Twice(Load(file')) \subseteq stray' /\ NamesOn(work') \subseteq stray'
      /\ part' # None => part'.name \in stray'
  BY <1>1 DEF Inv
<1> QED BY <1>1, <1>2, <1>5, <1>7, <1>8 DEF Inv

LEMMA RestartKeeps ==
  ASSUME NoneAssumption, Inv, Restart
  PROVE  Inv'
<1>1. /\ Typed /\ pc = "dead" /\ pc' = "idle" /\ list' = Load(file)
      /\ names' = Kept \cup NamesIn(Load(file)) /\ asked' = Nothing
      /\ UNCHANGED <<file, work, part, current, clipboard, stray, swallowed, kills>>
      /\ Kept \subseteq NamesIn(Load(IF file = None THEN work ELSE file))
                     \cup IF file = None THEN WithFolders(swallowed) ELSE {}
      /\ Twice(Load(file)) \subseteq stray /\ NamesOn(work) \subseteq stray
      /\ part # None => part.name \in stray
      /\ Counted(swallowed, part, kills)
  BY DEF Inv, Restart, Kept, disk
<1>2. Load(file) \in Seq(Entry) /\ NamesIn(Load(file)) \subseteq Name
  BY <1>1, FilesNames, NamesTyped
<1>3. Kept' = names' /\ Kept \subseteq Name
  BY <1>1 DEF Kept, Nothing, Typed
<1>4. NamesIn(Load(file)) \subseteq NamesIn(Load(IF file = None THEN work ELSE file))
  <2>1. CASE file = None
    BY <2>1, EmptyList DEF Load
  <2> QED BY <2>1
<1>5. asked' \in [adds : SUBSET Name, takes : SUBSET Name, twice : BOOLEAN]
  BY <1>1 DEF Nothing
<1>6. Typed'
  <2>1. current = <<>>
    BY <1>1 DEF Typed
  <2> QED BY <1>1, <1>2, <1>3, <1>5, <2>1 DEF Typed
<1> QED BY <1>1, <1>3, <1>4, <1>6 DEF Inv

LEMMA InitInv ==
  BookmarksAssumption /\ NoneAssumption /\ Init => Inv
<1> SUFFICES ASSUME BookmarksAssumption, NoneAssumption, Init PROVE Inv
  OBVIOUS
<1>1. /\ Load(file) = <<>> /\ NamesOn(work) = {} /\ NamesIn(list) = {} /\ list \in Seq(Entry)
      /\ Twice(Load(file)) = {}
  BY EmptyList DEF Init, Load, NamesOn
<1>2. Typed
  BY <1>1 DEF Init, Typed, Nothing, BookmarksAssumption
<1>3. Counted(swallowed, part, kills)
  BY FS_EmptySet DEF Init, Counted
<1> QED BY <1>1, <1>2, <1>3 DEF Init, Inv, Kept, Nothing

LEMMA StepInv ==
  ASSUME BookmarksAssumption, NoneAssumption, Inv, [Next]_vars
  PROVE  Inv'
<1>1. CASE MoveRoot \/ MoveUp \/ \E label \in Labels : MoveDown(label) \/ CopyBookmark(label)
  BY <1>1, MoveKeeps
<1>2. CASE PasteBookmark
  <2>1. /\ pc = "idle" /\ clipboard # None /\ UNCHANGED clipboard
        /\ Change(Append(list, [name |-> Child(clipboard.label), c |-> clipboard.c]),
                  {Child(clipboard.label)}, {}, clipboard.children)
    BY <1>2 DEF PasteBookmark
  <2>2. clipboard.label \in Labels /\ clipboard.c \in Coord \cup {Folder}
        /\ clipboard.children \in BOOLEAN
    BY <2>1 DEF Inv, Typed
  <2> QED BY <2>1, <2>2, AddKeeps
<1>3. ASSUME NEW label \in Label, NEW c \in Coord \cup {Folder}, AddBookmark(label, c)
      PROVE  Inv'
  <2>1. /\ pc = "idle" /\ UNCHANGED clipboard
        /\ Change(Append(list, [name |-> Child(label), c |-> c]), {Child(label)}, {}, FALSE)
    BY <1>3 DEF AddBookmark
  <2>2. FALSE \in BOOLEAN /\ label \in Labels
    BY DEF Labels
  <2> QED BY <2>1, <2>2, AddKeeps
<1>4. ASSUME NEW label \in Labels, DeleteBookmark(label) \/ CutBookmark(label)
      PROVE  Inv'
  <2>1. /\ pc = "idle" /\ Child(label) \in NamesIn(list)
        /\ clipboard' \in {clipboard, CopyOf(label)}
        /\ Change(WithoutEntry(label), {}, {Child(label)}, FALSE)
    BY <1>4 DEF DeleteBookmark, CutBookmark
  <2> QED BY <2>1, RemoveKeeps
<1>5. CASE \E label \in Labels : \E new \in Label : RenameBookmark(label, new)
  BY <1>5, RenameKeeps DEF Labels
<1>6. CASE Store \/ Unlink \/ Rename
  BY <1>6, StoreKeeps, UnlinkKeeps, RenameFileKeeps
<1>7. CASE Kill \/ Restart
  BY <1>7, KillKeeps, RestartKeeps
<1>8. CASE UNCHANGED vars
  BY <1>8 DEF vars, disk, ghosts, Inv, Typed, Kept, Wanted
<1> QED BY <1>1, <1>2, <1>3, <1>4, <1>5, <1>6, <1>7, <1>8 DEF Next, Labels

LEMMA InvAlways == Spec => []Inv
<1>1. Init => Inv
  BY InitInv, BookmarksAssumption, NoneAssumption
<1>2. Inv /\ [Next]_vars => Inv'
  BY StepInv, BookmarksAssumption, NoneAssumption
<1> HIDE DEF Inv, Init, Next, vars
<1> QED BY <1>1, <1>2, PTL DEF Spec

(* The types, and between operations a list in which every folder comes    *)
(* before what is in it (TypeOK): what bookmarks_move_up comes to is there *)
THEOREM TypesStay == Spec => []TypeOK
<1>1. ASSUME Inv, BookmarksAssumption, NoneAssumption PROVE TypeOK
  <2>1. Typed /\ (pc = "idle" => asked = Nothing /\ list = Load(file))
    BY <1>1 DEF Inv
  <2>2. Closed(Load(file))
    BY <1>1, <2>1, FilesNames
  <2>3. pc = "idle" =>
          /\ asked = Nothing
          /\ \A i \in DOMAIN list :
               FoldersOf(list[i].name) \subseteq NamesIn(SubSeq(list, 1, i - 1))
    BY <2>1, <2>2 DEF Closed
  <2> QED BY <2>1, <2>3 DEF TypeOK, Typed
<1> HIDE DEF Inv, TypeOK, Spec
<1>2. Inv => TypeOK
  BY <1>1, BookmarksAssumption, NoneAssumption
<1> QED BY <1>2, InvAlways, PTL

(* Whenever the program is killed, in the middle of a line or not, and as  *)
(* often as it is, the names the user has not asked to remove are in the   *)
(* file, or in the working file when there is no file, but for one name    *)
(* and its folders for each kill (OneLostPerKill)                          *)
THEOREM LostOnlyTorn == Spec => []OneLostPerKill
<1>1. ASSUME Inv PROVE OneLostPerKill
  <2>1. /\ Typed /\ Counted(swallowed, part, kills)
        /\ Kept \subseteq NamesIn(Load(IF file = None THEN work ELSE file))
                       \cup IF file = None THEN WithFolders(swallowed) ELSE {}
    BY <1>1 DEF Inv
  <2>2. Cardinality(swallowed) \in Nat /\ kills \in Nat
    BY <2>1, FS_CardinalityType DEF Counted, Typed
  <2>3. Cardinality(swallowed) <= kills
    BY <2>1, <2>2 DEF Counted
  <2> QED BY <2>1, <2>3 DEF OneLostPerKill, Kept
<1> HIDE DEF Inv, OneLostPerKill, Spec
<1> QED BY <1>1, InvAlways, PTL

(* Every operation that comes to its end leaves the names the user wants,  *)
(* with their folders and without the swallowed, and beyond those only     *)
(* garbled names and names of a working file that a killed program left,   *)
(* or that were there twice (AsAsked)                                      *)
THEOREM DoneAsAsked == Spec => AsAsked
<1> DEFINE Done == pc = "rename" /\ file' # None =>
             LET want == WithFolders((names \ asked.takes) \cup asked.adds)
             IN /\ want \subseteq names' \cup WithFolders(swallowed)
                /\ \A n \in names' : n \in WithFolders(want \cup stray) \/ IsGarbled(n)
<1>1. ASSUME Inv, NoneAssumption, [Next]_vars PROVE [Done]_vars
  <2>1. SUFFICES ASSUME pc = "rename", file' # None, Next
                 PROVE  /\ WithFolders(Wanted) \subseteq names' \cup WithFolders(swallowed)
                        /\ \A n \in names' :
                             n \in WithFolders(WithFolders(Wanted) \cup stray) \/ IsGarbled(n)
    BY <1>1 DEF Wanted, Kept
  <2>2. /\ Typed /\ work # None /\ work \in Seq(Entry)
        /\ Wanted \subseteq NamesIn(Load(work)) \cup WithFolders(swallowed)
        /\ NamesIn(work) \subseteq Wanted \cup stray \cup Garbles(stray)
    BY <1>1, <2>1 DEF Inv, Typed, NoneAssumption
  <2>3. NamesIn(Load(work)) = WithFolders(NamesIn(work)) /\ NamesIn(work) \in SUBSET Name
    BY <1>1, <2>2, FilesNames DEF NamesOn
  <2>4. Kill \/ Rename
    BY <2>1 DEF Next, MoveRoot, MoveUp, PasteBookmark, MoveDown, CopyBookmark, CutBookmark,
                DeleteBookmark, AddBookmark, RenameBookmark, Store, Unlink, Restart
  <2>5. file = None
    BY <1>1, <2>1 DEF Inv
  <2>6. Rename
    BY <2>1, <2>4, <2>5 DEF Kill
  <2>7. names' = WithFolders(NamesIn(work))
    BY <2>3, <2>6 DEF Rename
  <2>8. WithFolders(Wanted) \subseteq names' \cup WithFolders(swallowed)
    <3>1. PICK S, T : S = NamesIn(work) /\ T = swallowed
      OBVIOUS
    <3>2. S \in SUBSET Name /\ T \in SUBSET Name
      BY <2>2, <2>3, <3>1 DEF Typed
    <3>3. Wanted \subseteq WithFolders(S \cup T)
      BY <2>2, <2>3, <3>1, FoldersOfTwo
    <3>4. S \cup T \in SUBSET Name
      BY <3>2
    <3>5. WithFolders(Wanted) \subseteq WithFolders(WithFolders(S \cup T))
      BY <3>3, WithFoldersGrows
    <3>6. WithFolders(WithFolders(S \cup T)) = WithFolders(S) \cup WithFolders(T)
      BY <3>4, FoldersAreThere, FoldersOfTwo
    <3> QED BY <2>7, <3>1, <3>5, <3>6
  <2>9. ASSUME NEW n \in names'
        PROVE  n \in WithFolders(WithFolders(Wanted) \cup stray) \/ IsGarbled(n)
    <3>1. Wanted \cup stray \subseteq WithFolders(Wanted) \cup stray
      BY WithFoldersGrows
    <3>2. /\ WithFolders(Wanted \cup stray) \subseteq WithFolders(WithFolders(Wanted) \cup stray)
          /\ WithFolders(stray) \subseteq WithFolders(WithFolders(Wanted) \cup stray)
          /\ Wanted \cup stray \subseteq WithFolders(Wanted \cup stray)
      BY <3>1, WithFoldersGrows
    <3>3. PICK x \in NamesIn(work) : n = x \/ n \in FoldersOf(x)
      BY <2>7, <2>9 DEF WithFolders
    <3>4. CASE x \in Wanted \cup stray
      <4>1. n \in WithFolders(Wanted \cup stray)
        BY <3>3, <3>4 DEF WithFolders
      <4> QED BY <3>2, <4>1
    <3>5. CASE x \in Garbles(stray)
      BY <3>2, <3>3, <3>5 DEF Garbles
    <3> QED BY <2>2, <3>4, <3>5
  <2> QED BY <2>8, <2>9
<1>2. Inv /\ [Next]_vars => [Done]_vars
  BY <1>1, NoneAssumption
<1> HIDE DEF Inv, Done, Next, vars, Init
<1>3. Spec => [][Done]_vars
  BY <1>2, InvAlways, PTL DEF Spec
<1> QED BY <1>3 DEF AsAsked, Done

=============================================================================
