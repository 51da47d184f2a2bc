----------------------------- MODULE LogProofs ------------------------------
(***************************************************************************)
(* What was logged stays.  A record that counts as kept is either in the   *)
(* buffer or in a place of a file that no later flush writes over: behind  *)
(* the pointer of an open log (log->fpos) nothing is safe, neither from    *)
(* the next flush nor from a kill in its middle.                           *)
(***************************************************************************)
EXTENDS Log, TLAPS

Cell == {"H", "T", "R", "L"} \X Nat

(* s has record k, among its first n cells *)
Before(s, n, k) == \E i \in DOMAIN s : i <= n /\ IsRecord(s[i]) /\ s[i][2] = k
Holds(s, k) == \E i \in DOMAIN s : IsRecord(s[i]) /\ s[i][2] = k

(* No flush writes over record k *)
Secure(x, k) ==
  \E f \in DOMAIN x.disk :
    IF x.log.open /\ f = x.log.file THEN Before(x.disk[f], x.log.pos, k)
                                    ELSE Holds(x.disk[f], k)

Covered(x, k) == Secure(x, k) \/ Holds(x.log.data, k)

Files(d) == d \in [DOMAIN d -> Seq(Cell)]

Good(x) ==
  /\ x = [disk |-> x.disk, log |-> x.log]
  /\ Files(x.disk)
  /\ x.log \in [file : {x.log.file}, open : BOOLEAN, pos : Nat, empty : BOOLEAN,
                data : Seq(Cell)]
  /\ x.log.open => /\ x.log.file \in DOMAIN x.disk
                   /\ x.log.pos <= Len(x.disk[x.log.file])

(* The flags with which vehicle_log_binfile writes *)
Rewrite == {"replace_buffer", "keep_pointer", "keep_buffer", "force_flush"}
Replace == {"replace_buffer", "force_flush", "truncate"}

AttrsOK ==
  /\ attrs \in [type : Types, overwrite : BOOLEAN, lazy : BOOLEAN,
                numbered : BOOLEAN]
  /\ kills \in Nat

-----------------------------------------------------------------------------
(* Cells and sequences of them.                                            *)
LEMMA MaxOfTwo ==
  ASSUME NEW a \in Nat, NEW b \in Nat
  PROVE  /\ Max({a, b}) \in Nat
         /\ Max({a, b}) >= a /\ Max({a, b}) >= b
         /\ Max({a, b}) = a \/ Max({a, b}) = b
  <1>1. \E x \in {a, b} : \A y \in {a, b} : x >= y
    OBVIOUS
  <1>2. Max({a, b}) \in {a, b} /\ \A y \in {a, b} : Max({a, b}) >= y
    BY <1>1 DEF Max
  <1> QED
    BY <1>2

LEMMA WriteAtCells ==
  ASSUME NEW s \in Seq(Cell), NEW p \in Nat, p <= Len(s), NEW c \in Seq(Cell)
  PROVE  /\ WriteAt(s, p, c) \in Seq(Cell)
         /\ Len(WriteAt(s, p, c)) >= Len(s)
         /\ Len(WriteAt(s, p, c)) >= p + Len(c)
         /\ Len(WriteAt(s, p, c)) = Len(s) \/ Len(WriteAt(s, p, c)) = p + Len(c)
         /\ \A i \in 1..p : WriteAt(s, p, c)[i] = s[i]
         /\ \A i \in 1..Len(c) : WriteAt(s, p, c)[p + i] = c[i]
         /\ \A i \in DOMAIN WriteAt(s, p, c) :
              \/ i \in DOMAIN s /\ WriteAt(s, p, c)[i] = s[i]
              \/ \E j \in DOMAIN c : i = p + j /\ WriteAt(s, p, c)[i] = c[j]
  <1>m. PICK m \in Nat : /\ m = Max({Len(s), p + Len(c)})
                         /\ m >= Len(s) /\ m >= p + Len(c)
                         /\ m = Len(s) \/ m = p + Len(c)
    BY MaxOfTwo
  <1> DEFINE w == [i \in 1..m |->
                     IF i \in (p + 1)..(p + Len(c)) THEN c[i - p] ELSE s[i]]
  <1>1. /\ Len(s) \in Nat /\ Len(c) \in Nat
        /\ DOMAIN s = 1..Len(s) /\ DOMAIN c = 1..Len(c)
        /\ \A i \in 1..Len(s) : s[i] \in Cell
        /\ \A i \in 1..Len(c) : c[i] \in Cell
    OBVIOUS
  <1>0. Len(s) \in Nat /\ Len(c) \in Nat
    OBVIOUS
  <1>2. m >= Len(s) /\ m >= p + Len(c) /\ (m = Len(s) \/ m = p + Len(c))
    BY <1>m
  <1>3. \A i \in 1..m : w[i] \in Cell
    <2> TAKE i \in 1..m
    <2>1. CASE i \in (p + 1)..(p + Len(c))
      <3>1. i - p \in 1..Len(c) /\ w[i] = c[i - p]
        BY <1>1, <2>1
      <3> QED
        BY <1>1, <3>1
    <2>2. CASE ~(i \in (p + 1)..(p + Len(c)))
      <3>1. i \in 1..Len(s)
        BY <1>0, <1>2, <2>2
      <3>2. w[i] = s[i]
        BY <2>2
      <3> QED
        BY <1>1, <3>1, <3>2
    <2> QED
      BY <2>1, <2>2
  <1>4. w \in Seq(Cell) /\ Len(w) = m /\ DOMAIN w = 1..m
    BY <1>2, <1>3
  <1>5. \A i \in 1..p : w[i] = s[i]
    BY <1>1, <1>2
  <1>6. \A i \in 1..Len(c) : w[p + i] = c[i]
    <2> TAKE i \in 1..Len(c)
    <2>1. p + i \in 1..m /\ p + i \in (p + 1)..(p + Len(c)) /\ (p + i) - p = i
      BY <1>0, <1>2
    <2> QED
      BY <2>1
  <1>7. \A i \in 1..m : \/ i \in 1..Len(s) /\ w[i] = s[i]
                        \/ \E j \in 1..Len(c) : i = p + j /\ w[i] = c[j]
    <2> TAKE i \in 1..m
    <2>1. CASE i \in (p + 1)..(p + Len(c))
      <3>1. i - p \in 1..Len(c) /\ i = p + (i - p) /\ w[i] = c[i - p]
        BY <1>1, <2>1
      <3> QED
        BY <3>1
    <2>2. CASE ~(i \in (p + 1)..(p + Len(c)))
      <3>1. i \in 1..Len(s)
        BY <1>0, <1>2, <2>2
      <3> QED
        BY <2>2, <3>1
    <2> QED
      BY <2>1, <2>2
  <1>8. WriteAt(s, p, c) = w
    BY <1>m DEF WriteAt
  <1> HIDE DEF w
  <1> QED
    BY <1>1, <1>2, <1>4, <1>5, <1>6, <1>7, <1>8

(* Cells before p stay, those of c come behind p, nothing else appears.    *)
LEMMA WriteAtRecords ==
  ASSUME NEW s \in Seq(Cell), NEW p \in Nat, p <= Len(s), NEW c \in Seq(Cell), NEW k
  PROVE  /\ Before(s, p, k) => Before(WriteAt(s, p, c), p, k)
         /\ Holds(c, k) => Before(WriteAt(s, p, c), p + Len(c), k)
         /\ Holds(WriteAt(s, p, c), k) => Holds(s, k) \/ Holds(c, k)
  <1> DEFINE w == WriteAt(s, p, c)
  <1>1. /\ w \in Seq(Cell) /\ Len(w) >= Len(s) /\ Len(w) >= p + Len(c)
        /\ \A i \in 1..p : w[i] = s[i]
        /\ \A i \in 1..Len(c) : w[p + i] = c[i]
        /\ \A i \in DOMAIN w : \/ i \in DOMAIN s /\ w[i] = s[i]
                               \/ \E j \in DOMAIN c : i = p + j /\ w[i] = c[j]
    BY WriteAtCells
  <1> HIDE DEF w
  <1>2. /\ DOMAIN s = 1..Len(s) /\ DOMAIN c = 1..Len(c) /\ DOMAIN w = 1..Len(w)
        /\ Len(s) \in Nat /\ Len(c) \in Nat /\ Len(w) \in Nat
    BY <1>1
  <1>3. Before(s, p, k) => Before(w, p, k)
    BY <1>1, <1>2 DEF Before
  <1>4. ASSUME Holds(c, k)
        PROVE  Before(w, p + Len(c), k)
    <2>1. PICK j \in 1..Len(c) : IsRecord(c[j]) /\ c[j][2] = k
      BY <1>2, <1>4 DEF Holds
    <2>2. p + j \in DOMAIN w /\ p + j <= p + Len(c) /\ w[p + j] = c[j]
      BY <1>1, <1>2
    <2> QED
      BY <2>1, <2>2 DEF Before
  <1>5. Holds(w, k) => Holds(s, k) \/ Holds(c, k)
    BY <1>1 DEF Holds
  <1> QED
    BY <1>3, <1>4, <1>5 DEF w

LEMMA CutCells ==
  ASSUME NEW s \in Seq(Cell), NEW n \in Nat, NEW flags, n <= Len(s)
  PROVE  /\ Cut(flags, s, n) \in Seq(Cell)
         /\ n <= Len(Cut(flags, s, n))
         /\ DOMAIN Cut(flags, s, n) \subseteq DOMAIN s
         /\ \A i \in DOMAIN Cut(flags, s, n) : Cut(flags, s, n)[i] = s[i]
         /\ 1..n \subseteq DOMAIN Cut(flags, s, n)
  <1>1. SubSeq(s, 1, n) = [i \in 1..n |-> s[i]]
    OBVIOUS
  <1>2. [i \in 1..n |-> s[i]] \in Seq(Cell) /\ Len([i \in 1..n |-> s[i]]) = n
    OBVIOUS
  <1>3. DOMAIN s = 1..Len(s) /\ Len(s) \in Nat
    OBVIOUS
  <1> QED
    BY <1>1, <1>2, <1>3 DEF Cut

LEMMA CutRecords ==
  ASSUME NEW s \in Seq(Cell), NEW n \in Nat, NEW flags, n <= Len(s), NEW k,
         NEW m \in Nat, m <= n
  PROVE  /\ Before(s, m, k) => Before(Cut(flags, s, n), m, k)
         /\ Holds(Cut(flags, s, n), k) => Holds(s, k)
  BY CutCells DEF Before, Holds

LEMMA BeforeMore ==
  ASSUME NEW s \in Seq(Cell), NEW m \in Nat, NEW n \in Nat, m <= n, NEW k, Before(s, m, k)
  PROVE  Before(s, n, k) /\ Holds(s, k)
  BY DEF Before, Holds

LEMMA HoldsAll ==
  ASSUME NEW s \in Seq(Cell), NEW k, Holds(s, k)
  PROVE  Before(s, Len(s), k)
  BY DEF Before, Holds

LEMMA HoldsIsRecordsIn ==
  ASSUME NEW s, NEW k
  PROVE  k \in RecordsIn(s) <=> Holds(s, k)
  BY DEF RecordsIn, Holds

LEMMA OnDiskHolds ==
  ASSUME NEW d, NEW k
  PROVE  k \in OnDisk(d) <=> \E f \in DOMAIN d : Holds(d[f], k)
  BY HoldsIsRecordsIn DEF OnDisk

LEMMA HoldsConcat ==
  ASSUME NEW s \in Seq(Cell), NEW t \in Seq(Cell), NEW k
  PROVE  Holds(s \o t, k) <=> Holds(s, k) \/ Holds(t, k)
  <1>1. /\ Len(s \o t) = Len(s) + Len(t) /\ s \o t \in Seq(Cell)
        /\ \A i \in 1..(Len(s) + Len(t)) :
             (s \o t)[i] = IF i <= Len(s) THEN s[i] ELSE t[i - Len(s)]
    OBVIOUS
  <1>2. /\ DOMAIN s = 1..Len(s) /\ DOMAIN t = 1..Len(t)
        /\ DOMAIN (s \o t) = 1..(Len(s) + Len(t))
        /\ Len(s) \in Nat /\ Len(t) \in Nat
    BY <1>1
  <1>3. ASSUME Holds(s, k)
        PROVE  Holds(s \o t, k)
    BY <1>1, <1>2, <1>3 DEF Holds
  <1>4. ASSUME Holds(t, k)
        PROVE  Holds(s \o t, k)
    <2>1. PICK j \in 1..Len(t) : IsRecord(t[j]) /\ t[j][2] = k
      BY <1>2, <1>4 DEF Holds
    <2>2. /\ Len(s) + j \in 1..(Len(s) + Len(t)) /\ ~(Len(s) + j <= Len(s))
          /\ Len(s) + j - Len(s) = j
      BY <1>2
    <2>3. (s \o t)[Len(s) + j] = t[j]
      BY <1>1, <2>2
    <2> QED
      BY <1>2, <2>1, <2>2, <2>3 DEF Holds
  <1>5. ASSUME Holds(s \o t, k)
        PROVE  Holds(s, k) \/ Holds(t, k)
    <2>1. PICK i \in 1..(Len(s) + Len(t)) : IsRecord((s \o t)[i]) /\ (s \o t)[i][2] = k
      BY <1>2, <1>5 DEF Holds
    <2>2. CASE i <= Len(s)
      BY <1>1, <1>2, <2>1, <2>2 DEF Holds
    <2>3. CASE ~(i <= Len(s))
      <3>1. i - Len(s) \in 1..Len(t)
        BY <1>2, <2>3
      <3>2. (s \o t)[i] = t[i - Len(s)]
        BY <1>1, <2>3
      <3> QED
        BY <1>2, <2>1, <3>1, <3>2 DEF Holds
    <2> QED
      BY <2>2, <2>3
  <1> QED
    BY <1>3, <1>4, <1>5

(* Header and trailer are cells without a record.                          *)
LEMMA HeaderTrailer ==
  /\ Header \in Seq(Cell) /\ Trailer \in Seq(Cell)
  /\ \A k : ~Holds(Header, k) /\ ~Holds(Trailer, k)
  <1>1. HeaderCell \in Cell /\ <<"T", 1>> \in Cell /\ <<"T", 2>> \in Cell
    BY DEF HeaderCell, Cell
  <1>2. ~IsRecord(HeaderCell) /\ ~IsRecord(<<"T", 1>>) /\ ~IsRecord(<<"T", 2>>)
    BY DEF HeaderCell, IsRecord
  <1>3. /\ \A i \in DOMAIN Header : ~IsRecord(Header[i])
        /\ \A i \in DOMAIN Trailer : ~IsRecord(Trailer[i])
    BY <1>2 DEF Header, Trailer
  <1>4. Header \in Seq(Cell) /\ Trailer \in Seq(Cell)
    BY <1>1 DEF Header, Trailer
  <1> QED
    BY <1>3, <1>4 DEF Holds


(* The trailer comes behind what was written, and the rest may be cut off. *)
LEMMA WrittenRecords ==
  ASSUME NEW s \in Seq(Cell), NEW p \in Nat, p <= Len(s), NEW o \in Seq(Cell),
         NEW flags, NEW k
  PROVE  LET e == p + Len(o)
             w == WriteAt(Cut(flags, WriteAt(s, p, o), e), e, Trailer)
         IN /\ w \in Seq(Cell) /\ e <= Len(w)
            /\ Before(s, p, k) => Before(w, p, k)
            /\ Holds(o, k) => Before(w, e, k)
            /\ Holds(w, k) => Holds(s, k) \/ Holds(o, k)
  <1> DEFINE e == p + Len(o)
             u == WriteAt(s, p, o)
             v == Cut(flags, u, e)
             w == WriteAt(v, e, Trailer)
  <1>1. e \in Nat /\ p <= e
    OBVIOUS
  <1>2. u \in Seq(Cell) /\ e <= Len(u)
    BY WriteAtCells
  <1>3. /\ Before(s, p, k) => Before(u, p, k)
        /\ Holds(o, k) => Before(u, e, k)
        /\ Holds(u, k) => Holds(s, k) \/ Holds(o, k)
    BY WriteAtRecords
  <1> HIDE DEF e, u
  <1>4. v \in Seq(Cell) /\ e <= Len(v)
    BY <1>1, <1>2, CutCells
  <1>5. /\ Before(u, p, k) => Before(v, p, k)
        /\ Before(u, e, k) => Before(v, e, k)
        /\ Holds(v, k) => Holds(u, k)
    <2>1. e <= e
      BY <1>1
    <2> QED
      BY <1>1, <1>2, <2>1, CutRecords
  <1> HIDE DEF v
  <1>6. w \in Seq(Cell) /\ e <= Len(w)
    <2>1. Len(w) >= Len(v) /\ w \in Seq(Cell)
      BY <1>1, <1>4, WriteAtCells, HeaderTrailer
    <2>2. Len(v) \in Nat /\ Len(w) \in Nat
      BY <1>4, <2>1
    <2> HIDE DEF w
    <2> QED
      BY <1>1, <1>4, <2>1, <2>2
  <1>7. /\ Before(v, e, k) => Before(w, e, k)
        /\ Holds(w, k) => Holds(v, k)
    BY <1>1, <1>4, WriteAtRecords, HeaderTrailer
  <1>8. Before(v, p, k) => Before(w, p, k)
    <2>1. \A i \in 1..e : w[i] = v[i]
      BY <1>1, <1>4, WriteAtCells, HeaderTrailer
    <2>2. DOMAIN v = 1..Len(v) /\ DOMAIN w = 1..Len(w) /\ Len(v) \in Nat /\ Len(w) \in Nat
      BY <1>4, <1>6
    <2> HIDE DEF w
    <2> QED
      BY <1>1, <1>4, <1>6, <2>1, <2>2 DEF Before
  <1> HIDE DEF w
  <1> QED
    BY <1>3, <1>5, <1>6, <1>7, <1>8 DEF w, v, u, e

LEMMA OutRecords ==
  ASSUME NEW l, l.data \in Seq(Cell), l.empty \in BOOLEAN
  PROVE  /\ Out(l) \in Seq(Cell)
         /\ Len(l.data) <= Len(Out(l))
         /\ \A k : Holds(Out(l), k) <=> Holds(l.data, k)
  <1> DEFINE h == IF l.empty THEN Header ELSE <<>>
  <1>1. h \in Seq(Cell) /\ \A k : ~Holds(h, k)
    <2>1. <<>> \in Seq(Cell) /\ \A k : ~Holds(<<>>, k)
      BY DEF Holds
    <2> QED
      BY <2>1, HeaderTrailer
  <1> HIDE DEF h
  <1>2. h \o l.data \in Seq(Cell) /\ Len(h \o l.data) = Len(h) + Len(l.data)
    BY <1>1
  <1>3. Len(h) \in Nat /\ Len(l.data) \in Nat
    BY <1>1
  <1>4. \A k : Holds(h \o l.data, k) <=> Holds(l.data, k)
    BY <1>1, HoldsConcat
  <1>5. Out(l) = h \o l.data
    BY DEF Out, h
  <1>6. Len(l.data) <= Len(h) + Len(l.data)
    BY <1>3
  <1> QED
    BY <1>2, <1>4, <1>5, <1>6

-----------------------------------------------------------------------------
(* What log_open, log_flush, log_close, log_change and log_new keep.       *)
Held(d, k) == \E f \in DOMAIN d : Holds(d[f], k)

LEMMA SecureIsHeld ==
  ASSUME NEW x, Good(x), NEW k
  PROVE  /\ Secure(x, k) => Held(x.disk, k)
         /\ ~x.log.open => (Held(x.disk, k) <=> Secure(x, k))
         /\ (x.log.open => x.log.pos = Len(x.disk[x.log.file]))
              => (Held(x.disk, k) <=> Secure(x, k))
  <1>1. \A f \in DOMAIN x.disk : x.disk[f] \in Seq(Cell)
    BY DEF Good, Files
  <1>2. x.log.pos \in Nat
    BY DEF Good
  <1>3. Secure(x, k) => Held(x.disk, k)
    BY DEF Secure, Held, Before, Holds
  <1>4. ~x.log.open => (Held(x.disk, k) <=> Secure(x, k))
    BY DEF Secure, Held
  <1>5. (x.log.open => x.log.pos = Len(x.disk[x.log.file]))
          => (Held(x.disk, k) => Secure(x, k))
    BY <1>1, HoldsAll DEF Secure, Held
  <1> QED
    BY <1>3, <1>4, <1>5

LEMMA OpenKeeps ==
  ASSUME AttrsOK, NEW x, Good(x)
  PROVE  /\ Good(Open(x))
         /\ Open(x).log.open /\ Open(x).log.file = x.log.file
         /\ Open(x).log.data = x.log.data
         /\ \A k : Secure(Open(x), k) <=> Held(Open(x).disk, k)
         /\ \A k : Held(Open(x).disk, k) => Held(x.disk, k)
         /\ \A k : Held(x.disk, k) => Held(Open(x).disk, k) \/ attrs.overwrite
         /\ \A f \in DOMAIN x.disk \ {x.log.file} :
              f \in DOMAIN Open(x).disk /\ Open(x).disk[f] = x.disk[f]
  <1> DEFINE f == x.log.file
             new == attrs.overwrite \/ f \notin DOMAIN x.disk
             d == IF new THEN [g \in DOMAIN x.disk \cup {f} |->
                                 IF g = f THEN <<>> ELSE x.disk[g]]
                         ELSE x.disk
             l == [x.log EXCEPT !.open = TRUE, !.pos = Len(d[f]), !.empty = (d[f] = <<>>)]
  <1>1. Open(x) = [disk |-> d, log |-> l]
    BY DEF Open
  <1>2. f \in DOMAIN d /\ Files(d)
    <2>1. Files(x.disk) /\ <<>> \in Seq(Cell)
      BY DEF Good
    <2> QED
      BY <2>1 DEF Files
  <1>3. /\ \A g \in DOMAIN d : g # f => g \in DOMAIN x.disk /\ d[g] = x.disk[g]
        /\ \A g \in DOMAIN x.disk : g # f => g \in DOMAIN d /\ d[g] = x.disk[g]
        /\ d[f] = <<>> \/ (f \in DOMAIN x.disk /\ d[f] = x.disk[f])
        /\ ~attrs.overwrite /\ f \in DOMAIN x.disk => d[f] = x.disk[f]
    OBVIOUS
  <1> HIDE DEF d, new
  <1>4. Len(d[f]) \in Nat
    BY <1>2 DEF Files
  <1>5. /\ l \in [file : {f}, open : BOOLEAN, pos : Nat, empty : BOOLEAN, data : Seq(Cell)]
        /\ l.open /\ l.file = f /\ l.pos = Len(d[f]) /\ l.data = x.log.data
    BY <1>4 DEF Good
  <1> HIDE DEF l
  <1>6. Good(Open(x))
    BY <1>1, <1>2, <1>4, <1>5 DEF Good
  <1>7. \A k : Secure(Open(x), k) <=> Held(Open(x).disk, k)
    BY <1>1, <1>5, <1>6, SecureIsHeld
  <1>8. \A k : ~Holds(<<>>, k)
    BY DEF Holds
  <1>9. \A k : Held(d, k) => Held(x.disk, k)
    BY <1>3, <1>8 DEF Held
  <1>10. \A k : Held(x.disk, k) => Held(d, k) \/ attrs.overwrite
    BY <1>2, <1>3 DEF Held
  <1> HIDE DEF f
  <1> QED
    BY <1>1, <1>3, <1>5, <1>6, <1>7, <1>9, <1>10 DEF f


(* log_flush with an open file                                             *)
LEMMA FlushWrites ==
  ASSUME NEW x, Good(x), x.log.open, NEW flags \in {{}, Rewrite, Replace},
         NEW F, F = Flush(x, flags)
  PROVE  /\ Good(F) /\ F.log.open /\ F.log.file = x.log.file
         /\ F.log.data = (IF flags = Rewrite THEN x.log.data ELSE <<>>)
         /\ \A k : Secure(x, k) => Secure(F, k)
         /\ \A k : Held(F.disk, k) => Held(x.disk, k) \/ Holds(x.log.data, k)
         /\ flags # Rewrite => \A k : Holds(x.log.data, k) =>
              Before(F.disk[x.log.file], F.log.pos, k)
  <1> DEFINE l == x.log
             f == l.file
             end == l.pos + Len(Out(l))
             written == WriteAt(Cut(flags, WriteAt(x.disk[f], l.pos, Out(l)), end),
                                end, Trailer)
             pos == IF "keep_pointer" \in flags THEN end - Len(l.data) ELSE end
             data == IF "keep_buffer" \in flags THEN l.data ELSE <<>>
             empty == l.empty /\ Out(l) = <<>>
             m == [l EXCEPT !.empty = empty, !.pos = pos, !.data = data]
             d == [x.disk EXCEPT ![f] = written]
  <1>1. F = [disk |-> d, log |-> m]
    BY DEF Flush
  <1>2. /\ f \in DOMAIN x.disk /\ x.disk[f] \in Seq(Cell) /\ Files(x.disk)
        /\ l.pos \in Nat /\ l.pos <= Len(x.disk[f])
        /\ l.data \in Seq(Cell) /\ l.empty \in BOOLEAN
    BY DEF Good, Files
  <1>3. /\ Out(l) \in Seq(Cell) /\ Len(l.data) <= Len(Out(l))
        /\ \A k : Holds(Out(l), k) <=> Holds(l.data, k)
    <2> HIDE DEF l
    <2> QED
      BY <1>2, OutRecords
  <1>4. /\ written \in Seq(Cell) /\ end <= Len(written)
        /\ \A k : Before(x.disk[f], l.pos, k) => Before(written, l.pos, k)
        /\ \A k : Holds(l.data, k) => Before(written, end, k)
        /\ \A k : Holds(written, k) => Holds(x.disk[f], k) \/ Holds(l.data, k)
    <2> HIDE DEF l, f
    <2> QED
      BY <1>2, <1>3, WrittenRecords
  <1> HIDE DEF written
  <1>5. /\ "keep_pointer" \in flags <=> flags = Rewrite
        /\ "keep_buffer" \in flags <=> flags = Rewrite
    BY DEF Rewrite, Replace
  <1>6. end \in Nat /\ pos \in Nat /\ l.pos <= pos /\ pos <= end
        /\ (flags # Rewrite => pos = end)
    <2>1. Len(Out(l)) \in Nat /\ Len(l.data) \in Nat
      BY <1>2, <1>3
    <2>2. Len(l.data) <= Len(Out(l)) /\ l.pos \in Nat
      BY <1>2, <1>3
    <2> HIDE DEF l
    <2> QED
      BY <1>5, <2>1, <2>2
  <1>7. data = (IF flags = Rewrite THEN l.data ELSE <<>>) /\ data \in Seq(Cell)
    BY <1>2, <1>5
  <1> HIDE DEF end, pos, data
  <1>8. /\ m \in [file : {f}, open : BOOLEAN, pos : Nat, empty : BOOLEAN, data : Seq(Cell)]
        /\ m.open /\ m.file = f /\ m.pos = pos /\ m.data = data
    BY <1>2, <1>6, <1>7 DEF Good
  <1>9. /\ Files(d) /\ DOMAIN d = DOMAIN x.disk /\ d[f] = written
        /\ \A g \in DOMAIN d \ {f} : d[g] = x.disk[g]
    BY <1>2, <1>4 DEF Files
  <1> HIDE DEF m, d
  <1>10. pos <= Len(written)
    <2>1. Len(written) \in Nat
      BY <1>4
    <2> QED
      BY <1>4, <1>6, <2>1
  <1>11. Good(F)
    BY <1>1, <1>2, <1>8, <1>9, <1>10 DEF Good
  <1>12. ASSUME NEW k, Secure(x, k)
         PROVE  Secure(F, k)
    <2>1. PICK g \in DOMAIN x.disk : IF g = f THEN Before(x.disk[g], l.pos, k)
                                             ELSE Holds(x.disk[g], k)
      BY <1>12 DEF Secure
    <2>2. CASE g = f
      <3>1. Before(written, l.pos, k)
        BY <1>4, <2>1, <2>2
      <3>2. Before(written, pos, k)
        BY <1>2, <1>4, <1>6, <3>1, BeforeMore
      <3> HIDE DEF f, l
      <3> QED
        BY <1>1, <1>2, <1>8, <1>9, <3>2 DEF Secure
    <2>3. CASE g # f
      <3> HIDE DEF f, l
      <3> QED
        BY <1>1, <1>8, <1>9, <2>1, <2>3 DEF Secure
    <2> QED
      BY <2>2, <2>3
  <1>13. ASSUME NEW k, Held(d, k)
         PROVE  Held(x.disk, k) \/ Holds(l.data, k)
    <2> HIDE DEF f, l
    <2> QED
      BY <1>2, <1>4, <1>9, <1>13 DEF Held
  <1>14. ASSUME flags # Rewrite, NEW k, Holds(l.data, k)
         PROVE  Before(d[f], pos, k)
    <2> HIDE DEF f, l
    <2> QED
      BY <1>4, <1>6, <1>9, <1>14
  <1> HIDE DEF f, l
  <1>15. f = x.log.file /\ l = x.log
    BY DEF f, l
  <1> QED
    BY <1>1, <1>7, <1>8, <1>11, <1>12, <1>13, <1>14, <1>15

(* log_flush: a record that is not kept was in a file that "w" cut.        *)
LEMMA FlushKeeps ==
  ASSUME AttrsOK, NEW x, Good(x), x.log.open \/ attrs.lazy,
         NEW flags \in {{}, Rewrite, Replace}, NEW F, F = Flush(x, flags)
  PROVE  /\ Good(F) /\ (F.log.open \/ attrs.lazy) /\ F.log.file = x.log.file
         /\ F.log.data = <<>> \/ F.log.data = x.log.data
         /\ flags # Rewrite => F.log.data = <<>>
         /\ \A k : Covered(x, k) =>
              \/ Covered(F, k)
              \/ attrs.overwrite /\ Held(x.disk, k) /\ ~Held(F.disk, k)
         /\ flags # Rewrite => \A k : Holds(x.log.data, k) =>
              /\ F.log.open /\ x.log.file \in DOMAIN F.disk
              /\ Before(F.disk[x.log.file], F.log.pos, k)
  <1> DEFINE f == x.log.file
  <1>1. CASE x.log.open
    <2>1. /\ Good(F) /\ F.log.open /\ F.log.file = f
          /\ F.log.data = (IF flags = Rewrite THEN x.log.data ELSE <<>>)
          /\ \A k : Secure(x, k) => Secure(F, k)
          /\ flags # Rewrite =>
               \A k : Holds(x.log.data, k) => Before(F.disk[f], F.log.pos, k)
      BY <1>1, FlushWrites
    <2>2. f \in DOMAIN F.disk
      BY <2>1 DEF Good
    <2>3. ASSUME flags # Rewrite, NEW k, Holds(x.log.data, k)
          PROVE  Secure(F, k)
      BY <2>1, <2>2, <2>3 DEF Secure
    <2>4. \A k : Covered(x, k) => Covered(F, k)
      BY <2>1, <2>3 DEF Covered
    <2> QED
      BY <2>1, <2>2, <2>4
  <1>2. CASE ~x.log.open /\ x.log.data = <<>>
    <2>1. F = x
      BY <1>2 DEF Flush
    <2>2. \A k : ~Holds(x.log.data, k)
      BY <1>2 DEF Holds
    <2> QED
      BY <1>2, <2>1, <2>2
  <1>3. CASE ~x.log.open /\ x.log.data # <<>>
    <2> DEFINE y == Open(x)
    <2>1. /\ Good(y) /\ y.log.open /\ y.log.file = f /\ y.log.data = x.log.data
          /\ \A k : Secure(y, k) <=> Held(y.disk, k)
          /\ \A k : Held(x.disk, k) => Held(y.disk, k) \/ attrs.overwrite
      BY OpenKeeps
    <2>2. F = Flush(y, flags)
      BY <1>3, <2>1 DEF Flush
    <2> HIDE DEF y
    <2>3. Good(y) /\ y.log.open
      BY <2>1
    <2>4. /\ Good(F) /\ F.log.open /\ F.log.file = y.log.file
          /\ F.log.data = (IF flags = Rewrite THEN y.log.data ELSE <<>>)
          /\ \A k : Secure(y, k) => Secure(F, k)
          /\ \A k : Held(F.disk, k) => Held(y.disk, k) \/ Holds(y.log.data, k)
          /\ flags # Rewrite => \A k : Holds(y.log.data, k) =>
               Before(F.disk[y.log.file], F.log.pos, k)
      BY <2>2, <2>3, FlushWrites
    <2>5. f \in DOMAIN F.disk
      BY <2>1, <2>4 DEF Good
    <2>6. ASSUME NEW k, Holds(x.log.data, k)
          PROVE  Covered(F, k)
      <3>1. CASE flags = Rewrite
        BY <2>1, <2>4, <2>6, <3>1 DEF Covered
      <3>2. CASE flags # Rewrite
        BY <2>1, <2>4, <2>5, <2>6, <3>2 DEF Covered, Secure
      <3> QED
        BY <3>1, <3>2
    <2>7. ASSUME NEW k, Held(y.disk, k)
          PROVE  Covered(F, k)
      BY <2>1, <2>4, <2>7 DEF Covered
    <2>8. ASSUME NEW k, Covered(x, k), ~Covered(F, k)
          PROVE  attrs.overwrite /\ Held(x.disk, k) /\ ~Held(F.disk, k)
      <3>1. ~Holds(x.log.data, k) /\ ~Held(y.disk, k)
        BY <2>6, <2>7, <2>8
      <3>2. Held(x.disk, k)
        BY <2>8, <3>1, SecureIsHeld DEF Covered
      <3> QED
        BY <2>1, <2>4, <3>1, <3>2
    <2>9. F.log.file = f /\ F.log.data \in {<<>>, x.log.data}
      BY <2>1, <2>4
    <2>10. ASSUME flags # Rewrite, NEW k, Holds(x.log.data, k)
           PROVE  Before(F.disk[f], F.log.pos, k)
      BY <2>1, <2>4, <2>10
    <2> HIDE DEF f
    <2> QED
      BY <2>4, <2>5, <2>8, <2>9, <2>10 DEF f
  <1> QED
    BY <1>1, <1>2, <1>3

LEMMA CloseKeeps ==
  ASSUME NEW x, Good(x)
  PROVE  LET C == Close(x)
             f == x.log.file
         IN /\ Good(C) /\ ~C.log.open /\ C.log.file = f /\ C.log.data = x.log.data
            /\ \A k : Secure(x, k) => Held(C.disk, k)
            /\ \A k : Held(C.disk, k) => Held(x.disk, k)
            /\ x.log.open => \A k : Before(x.disk[f], x.log.pos, k) =>
                 f \in DOMAIN C.disk /\ Holds(C.disk[f], k)
  <1> DEFINE C == Close(x)
             f == x.log.file
  <1>1. CASE ~x.log.open
    <2>1. C = x
      BY <1>1 DEF Close
    <2> QED
      BY <1>1, <2>1, SecureIsHeld
  <1>2. CASE x.log.open
    <2> DEFINE w == WriteAt(x.disk[f], x.log.pos, Trailer)
               d == [x.disk EXCEPT ![f] = w]
               l == [x.log EXCEPT !.open = FALSE]
    <2>1. C = [disk |-> d, log |-> l]
      BY <1>2 DEF Close
    <2>2. /\ f \in DOMAIN x.disk /\ x.disk[f] \in Seq(Cell) /\ Files(x.disk)
          /\ x.log.pos \in Nat /\ x.log.pos <= Len(x.disk[f])
      BY <1>2 DEF Good, Files
    <2>3. /\ w \in Seq(Cell)
          /\ \A k : Before(x.disk[f], x.log.pos, k) => Before(w, x.log.pos, k)
          /\ \A k : Holds(w, k) => Holds(x.disk[f], k)
      <3> HIDE DEF f
      <3> QED
        BY <2>2, WriteAtCells, WriteAtRecords, HeaderTrailer
    <2> HIDE DEF w
    <2>4. /\ l \in [file : {f}, open : BOOLEAN, pos : Nat, empty : BOOLEAN, data : Seq(Cell)]
          /\ ~l.open /\ l.file = f /\ l.data = x.log.data
      BY DEF Good
    <2>5. /\ Files(d) /\ DOMAIN d = DOMAIN x.disk /\ d[f] = w
          /\ \A g \in DOMAIN d \ {f} : d[g] = x.disk[g]
      BY <2>2, <2>3 DEF Files
    <2> HIDE DEF d, l
    <2>6. Good(C)
      BY <2>1, <2>4, <2>5 DEF Good
    <2>7. \A k : Before(x.disk[f], x.log.pos, k) => Holds(d[f], k)
      BY <2>2, <2>3, <2>5, BeforeMore
    <2>8. \A k : Held(d, k) => Held(x.disk, k)
      BY <2>2, <2>3, <2>5 DEF Held
    <2>9. ASSUME NEW k, Secure(x, k)
          PROVE  Held(d, k)
      <3>1. PICK g \in DOMAIN x.disk : IF g = f THEN Before(x.disk[g], x.log.pos, k)
                                               ELSE Holds(x.disk[g], k)
        BY <1>2, <2>9 DEF Secure
      <3> HIDE DEF f
      <3> QED
        BY <2>5, <2>7, <3>1 DEF Held
    <2> HIDE DEF C
    <2> QED
      BY <2>1, <2>2, <2>4, <2>5, <2>6, <2>7, <2>8, <2>9 DEF C
  <1> QED
    BY <1>1, <1>2


(* log_change: the new name has another time than the old one, so that     *)
(* "w" cannot cut what has just been flushed.                              *)
LEMMA ChangeKeeps ==
  ASSUME AttrsOK, NEW x, Good(x), x.log.open \/ attrs.lazy, x.log.file.at # now
  PROVE  LET D == Change(x)
         IN /\ Good(D) /\ (D.log.open \/ attrs.lazy) /\ D.log.data = <<>>
            /\ \A k : Covered(x, k) =>
                 \/ Covered(D, k)
                 \/ attrs.overwrite /\ Held(x.disk, k) /\ ~Held(D.disk, k)
  <1> DEFINE f == x.log.file
             F == Flush(x, {})
             C == Close(F)
             z == [C EXCEPT !.log.file = ExpandFilenames(C.disk, now)]
             D == Change(x)
  <1>1. /\ Good(F) /\ F.log.file = f /\ F.log.data = <<>>
        /\ \A k : Covered(x, k) =>
             \/ Covered(F, k)
             \/ attrs.overwrite /\ Held(x.disk, k) /\ ~Held(F.disk, k)
        /\ \A k : Holds(x.log.data, k) =>
             F.log.open /\ f \in DOMAIN F.disk /\ Before(F.disk[f], F.log.pos, k)
    <2>1. {} # Rewrite
      BY DEF Rewrite
    <2> QED
      BY <2>1, FlushKeeps
  <1> HIDE DEF F
  <1>2. /\ Good(C) /\ ~C.log.open /\ C.log.file = f /\ C.log.data = <<>>
        /\ \A k : Secure(F, k) => Held(C.disk, k)
        /\ \A k : Held(C.disk, k) => Held(F.disk, k)
        /\ \A k : Holds(x.log.data, k) => f \in DOMAIN C.disk /\ Holds(C.disk[f], k)
    BY <1>1, CloseKeeps
  <1>3. D = OpenUnlessLazy(z)
    BY DEF Change, F
  <1> HIDE DEF C
  <1>4. ExpandFilenames(C.disk, now) # f
    <2>1. ExpandFilenames(C.disk, now).at = now
      BY DEF ExpandFilenames
    <2> QED
      BY <2>1
  <1>5. /\ Good(z) /\ ~z.log.open /\ z.log.file # f /\ z.log.data = <<>>
        /\ z.disk = C.disk
    <2> DEFINE g == ExpandFilenames(C.disk, now)
    <2>1. g # f
      BY <1>4
    <2> HIDE DEF g
    <2>2. z = [disk |-> C.disk, log |-> [C.log EXCEPT !.file = g]]
      BY <1>2 DEF Good, g
    <2> HIDE DEF z
    <2>3. [C.log EXCEPT !.file = g] \in [file : {g}, open : BOOLEAN, pos : Nat,
                                         empty : BOOLEAN, data : Seq(Cell)]
      BY <1>2 DEF Good
    <2>4. /\ [C.log EXCEPT !.file = g].file = g
          /\ [C.log EXCEPT !.file = g].open = C.log.open
          /\ [C.log EXCEPT !.file = g].data = C.log.data
      BY <1>2 DEF Good
    <2> QED
      BY <1>2, <2>1, <2>2, <2>3, <2>4 DEF Good
  <1> HIDE DEF z, D
  <1>6. \A k : ~Holds(<<>>, k)
    BY DEF Holds
  <1>7. CASE attrs.lazy
    <2>1. D = z
      BY <1>3, <1>7 DEF OpenUnlessLazy
    <2>2. ASSUME NEW k, Held(C.disk, k)
          PROVE  Covered(D, k)
      BY <1>5, <2>1, <2>2, SecureIsHeld DEF Covered
    <2>3. ASSUME NEW k, Covered(x, k), ~Covered(D, k)
          PROVE  attrs.overwrite /\ Held(x.disk, k) /\ ~Held(D.disk, k)
      BY <1>1, <1>2, <1>5, <1>6, <2>1, <2>2, <2>3 DEF Covered
    <2> QED
      BY <1>5, <1>7, <2>1, <2>3 DEF D
  <1>8. CASE ~attrs.lazy
    <2>1. D = Open(z)
      BY <1>3, <1>8 DEF OpenUnlessLazy
    <2>2. /\ Good(D) /\ D.log.open /\ D.log.data = <<>>
          /\ \A k : Secure(D, k) <=> Held(D.disk, k)
          /\ \A k : Held(D.disk, k) => Held(C.disk, k)
          /\ \A k : Held(C.disk, k) => Held(D.disk, k) \/ attrs.overwrite
          /\ \A g \in DOMAIN C.disk \ {z.log.file} :
               g \in DOMAIN D.disk /\ D.disk[g] = C.disk[g]
      BY <1>5, <2>1, OpenKeeps
    <2>3. ASSUME NEW k, Holds(x.log.data, k)
          PROVE  Covered(D, k)
      <3>1. f \in DOMAIN C.disk \ {z.log.file} /\ Holds(C.disk[f], k)
        BY <1>2, <1>5, <2>3
      <3>2. Held(D.disk, k)
        BY <2>2, <3>1 DEF Held
      <3> QED
        BY <2>2, <3>2 DEF Covered
    <2>4. ASSUME NEW k, Covered(x, k), ~Covered(D, k)
          PROVE  attrs.overwrite /\ Held(x.disk, k) /\ ~Held(D.disk, k)
      <3>1. ~Held(D.disk, k) /\ ~Holds(x.log.data, k)
        BY <2>2, <2>3, <2>4 DEF Covered
      <3>2. Held(x.disk, k)
        BY <2>4, <3>1, SecureIsHeld DEF Covered
      <3>3. attrs.overwrite
        BY <1>1, <1>2, <1>6, <2>2, <2>4, <3>1 DEF Covered
      <3> QED
        BY <3>1, <3>2, <3>3
    <2> QED
      BY <2>2, <2>4 DEF D
  <1> QED
    BY <1>7, <1>8

(* log_new                                                                 *)
LEMMA NewLogKeeps ==
  ASSUME AttrsOK, NEW d, Files(d)
  PROVE  LET N == NewLog(d)
         IN /\ Good(N) /\ (N.log.open \/ attrs.lazy) /\ N.log.data = <<>>
            /\ \A k : Held(d, k) => Covered(N, k) \/ (attrs.overwrite /\ ~Held(N.disk, k))
  <1> DEFINE g == ExpandFilenames(d, now)
             l == [file |-> g, open |-> FALSE, pos |-> 0, empty |-> FALSE, data |-> <<>>]
             z == [disk |-> d, log |-> l]
             N == NewLog(d)
  <1>1. N = OpenUnlessLazy(z)
    BY DEF NewLog
  <1> HIDE DEF g
  <1>2. Good(z) /\ ~z.log.open /\ z.log.data = <<>> /\ z.disk = d
    <2>1. l \in [file : {g}, open : BOOLEAN, pos : Nat, empty : BOOLEAN, data : Seq(Cell)]
      OBVIOUS
    <2> QED
      BY <2>1 DEF Good
  <1> HIDE DEF z, N
  <1>3. CASE attrs.lazy
    <2>1. N = z
      BY <1>1, <1>3 DEF OpenUnlessLazy
    <2> QED
      BY <1>2, <1>3, <2>1, SecureIsHeld DEF Covered, N
  <1>4. CASE ~attrs.lazy
    <2>1. N = Open(z)
      BY <1>1, <1>4 DEF OpenUnlessLazy
    <2>2. /\ Good(N) /\ N.log.open /\ N.log.data = <<>>
          /\ \A k : Secure(N, k) <=> Held(N.disk, k)
          /\ \A k : Held(d, k) => Held(N.disk, k) \/ attrs.overwrite
      BY <1>2, <2>1, OpenKeeps
    <2> QED
      BY <2>2 DEF Covered, N
  <1> QED
    BY <1>3, <1>4


-----------------------------------------------------------------------------
(* The invariant                                                           *)
Typed ==
  /\ AttrsOK
  /\ Files(disk)
  /\ pending \in [cells : Seq(Cell), flags : {{}, Rewrite, Replace}]
  /\ pc \in {"idle", "write", "flush", "again", "dead"}
  /\ count \in Nat

Running == pc # "dead" => Good(Here) /\ (log.open \/ attrs.lazy)

(* Only a binfile log takes records back from the buffer, and then it      *)
(* gives them again.                                                       *)
Collecting ==
  /\ pending.flags # {} \/ pc = "again" => attrs.type = "binfile"
  /\ pc \in {"idle", "flush", "again"} => pending.cells = <<>>
  /\ attrs.type = "binfile" /\ pc # "dead" =>
       log.data = <<>> \/ ~IsRecord(log.data[1])
  /\ attrs.type = "binfile" /\ pc = "write" =>
       /\ pending.flags # {}
       /\ pending.cells # <<>> /\ ~IsRecord(pending.cells[1])
       /\ \A k : Holds(log.data, k) => Holds(pending.cells, k) \/ k \in dropped

Kept ==
  \A k \in 1..count :
    \/ k \in dropped \cup lost
    \/ IF pc = "dead" THEN Held(disk, k) ELSE Covered(Here, k) \/ Holds(pending.cells, k)

IInv == Typed /\ Running /\ Collecting /\ Kept

LEMMA NothingHeld == \A k : ~Holds(<<>>, k)
  BY DEF Holds

LEMMA EmptyTyped == <<>> \in Seq(Cell) /\ {} # Rewrite
  BY DEF Rewrite

LEMMA OverwrittenHeld ==
  ASSUME NEW x, NEW k, attrs.overwrite, Held(disk, k), ~Held(x.disk, k)
  PROVE  k \in Overwritten(x)
  BY OnDiskHolds DEF Held, Overwritten

LEMMA InitIInv == Init => IInv
  <1> SUFFICES ASSUME Init
               PROVE  IInv
    OBVIOUS
  <1> DEFINE x == NewLog(<<>>)
  <1>1. AttrsOK /\ disk = x.disk /\ log = x.log
    BY DEF Init, AttrsOK
  <1>2. Files(<<>>)
    BY DEF Files
  <1>3. Good(x) /\ (x.log.open \/ attrs.lazy) /\ x.log.data = <<>>
    BY <1>1, <1>2, NewLogKeeps
  <1> HIDE DEF x
  <1>4. Here = x
    BY <1>1, <1>3 DEF Here, Good
  <1>5. Typed
    BY <1>1, <1>3, EmptyTyped DEF Init, Typed, Good
  <1>6. Running
    BY <1>1, <1>3, <1>4 DEF Running
  <1>7. Collecting
    BY <1>1, <1>3 DEF Init, Collecting
  <1>8. Kept
    BY DEF Init, Kept
  <1> QED
    BY <1>5, <1>6, <1>7, <1>8 DEF IInv

(* A step of a running log that writes to files, as log_flush and          *)
(* log_change do                                                           *)
LEMMA BecomeKeeps ==
  ASSUME IInv, pc # "dead", pc' \in {"idle", "write", "flush", "again"},
         NEW x, Good(x), x.log.open \/ attrs.lazy, Become(x),
         x.log.data = <<>> \/ x.log.data = log.data,
         \A k : Covered(Here, k) =>
           Covered(x, k) \/ (attrs.overwrite /\ Held(disk, k) /\ ~Held(x.disk, k)),
         dropped' = dropped \cup Overwritten(x),
         pc' # pc => pc = "flush" /\ pc' # "write",
         pc' = "again" => pc = "again" \/ attrs.type = "binfile",
         UNCHANGED <<attrs, kills, pending, count, lost>>
  PROVE  IInv'
  <1>1. Here' = x
    BY DEF Become, Here, Good
  <1>2. disk' = x.disk /\ log' = x.log
    BY DEF Become
  <1>3. Typed'
    BY <1>2 DEF IInv, Typed, AttrsOK, Good, Files, Cell
  <1>4. Running'
    BY <1>1, <1>2 DEF Running, Good, Files, Cell
  <1>5. Collecting'
    BY <1>2, NothingHeld DEF IInv, Typed, Collecting, Holds, IsRecord
  <1>6. Kept'
    <2> SUFFICES ASSUME NEW k \in 1..count, k \notin dropped', k \notin lost
                 PROVE  Covered(x, k) \/ Holds(pending.cells, k)
      BY <1>1 DEF Kept, Holds, IsRecord, Covered, Secure, Before
    <2>1. Covered(Here, k) \/ Holds(pending.cells, k)
      BY DEF IInv, Kept
    <2> QED
      BY <2>1, OverwrittenHeld
  <1> QED
    BY <1>3, <1>4, <1>5, <1>6 DEF IInv


-----------------------------------------------------------------------------
(* vehicle_log_binfile                                                     *)
LEMMA LengthCell ==
  ASSUME NEW n \in Nat
  PROVE  Length(n) \in Cell /\ ~IsRecord(Length(n)) /\ Length(n)[2] = n
  BY DEF Length, Cell, IsRecord

LEMMA RecordCell ==
  ASSUME NEW k \in Nat
  PROVE  Record(k) \in Cell /\ IsRecord(Record(k)) /\ Record(k)[2] = k
  BY DEF Record, Cell, IsRecord

LEMMA LongerItem ==
  ASSUME log.data \in Seq(Cell), log.data = <<>> \/ ~IsRecord(log.data[1]),
         NEW k \in Nat
  PROVE  /\ Longer(k) \in Seq(Cell) /\ Longer(k) # <<>>
         /\ ~IsRecord(Longer(k)[1])
         /\ \A j : Holds(log.data, j) \/ j = k => Holds(Longer(k), j)
  <1>1. CASE log.data = <<>>
    <2>1. Longer(k) = <<Length(1), Record(k)>>
      BY <1>1 DEF Longer
    <2>2. Length(1) \in Cell /\ ~IsRecord(Length(1)) /\ Record(k) \in Cell
      BY LengthCell, RecordCell
    <2>3. Holds(<<Length(1), Record(k)>>, k)
      BY RecordCell DEF Holds
    <2> QED
      BY <1>1, <2>1, <2>2, <2>3, NothingHeld
  <1>2. CASE log.data # <<>>
    <2> DEFINE s == log.data
               n == Len(s)
               w == [i \in 1..(n + 1) |-> IF i = 1 THEN Length(s[1][2] + 1)
                                          ELSE IF i <= n THEN s[i] ELSE Record(k)]
    <2>1. Longer(k) = w
      BY <1>2 DEF Longer
    <2>2. s \in Seq(Cell) /\ s # <<>>
      BY <1>2
    <2> HIDE DEF s
    <2>3. n \in Nat /\ n >= 1 /\ DOMAIN s = 1..n /\ \A i \in 1..n : s[i] \in Cell
      BY <2>2
    <2>4. s[1][2] + 1 \in Nat
      <3>1. s[1] \in Cell
        BY <2>3
      <3> QED
        BY <3>1 DEF Cell
    <2>5. /\ Length(s[1][2] + 1) \in Cell /\ ~IsRecord(Length(s[1][2] + 1))
          /\ Record(k) \in Cell /\ IsRecord(Record(k)) /\ Record(k)[2] = k
      BY <2>4, LengthCell, RecordCell
    <2> HIDE DEF n
    <2>6. \A i \in 1..(n + 1) : w[i] \in Cell
      BY <2>3, <2>5
    <2>7. w \in Seq(Cell) /\ DOMAIN w = 1..(n + 1) /\ w # <<>>
      <3>1. w \in [1..(n + 1) -> Cell] /\ n + 1 \in Nat
        BY <2>3, <2>6
      <3>2. w \in Seq(Cell)
        BY <3>1
      <3>3. 1 \in DOMAIN w
        BY <2>3
      <3> QED
        BY <3>2, <3>3
    <2>8. ~IsRecord(w[1])
      BY <2>3, <2>5
    <2>9. Holds(w, k)
      <3>1. n + 1 \in DOMAIN w /\ w[n + 1] = Record(k)
        BY <2>3
      <3> QED
        BY <2>5, <3>1 DEF Holds
    <2>10. ASSUME NEW j, Holds(s, j)
           PROVE  Holds(w, j)
      <3>1. PICK i \in 1..n : IsRecord(s[i]) /\ s[i][2] = j
        BY <2>3, <2>10 DEF Holds
      <3>2. i # 1
        BY <1>2, <3>1 DEF s
      <3>3. i \in DOMAIN w /\ w[i] = s[i]
        BY <2>3, <3>1, <3>2
      <3> QED
        BY <3>1, <3>3 DEF Holds
    <2> HIDE DEF w
    <2> QED
      BY <2>1, <2>7, <2>8, <2>9, <2>10 DEF s
  <1> QED
    BY <1>1, <1>2

LEMMA SimplifiedItem ==
  ASSUME NEW item \in Seq(Cell), item # <<>>, NEW s \in Simplified(item)
  PROVE  s \in Seq(Cell) /\ s # <<>> /\ ~IsRecord(s[1])
  <1> DEFINE points == Tail(item)
  <1>1. points \in Seq(Cell)
    OBVIOUS
  <1> HIDE DEF points
  <1>2. PICK q \in SeqOf(DOMAIN points, Len(points)) :
          s = <<Length(Len(q))>> \o [i \in DOMAIN q |-> points[q[i]]]
    BY DEF Simplified, points
  <1>3. PICK m \in 0..Len(points) : q \in [1..m -> DOMAIN points]
    BY DEF SeqOf
  <1>4. m \in Nat /\ Len(q) \in Nat
    <2>1. Len(points) \in Nat
      BY <1>1
    <2>2. m \in Nat
      BY <2>1
    <2> QED
      BY <1>3, <2>2
  <1> DEFINE t == [i \in DOMAIN q |-> points[q[i]]]
  <1>5. t \in Seq(Cell)
    <2>1. \A i \in 1..m : q[i] \in DOMAIN points /\ points[q[i]] \in Cell
      BY <1>1, <1>3
    <2>2. t \in [1..m -> Cell]
      BY <1>3, <2>1
    <2> HIDE DEF t
    <2> QED
      BY <1>4, <2>2
  <1> HIDE DEF t
  <1> DEFINE c == Length(Len(q))
  <1>6. c \in Cell /\ ~IsRecord(c)
    BY <1>4, LengthCell
  <1> HIDE DEF c
  <1>7. <<c>> \o t \in Seq(Cell) /\ (<<c>> \o t)[1] = c /\ <<c>> \o t # <<>>
    BY <1>5, <1>6
  <1> QED
    BY <1>2, <1>6, <1>7 DEF c, t

LEMMA AddPointKeeps ==
  ASSUME IInv, attrs.type = "binfile", pc # "dead", NEW k \in Nat, AddPoint(k)
  PROVE  /\ pending' \in [cells : Seq(Cell), flags : {{}, Rewrite, Replace}]
         /\ pc' = "write" /\ dropped \subseteq dropped'
         /\ pending'.flags # {}
         /\ pending'.cells # <<>> /\ ~IsRecord(pending'.cells[1])
         /\ \A j : Holds(log.data, j) \/ j = k =>
              Holds(pending'.cells, j) \/ j \in dropped'
  <1> DEFINE item == Longer(k)
  <1>1. /\ item \in Seq(Cell) /\ item # <<>> /\ ~IsRecord(item[1])
        /\ \A j : Holds(log.data, j) \/ j = k => Holds(item, j)
    <2>1. log.data \in Seq(Cell) /\ (log.data = <<>> \/ ~IsRecord(log.data[1]))
      BY DEF IInv, Running, Collecting, Good, Here
    <2> QED
      BY <2>1, LongerItem
  <1>2. pc' = "write"
    BY DEF AddPoint
  <1>3. CASE item[1][2] > limit
    <2>1. PICK s \in Simplified(item) :
            /\ pending' = [cells |-> s, flags |-> Replace]
            /\ dropped' = dropped \cup (RecordsIn(item) \ RecordsIn(s))
      BY <1>3 DEF AddPoint, Replace
    <2> HIDE DEF item
    <2>2. s \in Seq(Cell) /\ s # <<>> /\ ~IsRecord(s[1])
      BY <1>1, SimplifiedItem
    <2>3. \A j : Holds(item, j) => Holds(s, j) \/ j \in dropped'
      BY <2>1, HoldsIsRecordsIn
    <2>4. Replace # {}
      BY DEF Replace
    <2> QED
      BY <1>1, <1>2, <2>1, <2>2, <2>3, <2>4
  <1>4. CASE ~(item[1][2] > limit)
    <2>1. pending' = [cells |-> item, flags |-> Rewrite] /\ dropped' = dropped
      BY <1>4 DEF AddPoint, Rewrite
    <2> HIDE DEF item
    <2>2. Rewrite # {}
      BY DEF Rewrite
    <2> QED
      BY <1>1, <1>2, <2>1, <2>2
  <1> QED
    BY <1>3, <1>4


-----------------------------------------------------------------------------
(* The steps                                                               *)
LEMMA LogLineIInv == IInv /\ LogLine => IInv'
  <1> SUFFICES ASSUME IInv, LogLine
               PROVE  IInv'
    OBVIOUS
  <1>1. /\ pc = "idle" /\ pc' = "write" /\ attrs.type # "binfile"
        /\ count \in Nat /\ count' = count + 1
        /\ pending' = [cells |-> <<Record(count')>>, flags |-> {}]
        /\ UNCHANGED <<attrs, kills, disk, log, dropped, lost>>
    BY DEF LogLine, IInv, Typed
  <1>2. Record(count') \in Cell /\ Holds(<<Record(count')>>, count')
    BY <1>1, RecordCell DEF Holds
  <1>3. Typed'
    BY <1>1, <1>2 DEF IInv, Typed, AttrsOK, Files, Cell
  <1>4. Here' = Here
    BY <1>1 DEF Here
  <1>5. Running'
    BY <1>1, <1>4 DEF IInv, Running, Good, Files, Cell, Here
  <1>6. Collecting'
    BY <1>1 DEF Collecting
  <1>7. Kept'
    <2> SUFFICES ASSUME NEW k \in 1..(count + 1), k \notin dropped, k \notin lost
                 PROVE  Covered(Here, k) \/ Holds(pending'.cells, k)
      BY <1>1, <1>4 DEF Kept, Holds, IsRecord, Covered, Secure, Before
    <2>1. CASE k = count + 1
      BY <1>1, <1>2, <2>1
    <2>2. CASE k # count + 1
      <3>1. k \in 1..count
        BY <1>1, <2>2
      <3>2. pending.cells = <<>>
        BY <1>1 DEF IInv, Collecting
      <3> QED
        BY <1>1, <3>1, <3>2, NothingHeld DEF IInv, Kept
    <2> QED
      BY <2>1, <2>2
  <1> QED
    BY <1>3, <1>5, <1>6, <1>7 DEF IInv

(* A round of vehicle_log_binfile, for a new point or the latest one       *)
LEMMA PointIInv ==
  ASSUME IInv, pc \in {"idle", "again"}, attrs.type = "binfile",
         count' \in {count, count + 1},
         \E k \in Nat : AddPoint(k) /\ (count' = count + 1 => k = count'),
         UNCHANGED <<attrs, kills, disk, log, lost>>
  PROVE  IInv'
  <1>1. PICK k \in Nat : AddPoint(k) /\ (count' = count + 1 => k = count')
    OBVIOUS
  <1>2. /\ pending' \in [cells : Seq(Cell), flags : {{}, Rewrite, Replace}]
        /\ pc' = "write" /\ dropped \subseteq dropped'
        /\ pending'.flags # {}
        /\ pending'.cells # <<>> /\ ~IsRecord(pending'.cells[1])
        /\ \A j : Holds(log.data, j) \/ j = k =>
             Holds(pending'.cells, j) \/ j \in dropped'
    BY <1>1, AddPointKeeps
  <1>3. Here' = Here /\ Good(Here) /\ (log.open \/ attrs.lazy) /\ count \in Nat
        /\ pending.cells = <<>>
    BY DEF Here, IInv, Running, Typed, Collecting
  <1>4. Typed'
    BY <1>2, <1>3 DEF IInv, Typed, AttrsOK, Files, Cell, Rewrite, Replace
  <1>5. Running'
    BY <1>3 DEF Running, Good, Files, Cell, Here
  <1>6. Collecting'
    BY <1>2 DEF IInv, Collecting, Holds, IsRecord
  <1>7. Kept'
    <2> SUFFICES ASSUME NEW j \in 1..count', j \notin dropped', j \notin lost
                 PROVE  Covered(Here, j) \/ Holds(pending'.cells, j)
      BY <1>2, <1>3 DEF Kept, Holds, IsRecord, Covered, Secure, Before
    <2>1. CASE count' = count + 1 /\ j = count'
      BY <1>1, <1>2, <2>1
    <2>2. CASE ~(count' = count + 1 /\ j = count')
      <3>1. j \in 1..count
        BY <1>3, <2>2
      <3> QED
        BY <1>2, <1>3, <3>1, NothingHeld DEF IInv, Kept
    <2> QED
      BY <2>1, <2>2
  <1> QED
    BY <1>4, <1>5, <1>6, <1>7 DEF IInv

LEMMA WriteChangeIInv == IInv /\ WriteChange => IInv'
  <1> SUFFICES ASSUME IInv, WriteChange
               PROVE  IInv'
    OBVIOUS
  <1> DEFINE x == Change(Here)
  <1>1. AttrsOK /\ Good(Here) /\ (log.open \/ attrs.lazy) /\ log.file.at # now
        /\ pc = "write" /\ Become(x) /\ dropped' = dropped \cup Overwritten(x)
        /\ UNCHANGED <<attrs, kills, pending, pc, count, lost>>
    BY DEF WriteChange, ChangeRequired, IInv, Typed, Running
  <1>2. Here.log = log /\ Here.disk = disk
    BY DEF Here
  <1>3. /\ Good(x) /\ (x.log.open \/ attrs.lazy) /\ x.log.data = <<>>
        /\ \A k : Covered(Here, k) =>
             Covered(x, k) \/ (attrs.overwrite /\ Held(disk, k) /\ ~Held(x.disk, k))
    BY <1>1, <1>2, ChangeKeeps
  <1> HIDE DEF x
  <1> QED
    BY <1>1, <1>3, BecomeKeeps

LEMMA FlushHere ==
  ASSUME IInv, pc # "dead", NEW flags \in {{}, Rewrite, Replace}
  PROVE  LET x == Flush(Here, flags)
         IN /\ Good(x) /\ (x.log.open \/ attrs.lazy)
            /\ x.log.data = <<>> \/ x.log.data = log.data
            /\ flags # Rewrite => x.log.data = <<>>
            /\ \A k : Covered(Here, k) =>
                 Covered(x, k) \/ (attrs.overwrite /\ Held(disk, k) /\ ~Held(x.disk, k))
  <1>1. AttrsOK /\ Good(Here) /\ (log.open \/ attrs.lazy)
    BY DEF IInv, Typed, Running
  <1>2. Here.log = log /\ Here.disk = disk
    BY DEF Here
  <1> DEFINE h == Here
             x == Flush(h, flags)
  <1>3. Good(h) /\ (h.log.open \/ attrs.lazy) /\ h.log = log /\ h.disk = disk
    BY <1>1, <1>2
  <1> HIDE DEF h
  <1>4. AttrsOK /\ Good(h) /\ (h.log.open \/ attrs.lazy)
    BY <1>1, <1>3
  <1>5. /\ Good(x) /\ (x.log.open \/ attrs.lazy)
        /\ x.log.data = <<>> \/ x.log.data = h.log.data
        /\ flags # Rewrite => x.log.data = <<>>
        /\ \A k : Covered(h, k) =>
             Covered(x, k) \/ (attrs.overwrite /\ Held(h.disk, k) /\ ~Held(x.disk, k))
    BY <1>4, FlushKeeps
  <1> HIDE DEF x
  <1> QED
    BY <1>3, <1>5 DEF x, h

LEMMA WriteFlushIInv == IInv /\ WriteFlush => IInv'
  <1> SUFFICES ASSUME IInv, WriteFlush
               PROVE  IInv'
    OBVIOUS
  <1> DEFINE x == Flush(Here, pending.flags)
  <1>1. /\ pc = "flush" /\ Become(x) /\ dropped' = dropped \cup Overwritten(x)
        /\ pc' = (IF "truncate" \in pending.flags THEN "again" ELSE "idle")
        /\ pending.flags \in {{}, Rewrite, Replace}
        /\ (pending.flags # {} => attrs.type = "binfile")
        /\ UNCHANGED <<attrs, kills, pending, count, lost>>
    BY DEF WriteFlush, IInv, Typed, Collecting
  <1>2. /\ Good(x) /\ (x.log.open \/ attrs.lazy)
        /\ x.log.data = <<>> \/ x.log.data = log.data
        /\ \A k : Covered(Here, k) =>
             Covered(x, k) \/ (attrs.overwrite /\ Held(disk, k) /\ ~Held(x.disk, k))
    BY <1>1, FlushHere
  <1> HIDE DEF x
  <1> QED
    BY <1>1, <1>2, BecomeKeeps

LEMMA TimerIInv == IInv /\ Timer => IInv'
  <1> SUFFICES ASSUME IInv, Timer
               PROVE  IInv'
    OBVIOUS
  <1> DEFINE x == Flush(Here, {})
  <1>1. /\ pc = "idle" /\ Become(x) /\ dropped' = dropped \cup Overwritten(x)
        /\ UNCHANGED <<attrs, kills, pending, pc, count, lost>>
    BY DEF Timer
  <1>2. /\ Good(x) /\ (x.log.open \/ attrs.lazy)
        /\ x.log.data = <<>> \/ x.log.data = log.data
        /\ \A k : Covered(Here, k) =>
             Covered(x, k) \/ (attrs.overwrite /\ Held(disk, k) /\ ~Held(x.disk, k))
    BY <1>1, FlushHere
  <1> HIDE DEF x
  <1> QED
    BY <1>1, <1>2, BecomeKeeps

LEMMA WriteBufferIInv == IInv /\ WriteBuffer => IInv'
  <1> SUFFICES ASSUME IInv, WriteBuffer
               PROVE  IInv'
    OBVIOUS
  <1> DEFINE data == (IF "replace_buffer" \in pending.flags THEN <<>> ELSE log.data)
                     \o pending.cells
  <1>1. /\ pc = "write" /\ log' = [log EXCEPT !.data = data]
        /\ pc' = (IF Len(data) > flush_size \/ "force_flush" \in pending.flags
                  THEN "flush" ELSE "idle")
        /\ pending' = [pending EXCEPT !.cells = <<>>]
        /\ UNCHANGED <<attrs, kills, disk, count, dropped, lost>>
    BY DEF WriteBuffer
  <1>2. /\ Good(Here) /\ (log.open \/ attrs.lazy) /\ log.data \in Seq(Cell)
        /\ pending \in [cells : Seq(Cell), flags : {{}, Rewrite, Replace}]
        /\ ("replace_buffer" \in pending.flags <=> pending.flags # {})
        /\ (pending.flags # {} <=> attrs.type = "binfile")
    BY <1>1 DEF IInv, Typed, Running, Collecting, Rewrite, Replace, Good, Here
  <1>3. /\ data \in Seq(Cell)
        /\ \A k : Holds(log.data, k) \/ Holds(pending.cells, k) =>
                    Holds(data, k) \/ k \in dropped
        /\ attrs.type = "binfile" => ~IsRecord(data[1])
    <2>1. CASE attrs.type = "binfile"
      <3>1. data = pending.cells
        BY <1>2, <2>1
      <3> QED
        BY <1>1, <1>2, <2>1, <3>1 DEF IInv, Collecting
    <2>2. CASE attrs.type # "binfile"
      <3>1. data = log.data \o pending.cells
        BY <1>2, <2>2
      <3> QED
        BY <1>2, <2>2, <3>1, HoldsConcat
    <2> QED
      BY <2>1, <2>2
  <1> HIDE DEF data
  <1>4. /\ log' \in [file : {log.file}, open : BOOLEAN, pos : Nat, empty : BOOLEAN,
                     data : Seq(Cell)]
        /\ log'.file = log.file /\ log'.open = log.open /\ log'.pos = log.pos
        /\ log'.data = data
    BY <1>1, <1>2, <1>3 DEF Good, Here
  <1>5. Good(Here')
    <2>1. Here' = [disk |-> disk, log |-> log']
      BY <1>1 DEF Here
    <2>2. Files(disk) /\ (log.open => log.file \in DOMAIN disk
                                      /\ log.pos <= Len(disk[log.file]))
      BY <1>2 DEF Good, Here
    <2> QED
      BY <1>4, <2>1, <2>2 DEF Good
  <1>6. Typed'
    BY <1>1, <1>2, EmptyTyped DEF IInv, Typed, AttrsOK, Files, Cell
  <1>7. Running'
    BY <1>1, <1>2, <1>4, <1>5 DEF Running, Good, Files, Cell
  <1>8. Collecting'
    <2>1. pc' \in {"flush", "idle"} /\ pending'.cells = <<>>
          /\ pending'.flags = pending.flags
      BY <1>1, <1>2
    <2>2. (attrs.type = "binfile" => ~IsRecord(log'.data[1]))
      BY <1>3, <1>4
    <2> QED
      BY <1>1, <1>2, <2>1, <2>2 DEF Collecting, IsRecord
  <1>9. Kept'
    <2>1. \A k : Secure(Here, k) => Secure(Here', k)
      BY <1>1, <1>4 DEF Secure, Here
    <2>2. \A k : Holds(data, k) => Covered(Here', k)
      BY <1>4 DEF Covered, Here
    <2>3. \A k : Covered(Here, k) => Covered(Here', k) \/ k \in dropped
      BY <1>3, <2>1, <2>2 DEF Covered, Here
    <2> SUFFICES ASSUME NEW k \in 1..count, k \notin dropped, k \notin lost
                 PROVE  Covered(Here', k)
      BY <1>1 DEF Kept, Covered, Secure, Holds, Before, IsRecord
    <2>4. Covered(Here, k) \/ Holds(pending.cells, k)
      BY <1>1 DEF IInv, Kept
    <2> QED
      BY <1>3, <2>2, <2>3, <2>4
  <1> QED
    BY <1>6, <1>7, <1>8, <1>9 DEF IInv

(* Neither the clock nor what is written down about kills matters          *)
LEMMA ClockIInv ==
  ASSUME IInv, UNCHANGED <<attrs, kills, disk, log, pending, pc, count, dropped, lost>>
  PROVE  IInv'
  <1>1. Here' = Here
    BY DEF Here
  <1>2. Typed'
    BY DEF IInv, Typed, AttrsOK, Files, Cell
  <1>3. Running'
    BY <1>1 DEF IInv, Running, Good, Files, Cell
  <1>4. Collecting'
    BY DEF IInv, Collecting, Holds, IsRecord
  <1>5. Kept'
    BY <1>1 DEF IInv, Kept, Held, Covered, Secure, Before, Holds, IsRecord
  <1> QED
    BY <1>2, <1>3, <1>4, <1>5 DEF IInv

-----------------------------------------------------------------------------
(* The end of the program                                                  *)
LEMMA DestroyIInv == IInv /\ Destroy => IInv'
  <1> SUFFICES ASSUME IInv, Destroy
               PROVE  IInv'
    OBVIOUS
  <1> DEFINE x == Flush(Here, {})
             y == Close(x)
  <1>1. /\ pc = "idle" /\ pc' = "dead" /\ Become(y)
        /\ dropped' = dropped \cup Overwritten(x)
        /\ kills' = kills + 1
        /\ UNCHANGED <<attrs, pending, count, lost>>
    BY DEF Destroy
  <1>2. /\ Good(x) /\ x.log.data = <<>>
        /\ \A k : Covered(Here, k) =>
             Covered(x, k) \/ (attrs.overwrite /\ Held(disk, k) /\ ~Held(x.disk, k))
    BY <1>1, FlushHere, EmptyTyped
  <1> HIDE DEF x
  <1>3. Good(y) /\ \A k : Secure(x, k) => Held(y.disk, k)
    BY <1>2, CloseKeeps
  <1> HIDE DEF y
  <1>4. Typed'
    BY <1>1, <1>3 DEF Become, IInv, Typed, AttrsOK, Good, Files, Cell
  <1>5. Running'
    BY <1>1 DEF Running
  <1>6. Collecting'
    BY <1>1 DEF IInv, Collecting
  <1>7. Kept'
    <2> SUFFICES ASSUME NEW k \in 1..count, k \notin dropped', k \notin lost
                 PROVE  Held(y.disk, k)
      BY <1>1 DEF Kept, Become, Held, Holds, IsRecord
    <2>1. Covered(Here, k)
      BY <1>1, NothingHeld DEF IInv, Collecting, Kept
    <2>2. Secure(x, k)
      BY <1>1, <1>2, <2>1, OverwrittenHeld, NothingHeld DEF Covered
    <2> QED
      BY <1>3, <2>2
  <1> QED
    BY <1>4, <1>5, <1>6, <1>7 DEF IInv

LEMMA Dies ==
  ASSUME IInv, pc # "dead", NEW d, Files(d), Die(d),
         \A k : Secure(Here, k) => Held(d, k)
  PROVE  IInv'
  <1>1. /\ pc' = "dead" /\ disk' = d
        /\ lost' = lost \cup ((RecordsIn(log.data) \cup RecordsIn(pending.cells)) \ OnDisk(d))
        /\ kills' = kills + 1
        /\ UNCHANGED <<attrs, log, pending, count, dropped>>
    BY DEF Die
  <1>2. Typed'
    BY <1>1 DEF IInv, Typed, AttrsOK, Files, Cell
  <1>3. Running'
    BY <1>1 DEF Running
  <1>4. Collecting'
    BY <1>1 DEF IInv, Collecting
  <1>5. Kept'
    <2> SUFFICES ASSUME NEW k \in 1..count, k \notin dropped, k \notin lost'
                 PROVE  Held(d, k)
      BY <1>1 DEF Kept, Held, Holds, IsRecord
    <2>1. Covered(Here, k) \/ Holds(pending.cells, k)
      BY <1>1 DEF IInv, Kept
    <2>2. Secure(Here, k) \/ k \in RecordsIn(log.data) \cup RecordsIn(pending.cells)
      BY <2>1, HoldsIsRecordsIn DEF Covered, Here
    <2>3. CASE Secure(Here, k)
      BY <2>3
    <2>4. CASE k \in RecordsIn(log.data) \cup RecordsIn(pending.cells)
      <3>1. k \in OnDisk(d)
        BY <1>1, <2>4
      <3> QED
        BY <3>1, OnDiskHolds DEF Held
    <2> QED
      BY <2>2, <2>3, <2>4
  <1> QED
    BY <1>2, <1>3, <1>4, <1>5 DEF IInv

LEMMA KillIInv == IInv /\ Kill => IInv'
  <1> SUFFICES ASSUME IInv, Kill
               PROVE  IInv'
    OBVIOUS
  <1>1. pc # "dead" /\ Die(disk) /\ Files(disk) /\ Good(Here) /\ Here.disk = disk
    BY DEF Kill, IInv, Typed, Running, Here
  <1>2. \A k : Secure(Here, k) => Held(disk, k)
    BY <1>1, SecureIsHeld
  <1> QED
    BY <1>1, <1>2, Dies

LEMMA KillInFlushIInv == IInv /\ KillInFlush => IInv'
  <1> SUFFICES ASSUME IInv, KillInFlush
               PROVE  IInv'
    OBVIOUS
  <1> DEFINE flags == IF pc = "flush" THEN pending.flags ELSE {}
             f == log.file
             p == log.pos
             all == Out(log) \o Trailer
             end == p + Len(Out(log))
             cut == Cut(flags, disk[f], end)
  <1>1. /\ pc # "dead" /\ log.open
        /\ \/ \E n \in 1..(Len(all) - 1) :
                Die([disk EXCEPT ![f] = WriteAt(cut, p, SubSeq(all, 1, n))])
           \/ Die([disk EXCEPT ![f] = cut])
    BY DEF KillInFlush
  <1>2. /\ Files(disk) /\ f \in DOMAIN disk /\ disk[f] \in Seq(Cell)
        /\ p \in Nat /\ p <= Len(disk[f])
        /\ log.data \in Seq(Cell) /\ log.empty \in BOOLEAN
    BY <1>1 DEF IInv, Running, Good, Files, Here
  <1>3. all \in Seq(Cell) /\ end \in Nat /\ p <= end
    <2>1. Out(log) \in Seq(Cell)
      BY <1>2, OutRecords
    <2>2. Len(Out(log)) \in Nat
      BY <2>1
    <2> QED
      BY <1>2, <2>1, <2>2, HeaderTrailer
  <1> HIDE DEF all, end, flags, f, p
  <1>4. /\ cut \in Seq(Cell) /\ p <= Len(cut)
        /\ \A k : Before(disk[f], p, k) => Before(cut, p, k)
    <2>1. CASE end <= Len(disk[f])
      <3>1. /\ cut \in Seq(Cell) /\ end <= Len(cut)
            /\ \A k : Before(disk[f], p, k) => Before(cut, p, k)
        BY <1>2, <1>3, <2>1, CutCells, CutRecords
      <3>2. Len(cut) \in Nat
        BY <3>1
      <3> QED
        BY <1>2, <1>3, <3>1, <3>2
    <2>2. CASE ~(end <= Len(disk[f]))
      <3>1. ~(end < Len(disk[f]))
        <4>1. Len(disk[f]) \in Nat
          BY <1>2
        <4> QED
          BY <1>3, <2>2, <4>1
      <3>2. cut = disk[f]
        BY <3>1 DEF Cut
      <3> QED
        BY <1>2, <3>2
    <2> QED
      BY <2>1, <2>2
  <1> HIDE DEF cut
  <1>5. ASSUME NEW s \in Seq(Cell), \A k : Before(cut, p, k) => Before(s, p, k),
               Die([disk EXCEPT ![f] = s])
        PROVE  IInv'
    <2> DEFINE d == [disk EXCEPT ![f] = s]
    <2>1. /\ Files(d) /\ DOMAIN d = DOMAIN disk /\ d[f] = s
          /\ \A g \in DOMAIN d \ {f} : d[g] = disk[g]
      BY <1>2 DEF Files
    <2>2. Die(d)
      BY <1>5
    <2> HIDE DEF d
    <2>3. ASSUME NEW k, Secure(Here, k)
          PROVE  Held(d, k)
      <3>1. PICK g \in DOMAIN disk : IF g = f THEN Before(disk[g], p, k)
                                             ELSE Holds(disk[g], k)
        BY <1>1, <2>3 DEF Secure, Here, f, p
      <3>2. CASE g = f
        <4>1. Before(s, p, k)
          BY <1>4, <1>5, <3>1, <3>2
        <4>2. Holds(s, k)
          BY <4>1 DEF Before, Holds
        <4> QED
          BY <1>2, <2>1, <4>2 DEF Held
      <3>3. CASE g # f
        BY <2>1, <3>1, <3>3 DEF Held
      <3> QED
        BY <3>2, <3>3
    <2> QED
      BY <1>1, <2>1, <2>2, <2>3, Dies
  <1>6. CASE Die([disk EXCEPT ![f] = cut])
    BY <1>4, <1>5, <1>6
  <1>7. CASE \E n \in 1..(Len(all) - 1) :
               Die([disk EXCEPT ![f] = WriteAt(cut, p, SubSeq(all, 1, n))])
    <2>1. PICK n \in 1..(Len(all) - 1) :
            Die([disk EXCEPT ![f] = WriteAt(cut, p, SubSeq(all, 1, n))])
      BY <1>7
    <2>2. SubSeq(all, 1, n) \in Seq(Cell)
      <3>1. Len(all) \in Nat /\ DOMAIN all = 1..Len(all)
        BY <1>3
      <3>2. n \in Nat /\ n <= Len(all)
        BY <3>1
      <3> QED
        BY <1>3, <3>1, <3>2
    <2>3. WriteAt(cut, p, SubSeq(all, 1, n)) \in Seq(Cell)
      BY <1>2, <1>4, <2>2, WriteAtCells
    <2>4. \A k : Before(cut, p, k) => Before(WriteAt(cut, p, SubSeq(all, 1, n)), p, k)
      BY <1>2, <1>4, <2>2, WriteAtRecords
    <2> QED
      BY <1>5, <2>1, <2>3, <2>4
  <1> QED
    BY <1>1, <1>6, <1>7 DEF f, p, cut, end, all, flags

LEMMA RestartIInv == IInv /\ Restart => IInv'
  <1> SUFFICES ASSUME IInv, Restart
               PROVE  IInv'
    OBVIOUS
  <1> DEFINE x == NewLog(disk)
  <1>1. /\ pc = "dead" /\ pc' = "idle" /\ Become(x)
        /\ dropped' = dropped \cup Overwritten(x)
        /\ pending' = [cells |-> <<>>, flags |-> {}]
        /\ UNCHANGED <<attrs, kills, count, lost>>
        /\ AttrsOK /\ Files(disk)
    BY DEF Restart, IInv, Typed
  <1>2. /\ Good(x) /\ (x.log.open \/ attrs.lazy) /\ x.log.data = <<>>
        /\ \A k : Held(disk, k) =>
             Covered(x, k) \/ (attrs.overwrite /\ ~Held(x.disk, k))
    BY <1>1, NewLogKeeps
  <1> HIDE DEF x
  <1>3. Here' = x /\ disk' = x.disk /\ log' = x.log
    BY <1>1, <1>2 DEF Become, Here, Good
  <1>4. Typed'
    BY <1>1, <1>2, <1>3, EmptyTyped DEF IInv, Typed, AttrsOK, Good, Files, Cell
  <1>5. Running'
    BY <1>1, <1>2, <1>3 DEF Running, Good, Files, Cell
  <1>6. Collecting'
    BY <1>1, <1>2, <1>3 DEF Collecting
  <1>7. Kept'
    <2> SUFFICES ASSUME NEW k \in 1..count, k \notin dropped', k \notin lost
                 PROVE  Covered(x, k)
      BY <1>1, <1>3 DEF Kept, Covered, Secure, Holds, Before, IsRecord
    <2>1. Held(disk, k)
      BY <1>1 DEF IInv, Kept
    <2> QED
      BY <1>1, <1>2, <2>1, OverwrittenHeld
  <1> QED
    BY <1>4, <1>5, <1>6, <1>7 DEF IInv

-----------------------------------------------------------------------------
(* Every record is kept, dropped, or was in the buffer of a program that   *)
(* was killed, and no flush or kill to come can reach it on the disk.      *)
THEOREM RecordsSecure == Spec => []IInv
  <1>1. IInv /\ [Next]_vars => IInv'
    <2> SUFFICES ASSUME IInv, [Next]_vars
                 PROVE  IInv'
      OBVIOUS
    <2>1. CASE LogPoint
      <3>1. /\ pc = "idle" /\ attrs.type = "binfile" /\ count' = count + 1
            /\ AddPoint(count') /\ UNCHANGED <<attrs, kills, disk, log, lost>>
            /\ count \in Nat
        BY <2>1 DEF LogPoint, IInv, Typed
      <3>2. count' \in Nat
        BY <3>1
      <3> QED
        BY <3>1, <3>2, PointIInv
    <2>2. CASE LogPointAgain
      <3>1. /\ pc = "again" /\ attrs.type = "binfile" /\ count' = count
            /\ AddPoint(count) /\ UNCHANGED <<attrs, kills, disk, log, lost>>
            /\ count \in Nat
        BY <2>2 DEF LogPointAgain, IInv, Typed, Collecting
      <3>2. ~(count' = count + 1)
        BY <3>1
      <3> QED
        BY <3>1, <3>2, PointIInv
    <2>3. CASE Tick \/ UNCHANGED vars
      <3>1. UNCHANGED <<attrs, kills, disk, log, pending, pc, count, dropped, lost>>
        BY <2>3 DEF Tick, vars
      <3> QED
        BY <3>1, ClockIInv
    <2> QED
      BY <2>1, <2>2, <2>3, LogLineIInv, WriteChangeIInv, WriteBufferIInv,
         WriteFlushIInv, TimerIInv, DestroyIInv, KillIInv, KillInFlushIInv, RestartIInv
      DEF Next
  <1> QED
    BY <1>1, InitIInv, PTL DEF Spec

(* Whatever the configuration, the clock and the points: what a log was    *)
(* given is on the disk, in the buffer, or gone for a reason.              *)
THEOREM NothingLoggedIsLost == Spec => []RecordsKept
  <1>1. IInv => RecordsKept
    <2> SUFFICES ASSUME IInv, NEW k \in 1..count
                 PROVE  k \in dropped \cup lost \cup OnDisk(disk)
                              \cup RecordsIn(log.data) \cup RecordsIn(pending.cells)
      BY DEF RecordsKept
    <2>1. \/ k \in dropped \cup lost
          \/ IF pc = "dead" THEN Held(disk, k)
             ELSE Covered(Here, k) \/ Holds(pending.cells, k)
      BY DEF IInv, Kept
    <2>2. pc # "dead" /\ Covered(Here, k) => Held(disk, k) \/ Holds(log.data, k)
      <3>1. Here.disk = disk /\ Here.log = log
        BY DEF Here
      <3>2. pc # "dead" => Good(Here)
        BY DEF IInv, Running
      <3> QED
        BY <3>1, <3>2, SecureIsHeld DEF Covered
    <2> QED
      BY <2>1, <2>2, OnDiskHolds, HoldsIsRecordsIn DEF Held
  <1> QED
    BY <1>1, RecordsSecure, PTL

=============================================================================
