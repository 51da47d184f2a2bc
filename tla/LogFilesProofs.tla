--------------------------- MODULE LogFilesProofs ---------------------------
(***************************************************************************)
(* What was logged can be read.  A flush writes at the pointer of the log  *)
(* (log->fpos) over all that is behind it, so that a file always is its    *)
(* front, up to the pointer, with the buffer and the trailer behind.  The  *)
(* front is therefore what has to be kept whole and in order, and between  *)
(* the front, the buffer and the record that is being written the order    *)
(* has to hold as well.                                                    *)
(***************************************************************************)
EXTENDS LogProofs, SequenceTheorems, FiniteSetTheorems, WellFoundedInduction

T1 == <<"T", 1>>
T2 == <<"T", 2>>

Follows(a, b) == a < b \/ (attrs.type = "binfile" /\ a = b)

Precedes(s, t) ==
  \A i \in DOMAIN s, j \in DOMAIN t :
    IsRecord(s[i]) /\ IsRecord(t[j]) => Follows(s[i][2], t[j][2])

AllRecords(s) == \A i \in DOMAIN s : IsRecord(s[i])

Item(s) ==
  s # <<>> /\ s[1] = Length(Len(s) - 1) /\ \A i \in DOMAIN s \ {1} : IsRecord(s[i])

(* A file as it lies on the disk                                           *)
Whole(s) ==
  /\ InOrder(s)
  /\ CASE attrs.type = "gpx" -> IsGpx(s)
       [] attrs.type = "nmea" -> \A i \in DOMAIN s : IsRecord(s[i])
       [] attrs.type = "textfile" -> IsTextfile(s)
       [] attrs.type = "binfile" -> IsBinfile(s)

(* The trailers among the first n cells *)
Trailers(s, n) == {i \in 1..n : s[i] = T2}

(* The logs with a header *)
Headed == attrs.type \in {"gpx", "textfile"}

(* The front of a file                                                     *)
IsGpxFront(s) ==
  s # <<>> =>
    /\ \A i \in DOMAIN s : s[i] = HeaderCell <=> i = 1
    /\ s[Len(s)] # T1
    /\ \A i \in DOMAIN s : s[i] = T2 <=> i > 1 /\ s[i - 1] = T1
    /\ Cardinality(Trailers(s, Len(s))) <= kills

Started(s) ==
  /\ InOrder(s)
  /\ attrs.type = "gpx" => IsGpxFront(s)
  /\ attrs.type = "nmea" => AllRecords(s)
  /\ attrs.type = "textfile" => IsTextfile(s)
  /\ attrs.type = "binfile" => IsBinfile(s)

(* The buffer                                                              *)
Clean(s) ==
  /\ InOrder(s)
  /\ IF attrs.type = "binfile" THEN s = <<>> \/ Item(s) ELSE AllRecords(s)

UpTo(s, n) == SubSeq(s, 1, n)

(* What the file of the log has, or will have when it is opened, in front  *)
(* of what the next flush writes                                           *)
Fore(x) ==
  IF x.log.open THEN UpTo(x.disk[x.log.file], x.log.pos)
  ELSE IF x.log.file \in DOMAIN x.disk /\ ~attrs.overwrite THEN x.disk[x.log.file]
  ELSE <<>>

Sound(x) ==
  /\ \A f \in DOMAIN x.disk \ torn : Whole(x.disk[f])
  /\ Clean(x.log.data)
  /\ x.log.file \notin torn =>
       /\ Started(Fore(x)) /\ Precedes(Fore(x), x.log.data)
       /\ x.log.open /\ Headed => (x.log.empty <=> x.log.pos = 0)

(* The next flush leaves nothing of what is behind the front               *)
Over(x, flags) ==
  x.log.open /\ x.log.file \notin torn /\ "truncate" \notin flags =>
    Len(x.disk[x.log.file]) <= x.log.pos + Len(Out(x.log)) + Len(Trailer)

-----------------------------------------------------------------------------
(* The invariant                                                           *)
Numbered ==
  \A k : Held(disk, k) \/ Holds(log.data, k) \/ Holds(pending.cells, k) =>
           k \in Nat /\ k <= count

Dated ==
  /\ now \in Nat
  /\ \A f \in DOMAIN disk : f.at \in Nat /\ f.at <= now
  /\ pc # "dead" => /\ log.file.at \in Nat /\ log.file.at <= now
                    /\ \A f \in DOMAIN disk : f.at <= log.file.at

Sorted ==
  /\ \A f \in DOMAIN disk \ torn : Whole(disk[f])
  /\ pc = "dead" => \A f \in DOMAIN disk \ torn : Started(disk[f])
  /\ pc # "dead" =>
       Sound(Here) /\ Over(Here, IF pc = "flush" THEN pending.flags ELSE {})

Fitting ==
  pc = "write" =>
    /\ Clean(pending.cells)
    /\ log.file \notin torn => Precedes(Fore(Here), pending.cells)
    /\ IF attrs.type = "binfile"
       THEN pending.flags = Rewrite => Len(log.data) <= Len(pending.cells)
       ELSE Precedes(log.data, pending.cells)

FInv == Numbered /\ Dated /\ Sorted /\ Fitting

-----------------------------------------------------------------------------
(* Sequences of cells, one behind the other                                *)
Joined(q, s, t) == q = s \o t

LEMMA Concat ==
  ASSUME NEW s \in Seq(Cell), NEW t \in Seq(Cell), NEW q, Joined(q, s, t)
  PROVE  /\ q \in Seq(Cell) /\ Len(q) = Len(s) + Len(t)
         /\ Len(s) \in Nat /\ Len(t) \in Nat /\ Len(q) \in Nat
         /\ DOMAIN s = 1..Len(s) /\ DOMAIN t = 1..Len(t) /\ DOMAIN q = 1..Len(q)
         /\ \A i \in 1..Len(s) : i \in 1..Len(q) /\ q[i] = s[i]
         /\ \A i \in 1..Len(t) : Len(s) + i \in 1..Len(q) /\ q[Len(s) + i] = t[i]
         /\ \A i \in 1..Len(q) : \/ i \in 1..Len(s)
                                 \/ \E j \in 1..Len(t) : i = Len(s) + j
  <1>1. /\ q \in Seq(Cell) /\ Len(q) = Len(s) + Len(t)
        /\ \A i \in 1..(Len(s) + Len(t)) :
             q[i] = IF i <= Len(s) THEN s[i] ELSE t[i - Len(s)]
    BY DEF Joined
  <1>2. /\ Len(s) \in Nat /\ Len(t) \in Nat /\ Len(q) \in Nat
        /\ DOMAIN s = 1..Len(s) /\ DOMAIN t = 1..Len(t) /\ DOMAIN q = 1..Len(q)
    BY <1>1
  <1>3. \A i \in 1..Len(s) : i \in 1..Len(q) /\ q[i] = s[i]
    BY <1>1, <1>2
  <1>4. \A i \in 1..Len(t) : Len(s) + i \in 1..Len(q) /\ q[Len(s) + i] = t[i]
    <2> TAKE i \in 1..Len(t)
    <2>1. /\ Len(s) + i \in 1..Len(q) /\ ~(Len(s) + i <= Len(s))
          /\ Len(s) + i - Len(s) = i
      BY <1>1, <1>2
    <2> QED
      BY <1>1, <2>1
  <1>5. \A i \in 1..Len(q) : i \in 1..Len(s) \/ \E j \in 1..Len(t) : i = Len(s) + j
    <2> TAKE i \in 1..Len(q)
    <2>1. i \in 1..Len(s) \/ (i - Len(s) \in 1..Len(t) /\ i = Len(s) + (i - Len(s)))
      BY <1>1, <1>2
    <2> QED
      BY <2>1
  <1> QED
    BY <1>1, <1>2, <1>3, <1>4, <1>5

LEMMA ConcatNothing ==
  ASSUME NEW s \in Seq(Cell)
  PROVE  s \o <<>> = s /\ <<>> \o s = s
  BY EmptyTyped, ConcatEmptySeq

LEMMA Cells ==
  ASSUME NEW s \in Seq(Cell)
  PROVE  /\ Len(s) \in Nat /\ DOMAIN s = 1..Len(s)
         /\ \A i \in 1..Len(s) : s[i] \in Cell /\ s[i][2] \in Nat
         /\ s = <<>> <=> Len(s) = 0
  <1>1. \A c \in Cell : c[2] \in Nat
    BY DEF Cell
  <1> QED
    BY <1>1

LEMMA Kinds ==
  /\ \A c : IsRecord(c) => /\ c # HeaderCell /\ c # T1 /\ c # T2
                           /\ ~IsLength(c)
  /\ ~IsRecord(HeaderCell) /\ ~IsRecord(T1) /\ ~IsRecord(T2)
  /\ HeaderCell # T1 /\ HeaderCell # T2 /\ T1 # T2
  /\ HeaderCell \in Cell /\ T1 \in Cell /\ T2 \in Cell
  BY DEF IsRecord, IsLength, HeaderCell, T1, T2, Cell

(* Order                                                                   *)
LEMMA OrderConcat ==
  ASSUME NEW s \in Seq(Cell), NEW t \in Seq(Cell), NEW q, Joined(q, s, t),
         InOrder(s), InOrder(t), Precedes(s, t)
  PROVE  InOrder(q)
  <1>1. /\ Len(s) \in Nat /\ Len(t) \in Nat /\ Len(q) \in Nat
        /\ DOMAIN s = 1..Len(s) /\ DOMAIN t = 1..Len(t) /\ DOMAIN q = 1..Len(q)
        /\ \A i \in 1..Len(s) : q[i] = s[i]
        /\ \A i \in 1..Len(t) : q[Len(s) + i] = t[i]
        /\ \A i \in 1..Len(q) : i \in 1..Len(s) \/ \E j \in 1..Len(t) : i = Len(s) + j
    BY Concat
  <1> SUFFICES ASSUME NEW i \in 1..Len(q), NEW j \in 1..Len(q), i < j,
                      IsRecord(q[i]), IsRecord(q[j])
               PROVE  Follows(q[i][2], q[j][2])
    BY <1>1 DEF InOrder, Follows
  <1>2. CASE j \in 1..Len(s)
    <2>1. i \in 1..Len(s)
      BY <1>1, <1>2
    <2> QED
      BY <1>1, <1>2, <2>1 DEF InOrder, Follows
  <1>3. CASE j \notin 1..Len(s)
    <2>1. PICK b \in 1..Len(t) : j = Len(s) + b
      BY <1>1, <1>3
    <2>2. CASE i \in 1..Len(s)
      <3>1. IsRecord(s[i]) /\ IsRecord(t[b]) /\ i \in DOMAIN s /\ b \in DOMAIN t
        BY <1>1, <2>1, <2>2
      <3> QED
        BY <1>1, <2>1, <2>2, <3>1 DEF Precedes
    <2>3. CASE i \notin 1..Len(s)
      <3>1. PICK a \in 1..Len(t) : i = Len(s) + a
        BY <1>1, <2>3
      <3>2. a < b
        BY <1>1, <2>1, <3>1
      <3>3. IsRecord(t[a]) /\ IsRecord(t[b]) /\ a \in DOMAIN t /\ b \in DOMAIN t
        BY <1>1, <2>1, <3>1
      <3>4. Follows(t[a][2], t[b][2])
        BY <3>2, <3>3 DEF InOrder, Follows
      <3> QED
        BY <1>1, <2>1, <3>1, <3>4
    <2> QED
      BY <2>2, <2>3
  <1> QED
    BY <1>2, <1>3

LEMMA PrecedesConcat ==
  ASSUME NEW s \in Seq(Cell), NEW t \in Seq(Cell), NEW q, Joined(q, s, t), NEW d,
         Precedes(s, d), Precedes(t, d)
  PROVE  Precedes(q, d)
  <1>1. /\ DOMAIN s = 1..Len(s) /\ DOMAIN t = 1..Len(t) /\ DOMAIN q = 1..Len(q)
        /\ \A i \in 1..Len(s) : q[i] = s[i]
        /\ \A i \in 1..Len(t) : q[Len(s) + i] = t[i]
        /\ \A i \in 1..Len(q) : i \in 1..Len(s) \/ \E j \in 1..Len(t) : i = Len(s) + j
    BY Concat
  <1> SUFFICES ASSUME NEW i \in 1..Len(q), NEW j \in DOMAIN d,
                      IsRecord(q[i]), IsRecord(d[j])
               PROVE  Follows(q[i][2], d[j][2])
    BY <1>1 DEF Precedes
  <1>2. CASE i \in 1..Len(s)
    BY <1>1, <1>2 DEF Precedes
  <1>3. CASE i \notin 1..Len(s)
    <2>1. PICK a \in 1..Len(t) : i = Len(s) + a
      BY <1>1, <1>3
    <2>2. IsRecord(t[a]) /\ a \in DOMAIN t /\ q[i] = t[a]
      BY <1>1, <2>1
    <2> QED
      BY <2>2 DEF Precedes
  <1> QED
    BY <1>2, <1>3

LEMMA PrecedesBoth ==
  ASSUME NEW s \in Seq(Cell), NEW t \in Seq(Cell), NEW q, Joined(q, s, t), NEW d,
         Precedes(d, s), Precedes(d, t)
  PROVE  Precedes(d, q)
  <1>1. /\ DOMAIN s = 1..Len(s) /\ DOMAIN t = 1..Len(t) /\ DOMAIN q = 1..Len(q)
        /\ \A i \in 1..Len(s) : q[i] = s[i]
        /\ \A i \in 1..Len(t) : q[Len(s) + i] = t[i]
        /\ \A i \in 1..Len(q) : i \in 1..Len(s) \/ \E j \in 1..Len(t) : i = Len(s) + j
    BY Concat
  <1> SUFFICES ASSUME NEW i \in 1..Len(q), NEW j \in DOMAIN d,
                      IsRecord(q[i]), IsRecord(d[j])
               PROVE  Follows(d[j][2], q[i][2])
    BY <1>1 DEF Precedes
  <1>2. CASE i \in 1..Len(s)
    BY <1>1, <1>2 DEF Precedes
  <1>3. CASE i \notin 1..Len(s)
    <2>1. PICK a \in 1..Len(t) : i = Len(s) + a
      BY <1>1, <1>3
    <2>2. IsRecord(t[a]) /\ a \in DOMAIN t /\ q[i] = t[a]
      BY <1>1, <2>1
    <2> QED
      BY <2>2 DEF Precedes
  <1> QED
    BY <1>2, <1>3

LEMMA NoRecords ==
  ASSUME NEW s, \A i \in DOMAIN s : ~IsRecord(s[i])
  PROVE  InOrder(s) /\ \A t : Precedes(s, t) /\ Precedes(t, s)
  BY DEF InOrder, Precedes

LEMMA HeadAndTail ==
  /\ \A i \in DOMAIN Header : ~IsRecord(Header[i])
  /\ \A i \in DOMAIN Trailer : ~IsRecord(Trailer[i])
  /\ Header \in Seq(Cell) /\ Trailer \in Seq(Cell)
  /\ Header = IF Headed THEN <<HeaderCell>> ELSE <<>>
  /\ Trailer = IF attrs.type = "gpx" THEN <<T1, T2>> ELSE <<>>
  <1>1. /\ Header = IF Headed THEN <<HeaderCell>> ELSE <<>>
        /\ Trailer = IF attrs.type = "gpx" THEN <<T1, T2>> ELSE <<>>
    BY DEF Header, Trailer, T1, T2, Headed
  <1>2. \A i \in DOMAIN Header : ~IsRecord(Header[i])
    BY <1>1, Kinds
  <1>3. \A i \in DOMAIN Trailer : ~IsRecord(Trailer[i])
    BY <1>1, Kinds
  <1> QED
    BY <1>1, <1>2, <1>3, HeaderTrailer

-----------------------------------------------------------------------------
(* gpx: the records come behind the header or a former trailer.            *)
LEMMA GpxRecords ==
  ASSUME NEW s \in Seq(Cell), NEW d \in Seq(Cell), s # <<>>, IsGpxFront(s),
         AllRecords(d), NEW q, Joined(q, s, d)
  PROVE  IsGpxFront(q) /\ q # <<>>
  <1>1. /\ Len(s) \in Nat /\ Len(d) \in Nat /\ Len(q) \in Nat /\ Len(q) = Len(s) + Len(d)
        /\ DOMAIN s = 1..Len(s) /\ DOMAIN d = 1..Len(d) /\ DOMAIN q = 1..Len(q)
        /\ \A i \in 1..Len(s) : q[i] = s[i]
        /\ \A i \in 1..Len(d) : q[Len(s) + i] = d[i]
        /\ \A i \in 1..Len(q) : i \in 1..Len(s) \/ \E j \in 1..Len(d) : i = Len(s) + j
    BY Concat
  <1>0. Len(s) \in Nat /\ Len(d) \in Nat /\ Len(q) = Len(s) + Len(d)
    BY <1>1
  <1>2. Len(s) >= 1
    BY <1>1, Cells
  <1>3. \A i \in 1..Len(q) : i \notin 1..Len(s) => IsRecord(q[i])
    BY <1>1 DEF AllRecords
  <1>4. /\ \A i \in 1..Len(s) : s[i] = HeaderCell <=> i = 1
        /\ s[Len(s)] # T1
        /\ \A i \in 1..Len(s) : s[i] = T2 <=> i > 1 /\ s[i - 1] = T1
        /\ Cardinality(Trailers(s, Len(s))) <= kills
    BY <1>1 DEF IsGpxFront
  <1>8. Trailers(q, Len(q)) = Trailers(s, Len(s))
    <2>1. \A i \in 1..Len(q) : i \notin 1..Len(s) => q[i] # T2
      BY <1>3, Kinds
    <2>2. \A i \in 1..Len(s) : i \in 1..Len(q)
      BY <1>0
    <2> QED
      BY <1>1, <2>1, <2>2 DEF Trailers
  <1>5. \A i \in 1..Len(q) : q[i] = HeaderCell <=> i = 1
    <2> TAKE i \in 1..Len(q)
    <2>1. CASE i \in 1..Len(s)
      BY <1>1, <1>4, <2>1
    <2>2. CASE i \notin 1..Len(s)
      BY <1>1, <1>2, <1>3, <2>2, Kinds
    <2> QED
      BY <2>1, <2>2
  <1>6. Len(q) \in 1..Len(q) /\ q[Len(q)] # T1
    <2>1. Len(q) \in 1..Len(q)
      BY <1>1, <1>2
    <2>2. CASE Len(q) \in 1..Len(s)
      <3>1. Len(q) = Len(s)
        BY <1>0, <2>2
      <3> QED
        BY <1>1, <1>4, <2>1, <2>2, <3>1
    <2>3. CASE Len(q) \notin 1..Len(s)
      BY <1>3, <2>1, <2>3, Kinds
    <2> QED
      BY <2>1, <2>2, <2>3
  <1>7. \A i \in 1..Len(q) : q[i] = T2 <=> i > 1 /\ q[i - 1] = T1
    <2> TAKE i \in 1..Len(q)
    <2>1. CASE i \in 1..Len(s)
      <3>1. i > 1 => i - 1 \in 1..Len(s)
        BY <1>1, <2>1
      <3> QED
        BY <1>1, <1>4, <2>1, <3>1
    <2>2. CASE i \notin 1..Len(s)
      <3>1. q[i] # T2
        BY <1>3, <2>2, Kinds
      <3>2. i - 1 \in 1..Len(q) /\ (i - 1 \in 1..Len(s) => i - 1 = Len(s))
        BY <1>0, <1>2, <2>2
      <3>3. q[i - 1] # T1
        BY <1>1, <1>3, <1>4, <3>2, Kinds
      <3> QED
        BY <3>1, <3>3
    <2> QED
      BY <2>1, <2>2
  <1> QED
    BY <1>1, <1>4, <1>5, <1>6, <1>7, <1>8 DEF IsGpxFront

LEMMA GpxTrailer ==
  ASSUME NEW s \in Seq(Cell), s # <<>>, IsGpxFront(s), NEW q, Joined(q, s, <<T1, T2>>)
  PROVE  IsGpx(q)
  <1> DEFINE n == Len(s)
  <1>1. n \in Nat /\ n >= 1 /\ DOMAIN s = 1..n
    BY Cells
  <1>2. /\ Len(q) = n + 2 /\ DOMAIN q = 1..(n + 2)
        /\ \A i \in 1..n : q[i] = s[i]
        /\ q[n + 1] = T1 /\ q[n + 2] = T2
    <2>0. <<T1, T2>> \in Seq(Cell)
      BY Kinds
    <2>1. PICK t \in Seq(Cell) : t = <<T1, T2>> /\ Len(t) = 2 /\ t[1] = T1 /\ t[2] = T2
      BY <2>0
    <2>2. /\ Len(q) = Len(s) + Len(t) /\ DOMAIN q = 1..Len(q)
          /\ \A i \in 1..Len(s) : q[i] = s[i]
          /\ \A i \in 1..Len(t) : q[Len(s) + i] = t[i]
      <3>1. Joined(q, s, t)
        BY <2>1
      <3> QED
        BY <3>1, Concat
    <2>3. Len(t) = 2 /\ 1 \in 1..Len(t) /\ 2 \in 1..Len(t)
      BY <2>1
    <2> QED
      BY <2>1, <2>2, <2>3
  <1>3. /\ \A i \in 1..n : s[i] = HeaderCell <=> i = 1
        /\ s[n] # T1
        /\ \A i \in 1..n : s[i] = T2 <=> i > 1 /\ s[i - 1] = T1
        /\ Cardinality(Trailers(s, n)) <= kills
    BY <1>1 DEF IsGpxFront
  <1> HIDE DEF n
  <1>8. {i \in 1..(Len(q) - 1) : q[i] = T2} = Trailers(s, n)
    <2>1. Len(q) - 1 = n + 1 /\ q[n + 1] # T2
      BY <1>1, <1>2, Kinds
    <2>2. \A i : i \in 1..(n + 1) <=> i \in 1..n \/ i = n + 1
      BY <1>1
    <2> QED
      BY <1>2, <2>1, <2>2 DEF Trailers
  <1>4. \A i \in 1..(n + 2) : i \in 1..n \/ i = n + 1 \/ i = n + 2
    BY <1>1
  <1>5. \A i \in DOMAIN q : q[i] = HeaderCell <=> i = 1
    <2>1. n + 1 # 1 /\ n + 2 # 1
      BY <1>1
    <2> QED
      BY <1>2, <1>3, <1>4, <2>1, Kinds
  <1>6. \A i \in DOMAIN q : q[i] = T2 <=> i > 1 /\ q[i - 1] = T1
    <2> TAKE i \in DOMAIN q
    <2>1. CASE i \in 1..n
      <3>1. i > 1 => i - 1 \in 1..n
        BY <1>1, <2>1
      <3> QED
        BY <1>2, <1>3, <2>1, <3>1
    <2>2. CASE i = n + 1
      <3>1. i - 1 = n /\ n \in 1..n
        BY <1>1, <2>2
      <3> QED
        BY <1>2, <1>3, <2>2, <3>1, Kinds
    <2>3. CASE i = n + 2
      <3>1. i - 1 = n + 1 /\ i > 1
        BY <1>1, <2>3
      <3> QED
        BY <1>2, <2>3, <3>1
    <2> QED
      BY <1>2, <1>4, <2>1, <2>2, <2>3
  <1>7. Last(q) = T2
    BY <1>2 DEF Last
  <1> QED
    BY <1>3, <1>5, <1>6, <1>7, <1>8 DEF IsGpx, T1, T2

(* The trailers in front of n, and the one at n *)
LEMMA TrailersFinite ==
  ASSUME NEW s, NEW n \in Nat
  PROVE  /\ IsFiniteSet(Trailers(s, n)) /\ Cardinality(Trailers(s, n)) \in Nat
         /\ s[n + 1] = T2 =>
              Cardinality(Trailers(s, n + 1)) = Cardinality(Trailers(s, n)) + 1
  <1>1. IsFiniteSet(1..n)
    BY FS_Interval
  <1>2. IsFiniteSet(Trailers(s, n))
    BY <1>1, FS_Subset DEF Trailers
  <1>3. ASSUME s[n + 1] = T2
        PROVE  Cardinality(Trailers(s, n + 1)) = Cardinality(Trailers(s, n)) + 1
    <2>1. \A i : i \in 1..(n + 1) <=> i \in 1..n \/ i = n + 1
      OBVIOUS
    <2>2. Trailers(s, n + 1) = Trailers(s, n) \cup {n + 1}
      BY <1>3, <2>1 DEF Trailers
    <2>3. n + 1 \notin Trailers(s, n)
      BY DEF Trailers
    <2> QED
      BY <1>2, <2>2, <2>3, FS_AddElement
  <1> QED
    BY <1>2, <1>3, FS_CardinalityType

(* The file that an ending program leaves is the front of the next one     *)
LEMMA GpxIsFront ==
  ASSUME NEW s \in Seq(Cell), IsGpx(s), kills \in Nat, kills' = kills + 1
  PROVE  IsGpx(s)' /\ IsGpxFront(s)'
  <1>1. CASE s = <<>>
    BY <1>1 DEF IsGpx, IsGpxFront
  <1>2. CASE s # <<>>
    <2> DEFINE n == Len(s) - 1
    <2>1. n \in Nat /\ Len(s) = n + 1
      BY <1>2, Cells
    <2>2. /\ \A i \in DOMAIN s : s[i] = HeaderCell <=> i = 1
          /\ s[Len(s)] = T2
          /\ \A i \in DOMAIN s : s[i] = T2 <=> i > 1 /\ s[i - 1] = T1
          /\ Cardinality(Trailers(s, n)) <= kills
      BY <1>2 DEF IsGpx, T1, T2, Last, Trailers
    <2> HIDE DEF n
    <2>3. /\ Cardinality(Trailers(s, n)) \in Nat
          /\ Cardinality(Trailers(s, Len(s))) = Cardinality(Trailers(s, n)) + 1
      BY <2>1, <2>2, TrailersFinite
    <2>4. /\ Cardinality(Trailers(s, n)) <= kills'
          /\ Cardinality(Trailers(s, Len(s))) <= kills'
      BY <2>2, <2>3
    <2>5. IsGpx(s)'
      BY <1>2, <2>2, <2>4 DEF IsGpx, HeaderCell, T1, T2, Last, Trailers, n
    <2>6. IsGpxFront(s)'
      BY <2>2, <2>4, Kinds DEF IsGpxFront, HeaderCell, T1, T2, Trailers
    <2> QED
      BY <2>5, <2>6
  <1> QED
    BY <1>1, <1>2

(* textfile: the records come behind the header                            *)
LEMMA TextRecords ==
  ASSUME NEW s \in Seq(Cell), NEW d \in Seq(Cell), s # <<>>, IsTextfile(s),
         AllRecords(d), NEW q, Joined(q, s, d)
  PROVE  IsTextfile(q) /\ q # <<>>
  <1>1. /\ Len(s) \in Nat /\ Len(q) \in Nat /\ Len(s) <= Len(q)
        /\ DOMAIN s = 1..Len(s) /\ DOMAIN d = 1..Len(d) /\ DOMAIN q = 1..Len(q)
        /\ \A i \in 1..Len(s) : q[i] = s[i]
        /\ \A i \in 1..Len(d) : q[Len(s) + i] = d[i]
        /\ \A i \in 1..Len(q) : i \in 1..Len(s) \/ \E j \in 1..Len(d) : i = Len(s) + j
    <2>1. /\ q \in Seq(Cell) /\ Len(q) = Len(s) + Len(d)
          /\ Len(s) \in Nat /\ Len(d) \in Nat /\ Len(q) \in Nat
          /\ DOMAIN s = 1..Len(s) /\ DOMAIN d = 1..Len(d) /\ DOMAIN q = 1..Len(q)
          /\ \A i \in 1..Len(s) : i \in 1..Len(q) /\ q[i] = s[i]
          /\ \A i \in 1..Len(d) : Len(s) + i \in 1..Len(q) /\ q[Len(s) + i] = d[i]
          /\ \A i \in 1..Len(q) : \/ i \in 1..Len(s)
                                  \/ \E j \in 1..Len(d) : i = Len(s) + j
      BY Concat
    <2> QED
      BY <2>1
  <1>2. 1 \in 1..Len(s) /\ q # <<>>
    <2>1. Len(s) >= 1
      BY <1>1, Cells
    <2>2. Len(q) # 0
      BY <1>1, <2>1
    <2> QED
      BY <1>1, <2>1, <2>2
  <1>3. ASSUME NEW i \in 1..Len(q)
        PROVE  IF i = 1 THEN q[i] = HeaderCell ELSE IsRecord(q[i])
    <2>1. CASE i \in 1..Len(s)
      BY <1>1, <2>1 DEF IsTextfile
    <2>2. CASE i \notin 1..Len(s)
      <3>1. i # 1
        BY <1>2, <2>2
      <3>2. IsRecord(q[i])
        BY <1>1, <2>2 DEF AllRecords
      <3> QED
        BY <3>1, <3>2
    <2> QED
      BY <2>1, <2>2
  <1> QED
    BY <1>1, <1>2, <1>3 DEF IsTextfile

(* binfile: one more item                                                  *)
LEMMA BinfileItem ==
  ASSUME NEW s \in Seq(Cell), NEW d \in Seq(Cell), IsBinfile(s), Item(d),
         NEW q, Joined(q, s, d)
  PROVE  IsBinfile(q)
  <1> DEFINE n == Len(s)
             m == Len(d)
  <1>1. /\ n \in Nat /\ m \in Nat /\ Len(q) \in Nat /\ Len(q) = n + m
        /\ DOMAIN s = 1..n /\ DOMAIN d = 1..m /\ DOMAIN q = 1..(n + m)
        /\ \A i \in 1..n : q[i] = s[i]
        /\ \A i \in 1..m : q[n + i] = d[i]
        /\ \A i \in 1..(n + m) : i \in 1..n \/ \E j \in 1..m : i = n + j
    <2>1. /\ Len(q) = Len(s) + Len(d)
          /\ Len(s) \in Nat /\ Len(d) \in Nat /\ Len(q) \in Nat
          /\ DOMAIN s = 1..Len(s) /\ DOMAIN d = 1..Len(d) /\ DOMAIN q = 1..Len(q)
          /\ \A i \in 1..Len(s) : i \in 1..Len(q) /\ q[i] = s[i]
          /\ \A i \in 1..Len(d) : Len(s) + i \in 1..Len(q) /\ q[Len(s) + i] = d[i]
          /\ \A i \in 1..Len(q) : i \in 1..Len(s) \/ \E j \in 1..Len(d) : i = Len(s) + j
      BY Concat
    <2> QED
      BY <2>1
  <1>0. n \in Nat /\ m \in Nat
    BY <1>1
  <1>2. /\ m >= 1 /\ d[1] = Length(m - 1) /\ \A i \in 2..m : IsRecord(d[i])
    <2>1. m # 0
      BY DEF Item
    <2>2. d[1] = Length(m - 1) /\ \A i \in DOMAIN d \ {1} : IsRecord(d[i])
      BY DEF Item
    <2> HIDE DEF n, m
    <2>3. \A i \in 2..m : i \in 1..m /\ i # 1
      BY <1>0
    <2>4. \A i \in 2..m : IsRecord(d[i])
      BY <1>1, <2>2, <2>3
    <2>5. m >= 1
      BY <1>0, <2>1
    <2> QED
      BY <2>2, <2>4, <2>5
  <1>3. \A i \in 1..n :
          /\ i = 1 => IsLength(s[i])
          /\ IsLength(s[i]) =>
               /\ i + s[i][2] \in 1..n
               /\ \A j \in (i + 1)..(i + s[i][2]) : IsRecord(s[j])
               /\ i + s[i][2] + 1 \in 1..n => IsLength(s[i + s[i][2] + 1])
    BY <1>1 DEF IsBinfile
  <1>4. \A i \in 1..n : s[i][2] \in Nat
    BY <1>1, Cells
  <1> HIDE DEF n, m
  <1>5. n + 1 \in 1..(n + m) /\ q[n + 1] = Length(m - 1)
    BY <1>1, <1>2
  <1>6. IsLength(q[n + 1]) /\ q[n + 1][2] = m - 1
    BY <1>5 DEF Length, IsLength
  <1> SUFFICES ASSUME NEW i \in 1..(n + m)
               PROVE  /\ i = 1 => IsLength(q[i])
                      /\ IsLength(q[i]) =>
                           /\ i + q[i][2] \in 1..(n + m)
                           /\ \A j \in (i + 1)..(i + q[i][2]) : IsRecord(q[j])
                           /\ i + q[i][2] + 1 \in 1..(n + m) =>
                                IsLength(q[i + q[i][2] + 1])
    BY <1>1 DEF IsBinfile
  <1>7. CASE i \in 1..n
    <2>1. q[i] = s[i] /\ (i = 1 => IsLength(q[i]))
      BY <1>1, <1>3, <1>7
    <2>2. ASSUME IsLength(s[i])
          PROVE  /\ i + s[i][2] \in 1..(n + m)
                 /\ \A j \in (i + 1)..(i + s[i][2]) : IsRecord(q[j])
                 /\ i + s[i][2] + 1 \in 1..(n + m) => IsLength(q[i + s[i][2] + 1])
      <3>1. PICK e \in 1..n : e = i + s[i][2]
        BY <1>3, <1>7, <2>2
      <3>2. /\ \A j \in (i + 1)..e : IsRecord(s[j])
            /\ e + 1 \in 1..n => IsLength(s[e + 1])
        BY <1>3, <1>7, <2>2, <3>1
      <3>3. \A j \in (i + 1)..e : j \in 1..n
        BY <1>1, <1>7
      <3>4. \A j \in (i + 1)..e : IsRecord(q[j])
        BY <1>1, <3>2, <3>3
      <3>5. e \in 1..(n + m) /\ (e + 1 \in 1..n \/ e + 1 = n + 1)
        BY <1>1
      <3>6. IsLength(q[e + 1])
        BY <1>1, <1>6, <3>2, <3>5
      <3> QED
        BY <3>1, <3>4, <3>5, <3>6
    <2> QED
      BY <2>1, <2>2
  <1>8. CASE i = n + 1
    <2>1. i + q[i][2] = n + m /\ ~(n + m + 1 \in 1..(n + m)) /\ n + m \in 1..(n + m)
      BY <1>1, <1>2, <1>6, <1>8
    <2>2. ASSUME NEW j \in (i + 1)..(n + m)
          PROVE  IsRecord(q[j])
      <3>1. j - n \in 2..m /\ j - n \in 1..m /\ n + (j - n) = j
        BY <1>1, <1>8
      <3> QED
        BY <1>1, <1>2, <3>1
    <2> QED
      BY <1>6, <1>8, <2>1, <2>2
  <1>9. CASE i \notin 1..n /\ i # n + 1
    <2>1. i - n \in 2..m /\ i - n \in 1..m /\ n + (i - n) = i /\ i # 1
      BY <1>0, <1>9
    <2>2. IsRecord(q[i])
      BY <1>1, <1>2, <2>1
    <2> QED
      BY <2>1, <2>2, Kinds
  <1> QED
    BY <1>7, <1>8, <1>9

-----------------------------------------------------------------------------
(* What a flush writes behind the front                                    *)
TypesOK ==
  /\ attrs.type \in {"gpx", "nmea", "textfile", "binfile"}
  /\ kills \in Nat

LEMMA AttrsTyped == ASSUME AttrsOK PROVE TypesOK
  BY LogAssumption DEF AttrsOK, TypesOK

LEMMA OutJoined ==
  ASSUME NEW l, l.data \in Seq(Cell), l.empty \in BOOLEAN
  PROVE  /\ Out(l) \in Seq(Cell)
         /\ Joined(Out(l), IF l.empty THEN Header ELSE <<>>, l.data)
         /\ ~Headed \/ ~l.empty => Out(l) = l.data
         /\ Headed /\ l.empty => Joined(Out(l), <<HeaderCell>>, l.data)
  <1>1. Out(l) \in Seq(Cell)
    BY OutRecords
  <1>2. Out(l) = (IF l.empty THEN Header ELSE <<>>) \o l.data
    BY DEF Out
  <1>3. ~Headed \/ ~l.empty => Out(l) = <<>> \o l.data
    BY <1>2, HeadAndTail
  <1>4. <<>> \o l.data = l.data
    BY ConcatNothing
  <1>5. Headed /\ l.empty => Out(l) = <<HeaderCell>> \o l.data
    BY <1>2, HeadAndTail
  <1> QED
    BY <1>1, <1>2, <1>3, <1>4, <1>5 DEF Joined

LEMMA OutOrder ==
  ASSUME NEW l, l.data \in Seq(Cell), l.empty \in BOOLEAN, InOrder(l.data)
  PROVE  /\ InOrder(Out(l))
         /\ \A s \in Seq(Cell) : Precedes(s, l.data) => Precedes(s, Out(l))
         /\ \A s \in Seq(Cell) : Precedes(l.data, s) => Precedes(Out(l), s)
  <1>1. PICK h \in Seq(Cell) : /\ Joined(Out(l), h, l.data)
                               /\ \A i \in DOMAIN h : ~IsRecord(h[i])
    <2> DEFINE h == IF l.empty THEN Header ELSE <<>>
    <2>1. h \in Seq(Cell) /\ \A i \in DOMAIN h : ~IsRecord(h[i])
      BY HeadAndTail, EmptyTyped
    <2>2. Joined(Out(l), h, l.data)
      BY OutJoined
    <2> HIDE DEF h
    <2> QED
      BY <2>1, <2>2
  <1>2. InOrder(h) /\ \A t : Precedes(h, t) /\ Precedes(t, h)
    BY <1>1, NoRecords
  <1>3. InOrder(Out(l))
    BY <1>1, <1>2, OrderConcat
  <1>4. \A s \in Seq(Cell) : Precedes(s, l.data) => Precedes(s, Out(l))
    BY <1>1, <1>2, PrecedesBoth
  <1>5. \A s \in Seq(Cell) : Precedes(l.data, s) => Precedes(Out(l), s)
    BY <1>1, <1>2, PrecedesConcat
  <1> QED
    BY <1>3, <1>4, <1>5

(* The front with the buffer is a front again                              *)
LEMMA Grown ==
  ASSUME TypesOK, NEW l, l.data \in Seq(Cell), l.empty \in BOOLEAN, Clean(l.data),
         NEW s \in Seq(Cell), Started(s), Precedes(s, l.data),
         Headed => (l.empty <=> s = <<>>),
         NEW q, Joined(q, s, Out(l))
  PROVE  q \in Seq(Cell) /\ Started(q) /\ (Headed => q # <<>>)
  <1>1. Out(l) \in Seq(Cell) /\ InOrder(Out(l)) /\ Precedes(s, Out(l)) /\ InOrder(s)
    BY OutJoined, OutOrder DEF Clean, Started
  <1>2. q \in Seq(Cell)
    BY <1>1, Concat
  <1>3. InOrder(q)
    BY <1>1, OrderConcat
  <1>7. ASSUME Headed, s = <<>>
        PROVE  Joined(q, <<HeaderCell>>, l.data)
    <2>1. q = <<>> \o Out(l)
      BY <1>7 DEF Joined
    <2>2. q = Out(l)
      BY <1>1, <2>1, ConcatNothing
    <2> QED
      BY <1>7, <2>2, OutJoined
  <1>8. ASSUME Headed, s # <<>>
        PROVE  Joined(q, s, l.data)
    BY <1>8, OutJoined
  <1> DEFINE h == <<HeaderCell>>
  <1>9. h \in Seq(Cell) /\ Len(h) = 1 /\ DOMAIN h = {1} /\ h[1] = HeaderCell /\ h # <<>>
    BY Kinds
  <1>10. Headed => Joined(q, IF s = <<>> THEN h ELSE s, l.data)
    BY <1>7, <1>8
  <1> HIDE DEF h
  <1>4. CASE attrs.type = "gpx"
    <2>1. AllRecords(l.data) /\ IsGpxFront(s) /\ Headed
      BY <1>4 DEF Clean, Started, Headed
    <2>2. IsGpxFront(h)
      <3>1. Trailers(h, 1) = {}
        BY <1>9, Kinds DEF Trailers
      <3>2. Cardinality(Trailers(h, Len(h))) = 0
        BY <1>9, <3>1, FS_EmptySet
      <3>3. 0 <= kills
        BY DEF TypesOK
      <3> QED
        BY <1>9, <3>2, <3>3, Kinds DEF IsGpxFront
    <2>3. IsGpxFront(q) /\ q # <<>>
      BY <1>9, <1>10, <2>1, <2>2, GpxRecords
    <2> QED
      BY <1>2, <1>3, <1>4, <2>3 DEF Started
  <1>11. CASE attrs.type = "textfile"
    <2>1. AllRecords(l.data) /\ IsTextfile(s) /\ Headed
      BY <1>11 DEF Clean, Started, Headed
    <2>2. IsTextfile(h)
      BY <1>9 DEF IsTextfile
    <2>3. IsTextfile(q) /\ q # <<>>
      BY <1>9, <1>10, <2>1, <2>2, TextRecords
    <2> QED
      BY <1>2, <1>3, <1>11, <2>3 DEF Started
  <1>5. CASE attrs.type = "nmea"
    <2>1. Joined(q, s, l.data) /\ AllRecords(s) /\ AllRecords(l.data)
      BY <1>5, OutJoined DEF Started, Clean, Headed
    <2>2. AllRecords(q)
      <3>1. /\ DOMAIN s = 1..Len(s) /\ DOMAIN l.data = 1..Len(l.data)
            /\ DOMAIN q = 1..Len(q)
            /\ \A i \in 1..Len(s) : q[i] = s[i]
            /\ \A i \in 1..Len(l.data) : q[Len(s) + i] = l.data[i]
            /\ \A i \in 1..Len(q) : i \in 1..Len(s) \/ \E j \in 1..Len(l.data) : i = Len(s) + j
        BY <2>1, Concat
      <3>2. ASSUME NEW j \in 1..Len(l.data)
            PROVE  IsRecord(q[Len(s) + j])
        BY <2>1, <3>1 DEF AllRecords
      <3>3. ASSUME NEW i \in 1..Len(s)
            PROVE  IsRecord(q[i])
        BY <2>1, <3>1 DEF AllRecords
      <3> QED
        BY <3>1, <3>2, <3>3 DEF AllRecords
    <2> QED
      BY <1>2, <1>3, <1>5, <2>2 DEF Started, Headed
  <1>6. CASE attrs.type = "binfile"
    <2>1. Joined(q, s, l.data) /\ IsBinfile(s) /\ (l.data = <<>> \/ Item(l.data))
      BY <1>6, OutJoined DEF Started, Clean, Headed
    <2>2. CASE l.data = <<>>
      <3>1. q = s
        BY <2>1, <2>2, ConcatNothing DEF Joined
      <3> QED
        BY <1>6, <3>1 DEF Headed
    <2>3. CASE Item(l.data)
      <3>1. IsBinfile(q)
        BY <2>1, <2>3, BinfileItem
      <3> QED
        BY <1>2, <1>3, <1>6, <3>1 DEF Started, Headed
    <2> QED
      BY <2>1, <2>2, <2>3
  <1> QED
    BY <1>4, <1>5, <1>6, <1>11 DEF TypesOK

(* With the trailer behind it a front is a file, and a file is the front   *)
(* of the program that comes next                                          *)
LEMMA Finished ==
  ASSUME TypesOK, NEW s \in Seq(Cell), Started(s), Headed => s # <<>>,
         NEW q, Joined(q, s, Trailer)
  PROVE  Whole(q)
  <1>1. InOrder(s) /\ InOrder(Trailer) /\ Precedes(s, Trailer) /\ Trailer \in Seq(Cell)
    BY HeadAndTail, NoRecords DEF Started
  <1>2. InOrder(q)
    BY <1>1, OrderConcat
  <1>3. CASE attrs.type = "gpx"
    <2>1. Joined(q, s, <<T1, T2>>) /\ IsGpxFront(s) /\ s # <<>>
      BY <1>3, HeadAndTail DEF Started, Headed
    <2>2. IsGpx(q)
      BY <2>1, GpxTrailer
    <2> QED
      BY <1>2, <1>3, <2>2 DEF Whole
  <1>4. CASE attrs.type # "gpx"
    <2>1. q = s
      BY <1>4, HeadAndTail, ConcatNothing DEF Joined
    <2> QED
      BY <1>2, <1>4, <2>1 DEF Whole, Started, AllRecords, TypesOK
  <1> QED
    BY <1>3, <1>4

LEMMA FileIsFront ==
  ASSUME TypesOK, NEW s \in Seq(Cell), Whole(s), attrs' = attrs, kills' = kills + 1
  PROVE  Whole(s)' /\ Started(s)'
  <1>1. attrs.type = "gpx" => IsGpx(s)' /\ IsGpxFront(s)'
    BY GpxIsFront DEF Whole, TypesOK
  <1>2. InOrder(s)' /\ InOrder(s)
    BY DEF Whole, InOrder, IsRecord
  <1>3. /\ IsTextfile(s)' <=> IsTextfile(s)
        /\ IsBinfile(s)' <=> IsBinfile(s)
        /\ AllRecords(s)' <=> AllRecords(s)
    BY DEF IsTextfile, IsBinfile, AllRecords, IsRecord, IsLength, HeaderCell
  <1> QED
    BY <1>1, <1>2, <1>3 DEF Whole, Started, AllRecords, IsRecord, TypesOK

LEMMA NothingWhole ==
  ASSUME TypesOK
  PROVE  /\ Whole(<<>>) /\ Started(<<>>) /\ Clean(<<>>)
         /\ \A s : Precedes(<<>>, s) /\ Precedes(s, <<>>)
  <1>1. DOMAIN <<>> = {}
    OBVIOUS
  <1>2. InOrder(<<>>) /\ \A s : Precedes(<<>>, s) /\ Precedes(s, <<>>)
    BY <1>1, NoRecords
  <1>3. /\ IsGpx(<<>>) /\ IsBinfile(<<>>) /\ AllRecords(<<>>)
        /\ IsGpxFront(<<>>) /\ IsTextfile(<<>>)
    BY <1>1 DEF IsGpx, IsBinfile, AllRecords, IsGpxFront, IsTextfile
  <1>4. Whole(<<>>)
    BY <1>1, <1>2, <1>3 DEF Whole, TypesOK
  <1> QED
    BY <1>2, <1>3, <1>4 DEF Clean, Started

-----------------------------------------------------------------------------
(* The items of vehicle_log_binfile                                        *)

(* A number at which a property fails is preceded by a least one.          *)
LEMMA Least ==
  ASSUME NEW S \in SUBSET Nat, S # {}
  PROVE  \E n \in S : \A m \in S : n <= m
  <1> DEFINE R == OpToRel(<, Nat)
  <1>1. IsWellFoundedOn(R, Nat)
    BY NatLessThanWellFounded
  <1>2. \A m, n \in Nat : m < n => <<m, n>> \in R
    BY DEF OpToRel
  <1> HIDE DEF R
  <1>3. PICK n \in S : \A m \in S : <<m, n>> \notin R
    BY <1>1, WFMin
  <1>4. ASSUME NEW m \in S
        PROVE  n <= m
    <2>1. m \in Nat /\ n \in Nat
      OBVIOUS
    <2>2. ~(m < n)
      BY <1>2, <1>3, <2>1
    <2> QED
      BY <2>1, <2>2
  <1> QED
    BY <1>4

LEMMA Climbing ==
  ASSUME NEW m \in Nat, NEW f \in [1..m -> Nat], \A i \in 2..m : f[i - 1] < f[i],
         NEW a \in 1..m, NEW b \in 1..m, a < b
  PROVE  f[a] < f[b]
  <1> SUFFICES ASSUME ~(f[a] < f[b])
               PROVE  FALSE
    OBVIOUS
  <1> DEFINE S == {j \in 1..m : a < j /\ ~(f[a] < f[j])}
  <1>1. S \in SUBSET Nat /\ b \in S
    OBVIOUS
  <1>2. PICK n \in S : \A j \in S : n <= j
    BY <1>1, Least
  <1>3. n \in 2..m /\ n - 1 \in 1..m /\ a <= n - 1 /\ n - 1 < n /\ ~(f[a] < f[n])
    BY <1>2
  <1>4. f[n - 1] < f[n] /\ f[n - 1] \in Nat /\ f[n] \in Nat /\ f[a] \in Nat
    BY <1>3
  <1>5. CASE a = n - 1
    BY <1>3, <1>4, <1>5
  <1>6. CASE a < n - 1
    <2>1. n - 1 \in S => n <= n - 1
      BY <1>2
    <2>2. n - 1 \notin S
      BY <1>3, <2>1
    <2>3. f[a] < f[n - 1]
      BY <1>3, <1>6, <2>2
    <2> QED
      BY <1>3, <1>4, <2>3
  <1> QED
    BY <1>3, <1>5, <1>6

(* The first cell of an item counts those behind it                        *)
LEMMA ItemCells ==
  ASSUME NEW s \in Seq(Cell)
  PROVE  Item(s) <=> /\ Len(s) >= 1 /\ s[1] = Length(Len(s) - 1)
                     /\ \A i \in 2..Len(s) : IsRecord(s[i])
  BY Cells DEF Item

LEMMA LongerFits ==
  ASSUME attrs.type = "binfile", log.data \in Seq(Cell), Clean(log.data), NEW k \in Nat,
         \A j : Holds(log.data, j) => j <= k
  PROVE  /\ Longer(k) \in Seq(Cell) /\ Item(Longer(k)) /\ InOrder(Longer(k))
         /\ Len(log.data) <= Len(Longer(k))
         /\ \A j : Holds(Longer(k), j) => Holds(log.data, j) \/ j = k
  <1> DEFINE w == Longer(k)
             d == log.data
  <1>1. d = <<>> \/ ~IsRecord(d[1])
    <2>1. \A n : ~IsRecord(Length(n))
      BY DEF Length, IsRecord
    <2> QED
      BY <2>1 DEF Clean, Item
  <1>2. w \in Seq(Cell) /\ w # <<>>
    BY <1>1, LongerItem
  <1>3. CASE d = <<>>
    <2>1. w = <<Length(1), Record(k)>>
      BY <1>3 DEF Longer
    <2> HIDE DEF w, d
    <2>2. /\ Len(w) = 2 /\ DOMAIN w = 1..2 /\ w[1] = Length(1) /\ w[2] = Record(k)
      BY <2>1
    <2>3. ~IsRecord(w[1]) /\ IsRecord(w[2]) /\ w[2][2] = k
      BY <2>2, LengthCell, RecordCell
    <2>4. Item(w)
      <3>1. Len(w) - 1 = 1 /\ Len(w) >= 1 /\ \A i \in 2..2 : i = 2
        BY <2>2
      <3>2. w[1] = Length(Len(w) - 1) /\ \A i \in 2..Len(w) : IsRecord(w[i])
        BY <2>2, <2>3, <3>1
      <3> QED
        BY <1>2, <3>1, <3>2, ItemCells
    <2>5. InOrder(w)
      BY <2>2, <2>3 DEF InOrder
    <2>6. \A j : Holds(w, j) => j = k
      BY <2>2, <2>3 DEF Holds
    <2>7. Len(d) <= Len(w)
      BY <1>3, <2>2
    <2> QED
      BY <1>2, <2>4, <2>5, <2>6, <2>7 DEF w, d
  <1>4. CASE d # <<>>
    <2>1. Item(d) /\ InOrder(d)
      BY <1>4 DEF Clean
    <2>2. w = [i \in 1..(Len(d) + 1) |-> IF i = 1 THEN Length(d[1][2] + 1)
                                         ELSE IF i <= Len(d) THEN d[i] ELSE Record(k)]
      BY <1>4 DEF Longer
    <2>0. d \in Seq(Cell) /\ \A j : Holds(d, j) => j <= k
      OBVIOUS
    <2> HIDE DEF w, d
    <2> DEFINE n == Len(d)
    <2>3. n \in Nat /\ n >= 1 /\ d[1] = Length(n - 1) /\ \A i \in 2..n : IsRecord(d[i])
      BY <2>0, <2>1, ItemCells, Cells
    <2>4. DOMAIN d = 1..n /\ \A i \in 1..n : d[i][2] \in Nat
      BY <2>0, Cells
    <2>5. d[1][2] + 1 = n
      <3>1. d[1][2] = n - 1
        BY <2>3 DEF Length
      <3> QED
        BY <2>3, <3>1
    <2>6. /\ DOMAIN w = 1..(n + 1)
          /\ w[1] = Length(n) /\ w[n + 1] = Record(k)
          /\ \A i \in 2..n : w[i] = d[i]
      BY <2>2, <2>3, <2>5
    <2>7. Len(w) = n + 1
      BY <1>2, <2>3, <2>6, Cells
    <2> HIDE DEF n
    <2>8. ~IsRecord(w[1]) /\ IsRecord(w[n + 1]) /\ w[n + 1][2] = k
      BY <2>3, <2>6, LengthCell, RecordCell
    <2>9. \A i \in 2..(n + 1) : i \in 2..n \/ i = n + 1
      BY <2>3
    <2>10. Item(w)
      <3>1. Len(w) - 1 = n /\ Len(w) >= 1
        BY <2>3, <2>7
      <3>2. \A i \in 2..Len(w) : IsRecord(w[i])
        BY <2>3, <2>6, <2>7, <2>8, <2>9
      <3> QED
        BY <1>2, <2>6, <3>1, <3>2, ItemCells
    <2>11. \A i \in 2..n : Holds(d, d[i][2]) /\ d[i][2] \in Nat /\ d[i][2] <= k
      <3> TAKE i \in 2..n
      <3>1. i \in 1..n /\ IsRecord(d[i])
        BY <2>3
      <3>2. Holds(d, d[i][2])
        BY <2>4, <3>1 DEF Holds
      <3> QED
        BY <2>0, <2>4, <3>1, <3>2
    <2>12. InOrder(w)
      <3> SUFFICES ASSUME NEW i \in 1..(n + 1), NEW j \in 1..(n + 1), i < j,
                          IsRecord(w[i]), IsRecord(w[j])
                   PROVE  Follows(w[i][2], w[j][2])
        BY <2>6 DEF InOrder, Follows
      <3>1. i \in 2..n /\ (j \in 2..n \/ j = n + 1)
        <4>1. i # 1
          BY <2>8
        <4> QED
          BY <2>3, <4>1
      <3>2. CASE j \in 2..n
        <4>1. i \in 1..n /\ j \in 1..n /\ w[i] = d[i] /\ w[j] = d[j]
          BY <2>3, <2>6, <3>1, <3>2
        <4> QED
          BY <2>1, <2>4, <4>1 DEF InOrder, Follows
      <3>3. CASE j = n + 1
        <4>1. w[i] = d[i] /\ w[i][2] \in Nat /\ w[i][2] <= k /\ w[j][2] = k
          BY <2>6, <2>8, <2>11, <3>1, <3>3
        <4>2. w[i][2] < k \/ w[i][2] = k
          BY <4>1
        <4> QED
          BY <4>1, <4>2 DEF Follows
      <3> QED
        BY <3>1, <3>2, <3>3
    <2>13. \A j : Holds(w, j) => Holds(d, j) \/ j = k
      <3> SUFFICES ASSUME NEW i \in 1..(n + 1), IsRecord(w[i])
                   PROVE  Holds(d, w[i][2]) \/ w[i][2] = k
        BY <2>6 DEF Holds
      <3>1. i \in 2..n \/ i = n + 1
        <4>1. i # 1
          BY <2>8
        <4> QED
          BY <2>3, <4>1
      <3> QED
        BY <2>6, <2>8, <2>11, <3>1
    <2>14. Len(d) <= Len(w)
      BY <2>3, <2>7 DEF n
    <2> QED
      BY <1>2, <2>10, <2>12, <2>13, <2>14 DEF w, d
  <1> QED
    BY <1>3, <1>4

LEMMA SimplifiedFits ==
  ASSUME NEW item \in Seq(Cell), Item(item), InOrder(item), NEW s \in Simplified(item)
  PROVE  /\ s \in Seq(Cell) /\ Item(s) /\ InOrder(s)
         /\ \A j : Holds(s, j) => Holds(item, j)
  <1> DEFINE points == Tail(item)
             n == Len(item)
  <1>0. n \in Nat /\ DOMAIN item = 1..n /\ item # <<>>
    BY Cells DEF Item
  <1>1. /\ points \in Seq(Cell) /\ Len(points) = n - 1 /\ n - 1 \in Nat
        /\ \A i \in 1..(n - 1) : points[i] = item[i + 1]
    BY <1>0
  <1>2. /\ DOMAIN points = 1..(n - 1)
        /\ \A i \in 1..(n - 1) : i + 1 \in 2..n /\ i + 1 \in 1..n
    BY <1>0, <1>1
  <1> HIDE DEF points
  <1>3. \A i \in 1..(n - 1) : IsRecord(points[i])
    BY <1>1, <1>2, ItemCells
  <1>4. PICK q \in SeqOf(DOMAIN points, Len(points)) :
          /\ \A i \in DOMAIN q \ {1} : q[i - 1] < q[i]
          /\ s = <<Length(Len(q))>> \o [i \in DOMAIN q |-> points[q[i]]]
    BY DEF Simplified, points
  <1>5. PICK m \in 0..(n - 1) : q \in [1..m -> 1..(n - 1)]
    BY <1>1, <1>2, <1>4 DEF SeqOf
  <1>6. m \in Nat /\ Len(q) = m /\ DOMAIN q = 1..m
    BY <1>1, <1>5
  <1> DEFINE t == [i \in 1..m |-> points[q[i]]]
             c == Length(m)
  <1>7. s = <<c>> \o t
    BY <1>4, <1>6
  <1>8. \A i \in 1..m : q[i] \in 1..(n - 1) /\ q[i] \in Nat /\ t[i] = points[q[i]]
    BY <1>1, <1>5
  <1>9. t \in Seq(Cell) /\ Len(t) = m
    <2>1. \A i \in 1..m : points[q[i]] \in Cell
      BY <1>1, <1>2, <1>8
    <2>2. t \in [1..m -> Cell]
      BY <2>1
    <2> HIDE DEF t
    <2> QED
      BY <1>6, <2>2
  <1>10. c \in Cell /\ ~IsRecord(c)
    BY <1>6, LengthCell
  <1> HIDE DEF t
  <1>11. /\ s \in Seq(Cell) /\ Len(s) = m + 1 /\ DOMAIN s = 1..(m + 1) /\ s[1] = c
         /\ \A i \in 2..(m + 1) : s[i] = t[i - 1] /\ i - 1 \in 1..m
    <2> HIDE DEF c
    <2>1. <<c>> \in Seq(Cell) /\ Len(<<c>>) = 1 /\ <<c>>[1] = c
      BY <1>10
    <2>2. s \in Seq(Cell) /\ Len(s) = m + 1 /\ s[1] = c
      BY <1>6, <1>7, <1>9, <1>10
    <2>3. \A i \in 2..(m + 1) : s[i] = t[i - 1] /\ i - 1 \in 1..m
      BY <1>6, <1>7, <1>9, <2>1
    <2> QED
      BY <2>2, <2>3
  <1>12. \A i \in 2..(m + 1) : /\ i - 1 \in 1..m /\ q[i - 1] \in 1..(n - 1)
                               /\ s[i] = item[q[i - 1] + 1] /\ q[i - 1] + 1 \in 1..n
    BY <1>1, <1>2, <1>8, <1>11
  <1>13. \A i \in 2..(m + 1) : IsRecord(s[i])
    BY <1>3, <1>8, <1>11
  <1>14. Item(s)
    <2>1. Len(s) - 1 = m /\ Len(s) >= 1
      BY <1>6, <1>11
    <2> QED
      BY <1>11, <1>13, <2>1, ItemCells
  <1>15. InOrder(s)
    <2> SUFFICES ASSUME NEW i \in 1..(m + 1), NEW j \in 1..(m + 1), i < j,
                        IsRecord(s[i]), IsRecord(s[j])
                 PROVE  Follows(s[i][2], s[j][2])
      BY <1>11 DEF InOrder, Follows
    <2>1. i \in 2..(m + 1) /\ j \in 2..(m + 1)
      <3>1. i # 1
        BY <1>10, <1>11
      <3> QED
        BY <1>6, <3>1
    <2>2. i - 1 \in 1..m /\ j - 1 \in 1..m /\ i - 1 < j - 1
      BY <1>6, <2>1
    <2>3. q[i - 1] < q[j - 1]
      <3>1. q \in [1..m -> Nat]
        BY <1>5, <1>8
      <3>2. \A a \in 2..m : q[a - 1] < q[a]
        <4>1. \A a \in 2..m : a \in 1..m \ {1}
          BY <1>6
        <4> QED
          BY <1>4, <1>6, <4>1
      <3> QED
        BY <1>6, <2>2, <3>1, <3>2, Climbing
    <2>4. /\ s[i] = item[q[i - 1] + 1] /\ q[i - 1] + 1 \in 1..n
          /\ s[j] = item[q[j - 1] + 1] /\ q[j - 1] + 1 \in 1..n
      BY <1>12, <2>1
    <2>5. q[i - 1] + 1 < q[j - 1] + 1
      <3>1. q[i - 1] \in Nat /\ q[j - 1] \in Nat
        BY <1>8, <2>2
      <3> QED
        BY <2>3, <3>1
    <2> QED
      BY <1>0, <2>4, <2>5 DEF InOrder, Follows
  <1>16. \A j : Holds(s, j) => Holds(item, j)
    <2> SUFFICES ASSUME NEW i \in 1..(m + 1), IsRecord(s[i])
                 PROVE  Holds(item, s[i][2])
      BY <1>11 DEF Holds
    <2>1. i \in 2..(m + 1)
      <3>1. i # 1
        BY <1>10, <1>11
      <3> QED
        BY <1>6, <3>1
    <2> QED
      BY <1>0, <1>12, <2>1 DEF Holds
  <1> QED
    BY <1>11, <1>14, <1>15, <1>16

-----------------------------------------------------------------------------
(* Writing over all that is behind the front                               *)
LEMMA SameCells ==
  ASSUME NEW s \in Seq(Cell), NEW t \in Seq(Cell), Len(s) = Len(t),
         \A i \in 1..Len(s) : s[i] = t[i]
  PROVE  s = t
  <1>1. /\ s = [i \in 1..Len(s) |-> s[i]] /\ t = [i \in 1..Len(t) |-> t[i]]
    BY LenProperties
  <1>2. [i \in 1..Len(s) |-> s[i]] = [i \in 1..Len(t) |-> t[i]]
    OBVIOUS
  <1> QED
    BY <1>1, <1>2

(* What is behind n is cut off, or there is nothing                        *)
Leaves(flags, s, n) == "truncate" \notin flags => Len(s) <= n

LEMMA FrontCells ==
  ASSUME NEW s \in Seq(Cell), NEW n \in Nat, n <= Len(s), NEW a, a = UpTo(s, n)
  PROVE  /\ a \in Seq(Cell) /\ Len(a) = n /\ DOMAIN a = 1..n
         /\ \A i \in 1..n : a[i] = s[i]
         /\ a = <<>> <=> n = 0
         /\ n = Len(s) => a = s
  <1>1. a = [i \in 1..n |-> s[i]]
    BY DEF UpTo
  <1>2. \A i \in 1..n : s[i] \in Cell
    OBVIOUS
  <1>3. a \in Seq(Cell) /\ Len(a) = n
    BY <1>1, <1>2
  <1>4. DOMAIN a = 1..n /\ \A i \in 1..n : a[i] = s[i]
    BY <1>1
  <1>5. a = <<>> <=> n = 0
    BY <1>3, Cells
  <1>6. n = Len(s) => a = s
    BY <1>3, <1>4, SameCells
  <1> QED
    BY <1>3, <1>4, <1>5, <1>6

LEMMA SameFront ==
  ASSUME NEW s \in Seq(Cell), NEW t \in Seq(Cell), NEW n \in Nat, n <= Len(s), n <= Len(t),
         \A i \in 1..n : s[i] = t[i]
  PROVE  UpTo(s, n) = UpTo(t, n)
  <1> DEFINE a == UpTo(s, n)
             b == UpTo(t, n)
  <1>1. /\ a \in Seq(Cell) /\ Len(a) = n /\ \A i \in 1..n : a[i] = s[i]
        /\ b \in Seq(Cell) /\ Len(b) = n /\ \A i \in 1..n : b[i] = t[i]
    BY FrontCells
  <1> HIDE DEF a, b
  <1>2. a = b
    BY <1>1, SameCells
  <1> QED
    BY <1>2 DEF a, b

LEMMA WriteFront ==
  ASSUME NEW s \in Seq(Cell), NEW p \in Nat, p <= Len(s), NEW c \in Seq(Cell),
         NEW w, w = WriteAt(s, p, c)
  PROVE  /\ w \in Seq(Cell) /\ p + Len(c) <= Len(w)
         /\ Joined(UpTo(w, p + Len(c)), UpTo(s, p), c)
         /\ Len(s) <= p + Len(c) => /\ Len(w) = p + Len(c)
                                    /\ Joined(w, UpTo(s, p), c)
         /\ Len(w) <= Len(s) \/ Len(w) = p + Len(c)
         /\ \A i \in 1..p : w[i] = s[i]
  <1>1. /\ w \in Seq(Cell) /\ Len(w) >= p + Len(c)
        /\ Len(w) = Len(s) \/ Len(w) = p + Len(c)
        /\ \A i \in 1..p : w[i] = s[i]
        /\ \A i \in 1..Len(c) : w[p + i] = c[i]
    BY WriteAtCells
  <1>2. Len(s) \in Nat /\ Len(c) \in Nat /\ Len(w) \in Nat
    BY <1>1
  <1> DEFINE a == UpTo(s, p)
             e == p + Len(c)
             b == UpTo(w, e)
             q == a \o c
  <1>3. a \in Seq(Cell) /\ Len(a) = p /\ \A i \in 1..p : a[i] = s[i]
    BY FrontCells
  <1>4. e \in Nat /\ e <= Len(w) /\ p <= e
    BY <1>1, <1>2
  <1>5. /\ b \in Seq(Cell) /\ Len(b) = e /\ \A i \in 1..e : b[i] = w[i]
        /\ e = Len(w) => b = w
    <2> HIDE DEF e
    <2> QED
      BY <1>1, <1>4, FrontCells
  <1> HIDE DEF a, b
  <1>6. /\ q \in Seq(Cell) /\ Len(q) = e
        /\ \A i \in 1..p : q[i] = a[i]
        /\ \A i \in 1..Len(c) : q[p + i] = c[i]
        /\ \A i \in 1..e : i \in 1..p \/ \E j \in 1..Len(c) : i = p + j
    <2>1. Joined(q, a, c)
      BY DEF Joined
    <2> HIDE DEF q, e
    <2>2. /\ q \in Seq(Cell) /\ Len(q) = Len(a) + Len(c)
          /\ \A i \in 1..Len(a) : q[i] = a[i]
          /\ \A i \in 1..Len(c) : q[Len(a) + i] = c[i]
          /\ \A i \in 1..Len(q) : i \in 1..Len(a) \/ \E j \in 1..Len(c) : i = Len(a) + j
      <3>1. a \in Seq(Cell)
        BY <1>3
      <3> QED
        BY <2>1, <3>1, Concat
    <2>3. Len(q) = e
      BY <1>3, <2>2 DEF e
    <2> QED
      BY <1>3, <2>2, <2>3
  <1> HIDE DEF q
  <1>7. \A i \in 1..e : q[i] = w[i]
    <2> TAKE i \in 1..e
    <2>1. CASE i \in 1..p
      BY <1>1, <1>3, <1>6, <2>1
    <2>2. CASE \E j \in 1..Len(c) : i = p + j
      BY <1>1, <1>6, <2>2
    <2> QED
      BY <1>6, <2>1, <2>2
  <1>8. b = q
    BY <1>5, <1>6, <1>7, SameCells
  <1>9. Joined(b, a, c)
    BY <1>8 DEF Joined, q
  <1>10. Len(s) <= e => Len(w) = e /\ b = w
    BY <1>1, <1>2, <1>4, <1>5
  <1>11. Len(w) <= Len(s) \/ Len(w) = e
    BY <1>1, <1>2
  <1> QED
    BY <1>1, <1>4, <1>9, <1>10, <1>11 DEF a, b

LEMMA WrittenOver ==
  ASSUME NEW s \in Seq(Cell), NEW p \in Nat, p <= Len(s), NEW o \in Seq(Cell), NEW flags,
         NEW e, e = p + Len(o),
         NEW w, w = WriteAt(Cut(flags, WriteAt(s, p, o), e), e, Trailer),
         Leaves(flags, s, e + Len(Trailer))
  PROVE  /\ w \in Seq(Cell) /\ Len(w) = e + Len(Trailer)
         /\ Joined(UpTo(w, e), UpTo(s, p), o)
         /\ Joined(w, UpTo(w, e), Trailer)
         /\ UpTo(w, p) = UpTo(s, p)
  <1> DEFINE u == WriteAt(s, p, o)
             v == Cut(flags, u, e)
  <1>1. /\ u \in Seq(Cell) /\ e <= Len(u)
        /\ Joined(UpTo(u, e), UpTo(s, p), o)
        /\ Len(u) <= Len(s) \/ Len(u) = e
        /\ \A i \in 1..p : u[i] = s[i]
    BY WriteFront
  <1>0. /\ e \in Nat /\ p <= e /\ Len(u) \in Nat /\ Len(s) \in Nat
        /\ Trailer \in Seq(Cell) /\ Len(Trailer) \in Nat
    BY <1>1, HeadAndTail
  <1> HIDE DEF u
  <1>2. /\ v \in Seq(Cell) /\ e <= Len(v)
        /\ \A i \in 1..e : v[i] = u[i]
        /\ "truncate" \in flags => Len(v) <= e
        /\ "truncate" \notin flags => v = u
    <2>1. CASE "truncate" \in flags /\ e < Len(u)
      <3>1. v = UpTo(u, e)
        BY <2>1 DEF Cut, UpTo
      <3> HIDE DEF v
      <3>2. v \in Seq(Cell) /\ Len(v) = e /\ \A i \in 1..e : v[i] = u[i]
        <4>1. u \in Seq(Cell) /\ e \in Nat /\ e <= Len(u)
          BY <1>0, <1>1
        <4> QED
          BY <3>1, <4>1, FrontCells
      <3> QED
        BY <1>0, <2>1, <3>2
    <2>2. CASE ~("truncate" \in flags /\ e < Len(u))
      <3>1. v = u
        BY <2>2 DEF Cut, UpTo
      <3> HIDE DEF v
      <3> QED
        BY <1>0, <1>1, <2>2, <3>1
    <2> QED
      BY <2>1, <2>2
  <1> HIDE DEF v
  <1>3. Len(v) <= e + Len(Trailer)
    <2>1. Len(v) \in Nat
      BY <1>2
    <2>2. CASE "truncate" \in flags
      BY <1>0, <1>2, <2>1, <2>2
    <2>3. CASE "truncate" \notin flags
      BY <1>0, <1>1, <1>2, <2>1, <2>3 DEF Leaves
    <2> QED
      BY <2>2, <2>3
  <1>4. w = WriteAt(v, e, Trailer)
    BY DEF v, u
  <1>5. /\ w \in Seq(Cell) /\ Len(w) = e + Len(Trailer)
        /\ Joined(w, UpTo(v, e), Trailer)
        /\ \A i \in 1..e : w[i] = v[i]
    BY <1>0, <1>2, <1>3, <1>4, WriteFront
  <1>6. e <= Len(w) /\ p <= Len(w)
    BY <1>0, <1>5
  <1>7. UpTo(v, e) = UpTo(u, e)
    BY <1>0, <1>1, <1>2, SameFront
  <1>8. UpTo(w, e) = UpTo(v, e)
    BY <1>0, <1>2, <1>5, <1>6, SameFront
  <1>9. UpTo(w, p) = UpTo(s, p)
    <2>1. \A i \in 1..p : i \in 1..e
      BY <1>0
    <2>2. \A i \in 1..p : w[i] = s[i]
      BY <1>1, <1>2, <1>5, <2>1
    <2> QED
      BY <1>5, <1>6, <2>2, SameFront
  <1> QED
    BY <1>1, <1>5, <1>7, <1>8, <1>9

-----------------------------------------------------------------------------
(* What log_open, log_flush, log_close, log_change and log_new keep        *)
LEMMA ForeCells ==
  ASSUME NEW x, Good(x)
  PROVE  /\ Fore(x) \in Seq(Cell)
         /\ x.log.open => (Fore(x) = <<>> <=> x.log.pos = 0)
  <1>1. CASE x.log.open
    <2>1. /\ Fore(x) = UpTo(x.disk[x.log.file], x.log.pos)
          /\ x.disk[x.log.file] \in Seq(Cell)
          /\ x.log.pos \in Nat /\ x.log.pos <= Len(x.disk[x.log.file])
      BY <1>1 DEF Fore, Good, Files
    <2> QED
      BY <2>1, FrontCells
  <1>2. CASE ~x.log.open
    <2>1. <<>> \in Seq(Cell)
      OBVIOUS
    <2> QED
      BY <1>2, <2>1 DEF Fore, Good, Files
  <1> QED
    BY <1>1, <1>2

LEMMA OpenFits ==
  ASSUME AttrsOK, NEW x, Good(x), ~x.log.open, Sound(x), NEW y, y = Open(x)
  PROVE  /\ Sound(y) /\ \A flags : Over(y, flags)
         /\ DOMAIN y.disk = DOMAIN x.disk \cup {x.log.file}
         /\ Fore(y) = Fore(x)
  <1> DEFINE f == x.log.file
             new == attrs.overwrite \/ f \notin DOMAIN x.disk
             d == IF new THEN [g \in DOMAIN x.disk \cup {f} |->
                                 IF g = f THEN <<>> ELSE x.disk[g]]
                         ELSE x.disk
             l == [x.log EXCEPT !.open = TRUE, !.pos = Len(d[f]), !.empty = (d[f] = <<>>)]
  <1>1. y = [disk |-> d, log |-> l]
    BY DEF Open
  <1>2. /\ DOMAIN d = DOMAIN x.disk \cup {f}
        /\ \A g \in DOMAIN x.disk : g # f => d[g] = x.disk[g]
        /\ new => d[f] = <<>>
        /\ ~new => d[f] = x.disk[f]
    OBVIOUS
  <1>3. /\ l.open /\ l.file = f /\ l.pos = Len(d[f]) /\ l.empty = (d[f] = <<>>)
        /\ l.data = x.log.data
    BY DEF Good
  <1>4. Fore(x) = d[f]
    BY <1>2 DEF Fore
  <1>5. d[f] \in Seq(Cell)
    BY <1>4, ForeCells
  <1> HIDE DEF d, l, new
  <1>6. y.disk = d /\ y.log = l
    BY <1>1
  <1>7. Fore(y) = d[f]
    <2>1. Fore(y) = UpTo(d[f], Len(d[f]))
      BY <1>3, <1>6 DEF Fore
    <2> DEFINE a == d[f]
    <2>2. a \in Seq(Cell) /\ Len(a) \in Nat /\ Len(a) <= Len(a)
      BY <1>5
    <2> HIDE DEF a
    <2>3. UpTo(a, Len(a)) = a
      BY <2>2, FrontCells
    <2> QED
      BY <2>1, <2>3 DEF a
  <1>8. \A g \in DOMAIN d \ torn : Whole(d[g])
    <2> SUFFICES ASSUME NEW g \in DOMAIN d \ torn
                 PROVE  Whole(d[g])
      OBVIOUS
    <2>1. CASE g # f
      BY <1>2, <2>1 DEF Sound
    <2>2. CASE g = f /\ new
      BY <1>2, <2>2, AttrsTyped, NothingWhole
    <2>3. CASE g = f /\ ~new
      <3>1. f \in DOMAIN x.disk
        BY <2>3 DEF new
      <3> QED
        BY <1>2, <2>3, <3>1 DEF Sound
    <2> QED
      BY <2>1, <2>2, <2>3
  <1>9. Sound(y)
    <2>1. d[f] = <<>> <=> Len(d[f]) = 0
      BY <1>5
    <2> QED
      BY <1>3, <1>4, <1>6, <1>7, <1>8, <2>1 DEF Sound
  <1>10. ASSUME NEW flags
         PROVE  Over(y, flags)
    <2>1. l.data \in Seq(Cell) /\ l.empty \in BOOLEAN
      BY <1>3 DEF Good
    <2>2. Out(l) \in Seq(Cell) /\ Trailer \in Seq(Cell)
      BY <2>1, OutJoined, HeadAndTail
    <2>3. Len(Out(l)) \in Nat /\ Len(Trailer) \in Nat /\ Len(d[f]) \in Nat
      BY <1>5, <2>2
    <2>4. Len(d[f]) <= Len(d[f]) + Len(Out(l)) + Len(Trailer)
      BY <2>3
    <2> QED
      BY <1>3, <1>6, <2>4 DEF Over
  <1> QED
    BY <1>2, <1>4, <1>6, <1>7, <1>9, <1>10

(* After a flush a log with a header has at least written that *)
Begun(x) ==
  x.log.open /\ x.log.file \notin torn /\ Headed => x.log.pos # 0

LEMMA FlushOpenFits ==
  ASSUME AttrsOK, NEW x, Good(x), x.log.open, Sound(x),
         NEW flags \in {{}, Rewrite, Replace}, flags # {} => attrs.type = "binfile",
         Over(x, flags), NEW y, y = Flush(x, flags)
  PROVE  /\ Sound(y) /\ Over(y, {}) /\ DOMAIN y.disk = DOMAIN x.disk
         /\ Begun(y)
  <1> DEFINE l == x.log
             f == l.file
             o == Out(l)
             end == l.pos + Len(o)
             w == WriteAt(Cut(flags, WriteAt(x.disk[f], l.pos, o), end), end, Trailer)
             pos == IF "keep_pointer" \in flags THEN end - Len(l.data) ELSE end
             data == IF "keep_buffer" \in flags THEN l.data ELSE <<>>
             empty == l.empty /\ o = <<>>
             m == [l EXCEPT !.empty = empty, !.pos = pos, !.data = data]
             d == [x.disk EXCEPT ![f] = w]
  <1>1. y.disk = d /\ y.log = m
    BY DEF Flush
  <1>2. /\ f \in DOMAIN x.disk /\ x.disk[f] \in Seq(Cell)
        /\ l.pos \in Nat /\ l.pos <= Len(x.disk[f])
        /\ l.data \in Seq(Cell) /\ l.empty \in BOOLEAN
    BY DEF Good, Files
  <1>3. /\ "keep_pointer" \in flags <=> flags = Rewrite
        /\ "keep_buffer" \in flags <=> flags = Rewrite
        /\ flags = Rewrite => attrs.type = "binfile"
    BY DEF Rewrite, Replace
  <1>4. m.open /\ m.file = f /\ m.pos = pos /\ m.data = data /\ m.empty = empty
    BY DEF Good
  <1>5. /\ DOMAIN d = DOMAIN x.disk /\ d[f] = w
        /\ \A g \in DOMAIN d : g # f => d[g] = x.disk[g]
    BY <1>2
  <1> HIDE DEF w, d, m
  <1>6. Clean(l.data) /\ Clean(<<>>) /\ TypesOK
    BY AttrsTyped, NothingWhole DEF Sound
  <1>7. Clean(data)
    BY <1>6
  <1> HIDE DEF l, f
  <1>8. o \in Seq(Cell) /\ (~Headed => o = l.data)
    BY <1>2, OutJoined
  <1>9. CASE f \in torn
    <2>1. \A g \in DOMAIN d \ torn : Whole(d[g])
      BY <1>5, <1>9 DEF Sound
    <2> HIDE DEF pos, data, empty, o, end
    <2>2. y.log.file = f
      BY <1>1, <1>4
    <2> QED
      BY <1>1, <1>4, <1>5, <1>7, <1>9, <2>1, <2>2 DEF Sound, Over, Begun
  <1>10. CASE f \notin torn
    <2> DEFINE a == UpTo(x.disk[f], l.pos)
               b == UpTo(w, end)
    <2>1. a = Fore(x)
      BY DEF Fore, l, f
    <2>2. /\ Started(a) /\ Precedes(a, l.data)
          /\ Headed => (l.empty <=> l.pos = 0)
      BY <1>10, <2>1 DEF Sound, l, f
    <2>3. a \in Seq(Cell) /\ Len(a) = l.pos /\ (a = <<>> <=> l.pos = 0)
      BY <1>2, FrontCells
    <2>4. "truncate" \notin flags => Len(x.disk[f]) <= end + Len(Trailer)
      <3>1. "truncate" \notin flags =>
              Len(x.disk[f]) <= x.log.pos + Len(Out(x.log)) + Len(Trailer)
        BY <1>10 DEF Over, l, f
      <3> QED
        BY <3>1 DEF l, f
    <2> HIDE DEF a, b, o
    <2>5. end \in Nat /\ l.pos <= end /\ Len(o) \in Nat
      BY <1>2, <1>8
    <2>6. /\ w \in Seq(Cell) /\ Len(w) = end + Len(Trailer)
          /\ Joined(b, a, o) /\ Joined(w, b, Trailer) /\ UpTo(w, l.pos) = a
      <3>1. end = l.pos + Len(o)
        BY DEF end
      <3> HIDE DEF end
      <3>2. w = WriteAt(Cut(flags, WriteAt(x.disk[f], l.pos, o), end), end, Trailer)
        BY DEF w
      <3>3. /\ w \in Seq(Cell) /\ Len(w) = end + Len(Trailer)
            /\ Joined(UpTo(w, end), UpTo(x.disk[f], l.pos), o)
            /\ Joined(w, UpTo(w, end), Trailer)
            /\ UpTo(w, l.pos) = UpTo(x.disk[f], l.pos)
        <4>1. PICK s, p, e : s = x.disk[f] /\ p = l.pos /\ e = end
          OBVIOUS
        <4>2. /\ s \in Seq(Cell) /\ p \in Nat /\ p <= Len(s) /\ o \in Seq(Cell)
              /\ e = p + Len(o)
              /\ Leaves(flags, s, e + Len(Trailer))
              /\ w = WriteAt(Cut(flags, WriteAt(s, p, o), e), e, Trailer)
          BY <1>2, <1>8, <2>4, <3>1, <3>2, <4>1 DEF Leaves
        <4>3. /\ w \in Seq(Cell) /\ Len(w) = e + Len(Trailer)
              /\ Joined(UpTo(w, e), UpTo(s, p), o)
              /\ Joined(w, UpTo(w, e), Trailer)
              /\ UpTo(w, p) = UpTo(s, p)
          BY <4>2, WrittenOver
        <4> QED
          BY <4>1, <4>3
      <3> QED
        BY <3>3 DEF a, b
    <2> HIDE DEF end
    <2>7. b \in Seq(Cell) /\ Started(b) /\ (Headed => b # <<>>)
      <3>1. Joined(b, a, Out(l)) /\ (Headed => (l.empty <=> a = <<>>))
        BY <2>2, <2>3, <2>6 DEF o
      <3> QED
        BY <1>2, <1>6, <2>2, <2>3, <3>1, Grown
    <2>8. Whole(w)
      BY <1>6, <2>6, <2>7, Finished
    <2>9. \A g \in DOMAIN d \ torn : Whole(d[g])
      BY <1>5, <2>8 DEF Sound, l, f
    <2>10. Trailer \in Seq(Cell) /\ Len(Trailer) \in Nat
      BY HeadAndTail
    <2>11. end <= Len(w)
      BY <2>5, <2>6, <2>10
    <2>12. Len(b) = end /\ (b = <<>> <=> end = 0)
      BY <2>5, <2>6, <2>11, FrontCells DEF b
    <2>13. Fore(y) = UpTo(w, pos)
      <3> HIDE DEF pos, data, empty
      <3> QED
        BY <1>1, <1>4, <1>5 DEF Fore
    <2>14. CASE flags = Rewrite
      <3>1. attrs.type = "binfile" /\ o = l.data /\ data = l.data /\ pos = l.pos
        <4>1. attrs.type = "binfile" /\ o = l.data /\ data = l.data
          BY <1>3, <1>8, <2>14 DEF Headed
        <4>2. pos = end - Len(l.data) /\ Len(l.data) \in Nat
          BY <1>2, <1>3, <2>14
        <4>3. end = l.pos + Len(l.data)
          BY <4>1 DEF end
        <4> HIDE DEF pos
        <4> QED
          BY <1>2, <4>1, <4>2, <4>3
      <3> HIDE DEF pos, data, empty
      <3>2. Fore(y) = a
        BY <2>6, <2>13, <3>1
      <3>3. Sound(y) /\ Begun(y)
        BY <1>1, <1>4, <1>7, <2>2, <2>9, <3>1, <3>2 DEF Sound, Begun, Headed
      <3>4. Out(m) = l.data
        <4>1. m.data \in Seq(Cell) /\ m.empty \in BOOLEAN
          BY <1>2, <1>4, <3>1 DEF empty
        <4> QED
          BY <1>4, <3>1, <4>1, OutJoined DEF Headed
      <3>5. Len(w) <= m.pos + Len(Out(m)) + Len(Trailer)
        <4>1. Len(w) = l.pos + Len(l.data) + Len(Trailer)
          BY <2>6, <3>1 DEF end
        <4>2. Len(l.data) \in Nat /\ Len(w) \in Nat
          BY <1>2, <2>6
        <4> QED
          BY <1>2, <1>4, <2>10, <3>1, <3>4, <4>1, <4>2
      <3>6. Over(y, {})
        BY <1>1, <1>4, <1>5, <3>5 DEF Over
      <3> QED
        BY <1>1, <1>5, <3>3, <3>6
    <2>15. CASE flags # Rewrite
      <3>1. data = <<>> /\ pos = end
        BY <1>3, <2>15
      <3>2. empty \in BOOLEAN /\ (empty <=> l.empty /\ o = <<>>)
        BY <1>2
      <3> HIDE DEF pos, data, empty
      <3>3. Fore(y) = b
        BY <2>13, <3>1 DEF b
      <3>4. Headed => ~empty /\ end # 0
        <4> SUFFICES ASSUME Headed
                     PROVE  ~empty /\ end # 0
          OBVIOUS
        <4>1. end # 0
          BY <2>7, <2>12
        <4>2. l.empty => Len(o) # 0
          <5>1. l.empty => l.pos = 0
            BY <2>2
          <5> QED
            BY <1>2, <2>5, <4>1, <5>1 DEF end
        <4>3. o = <<>> => Len(o) = 0
          OBVIOUS
        <4> QED
          BY <3>2, <4>1, <4>2, <4>3
      <3>5. Precedes(b, <<>>)
        BY <1>6, NothingWhole
      <3>6. Sound(y) /\ Begun(y)
        BY <1>1, <1>4, <1>7, <2>7, <2>9, <3>1, <3>3, <3>4, <3>5 DEF Sound, Begun
      <3>7. Len(w) <= m.pos + Len(Out(m)) + Len(Trailer)
        <4>1. m.data \in Seq(Cell) /\ m.empty \in BOOLEAN
          BY <1>4, <3>1, <3>2, EmptyTyped
        <4>2. Out(m) \in Seq(Cell)
          BY <4>1, OutJoined
        <4>3. Len(Out(m)) \in Nat
          BY <4>2
        <4> QED
          BY <1>4, <2>5, <2>6, <2>10, <3>1, <4>3
      <3>8. Over(y, {})
        BY <1>1, <1>4, <1>5, <3>7 DEF Over
      <3> QED
        BY <1>1, <1>5, <3>6, <3>8
    <2> QED
      BY <2>14, <2>15
  <1> QED
    BY <1>9, <1>10

(* No record is on the disk or in the buffer of y that was not in x        *)
NothingNew(x, y) ==
  \A k : Held(y.disk, k) \/ Holds(y.log.data, k) => Held(x.disk, k) \/ Holds(x.log.data, k)

LEMMA FlushFits ==
  ASSUME AttrsOK, NEW x, Good(x), Sound(x),
         NEW flags \in {{}, Rewrite, Replace}, flags # {} => attrs.type = "binfile",
         Over(x, flags), NEW y, y = Flush(x, flags), x.log.open \/ attrs.lazy
  PROVE  /\ Sound(y) /\ Over(y, {}) /\ Begun(y) /\ NothingNew(x, y)
         /\ DOMAIN y.disk \subseteq DOMAIN x.disk \cup {x.log.file}
  <1>1. CASE x.log.open
    <2>1. /\ y.log.data = (IF flags = Rewrite THEN x.log.data ELSE <<>>)
          /\ \A k : Held(y.disk, k) => Held(x.disk, k) \/ Holds(x.log.data, k)
      BY <1>1, FlushWrites
    <2>2. NothingNew(x, y)
      BY <2>1, NothingHeld DEF NothingNew
    <2>3. Sound(y) /\ Over(y, {}) /\ Begun(y) /\ DOMAIN y.disk = DOMAIN x.disk
      BY <1>1, FlushOpenFits
    <2> QED
      BY <2>2, <2>3
  <1>2. CASE ~x.log.open /\ x.log.data = <<>>
    <2>1. y = x
      BY <1>2 DEF Flush
    <2> QED
      BY <1>2, <2>1 DEF Over, Begun, NothingNew
  <1>3. CASE ~x.log.open /\ x.log.data # <<>>
    <2> DEFINE z == Open(x)
    <2>1. /\ Good(z) /\ z.log.open /\ z.log.file = x.log.file /\ z.log.data = x.log.data
          /\ \A k : Held(z.disk, k) => Held(x.disk, k)
      BY OpenKeeps
    <2>2. y = Flush(z, flags)
      BY <1>3, <2>1 DEF Flush
    <2>3. /\ Sound(z) /\ Over(z, flags)
          /\ DOMAIN z.disk = DOMAIN x.disk \cup {x.log.file}
      BY <1>3, OpenFits
    <2> HIDE DEF z
    <2>4. Good(z) /\ z.log.open
      BY <2>1
    <2>5. /\ Good(y) /\ y.log.open /\ y.log.file = z.log.file
          /\ y.log.data = (IF flags = Rewrite THEN z.log.data ELSE <<>>)
          /\ \A k : Secure(z, k) => Secure(y, k)
          /\ \A k : Held(y.disk, k) => Held(z.disk, k) \/ Holds(z.log.data, k)
      BY <2>2, <2>4, FlushWrites
    <2>6. NothingNew(x, y)
      BY <2>1, <2>5, NothingHeld DEF NothingNew
    <2>7. Sound(y) /\ Over(y, {}) /\ Begun(y) /\ DOMAIN y.disk = DOMAIN z.disk
      BY <2>2, <2>3, <2>4, FlushOpenFits
    <2> QED
      BY <2>3, <2>6, <2>7
  <1> QED
    BY <1>1, <1>2, <1>3

LEMMA CloseFits ==
  ASSUME AttrsOK, NEW x, Good(x), Sound(x), Over(x, {}), Begun(x), x.log.data = <<>>,
         NEW y, y = Close(x)
  PROVE  /\ \A g \in DOMAIN y.disk \ torn : Whole(y.disk[g])
         /\ DOMAIN y.disk = DOMAIN x.disk
  <1>1. CASE ~x.log.open
    BY <1>1 DEF Close, Sound
  <1>2. CASE x.log.open
    <2> DEFINE l == x.log
               f == l.file
               w == WriteAt(x.disk[f], l.pos, Trailer)
               d == [x.disk EXCEPT ![f] = w]
               m == [l EXCEPT !.open = FALSE]
    <2>1. y.disk = d /\ y.log = m
      BY <1>2 DEF Close
    <2>2. /\ f \in DOMAIN x.disk /\ x.disk[f] \in Seq(Cell)
          /\ l.pos \in Nat /\ l.pos <= Len(x.disk[f])
          /\ l.data = <<>> /\ l.empty \in BOOLEAN
      BY <1>2 DEF Good, Files
    <2>3. ~m.open /\ m.file = f /\ m.data = <<>>
      BY <2>2 DEF Good
    <2>4. /\ DOMAIN d = DOMAIN x.disk /\ d[f] = w
          /\ \A g \in DOMAIN d : g # f => d[g] = x.disk[g]
      BY <2>2
    <2>0. w = WriteAt(x.disk[f], l.pos, Trailer)
      OBVIOUS
    <2> HIDE DEF w, d, m
    <2>5. TypesOK /\ Clean(<<>>) /\ Started(<<>>) /\ \A s : Precedes(s, <<>>)
      BY AttrsTyped, NothingWhole
    <2>6. CASE f \in torn
      <3>1. \A g \in DOMAIN d \ torn : Whole(d[g])
        BY <2>4, <2>6 DEF Sound
      <3> QED
        BY <2>1, <2>4, <3>1
    <2>7. CASE f \notin torn
      <3> DEFINE a == UpTo(x.disk[f], l.pos)
      <3>1. a = Fore(x)
        BY <1>2 DEF Fore
      <3>2. Started(a) /\ (Headed => l.pos # 0 /\ ~l.empty)
        BY <1>2, <2>7, <3>1 DEF Sound, Begun
      <3>3. Len(x.disk[f]) <= l.pos + Len(Trailer)
        <4>1. Out(l) = l.data
          <5> HIDE DEF l, f
          <5>1. l.data \in Seq(Cell)
            BY <2>2, EmptyTyped
          <5> QED
            BY <2>2, <3>2, <5>1, OutJoined
        <4>2. Len(x.disk[f]) <= l.pos + Len(Out(l)) + Len(Trailer)
          BY <1>2, <2>7 DEF Over
        <4>3. Len(Out(l)) = 0
          BY <2>2, <4>1
        <4>4. Len(Trailer) \in Nat
          BY HeadAndTail
        <4> HIDE DEF l, f
        <4> QED
          BY <2>2, <4>2, <4>3, <4>4
      <3>4. Started(a) /\ a \in Seq(Cell) /\ (Headed => a # <<>>)
        <4>1. a \in Seq(Cell) /\ (a = <<>> <=> l.pos = 0)
          BY <2>2, FrontCells
        <4> QED
          BY <3>2, <4>1
      <3>5. Joined(w, a, Trailer)
        <4>1. PICK s, p : s = x.disk[f] /\ p = l.pos
          OBVIOUS
        <4>2. /\ s \in Seq(Cell) /\ p \in Nat /\ p <= Len(s) /\ Trailer \in Seq(Cell)
              /\ w = WriteAt(s, p, Trailer) /\ Len(s) <= p + Len(Trailer)
          BY <2>0, <2>2, <3>3, <4>1, HeadAndTail
        <4>3. Joined(w, UpTo(s, p), Trailer)
          BY <4>2, WriteFront
        <4> QED
          BY <4>1, <4>3
      <3> HIDE DEF a
      <3>6. Whole(w)
        BY <2>5, <3>4, <3>5, Finished
      <3>7. \A g \in DOMAIN d \ torn : Whole(d[g])
        BY <2>4, <3>6 DEF Sound
      <3> QED
        BY <2>1, <2>4, <3>7
    <2> QED
      BY <2>6, <2>7
  <1> QED
    BY <1>1, <1>2

(* An unopened log with nothing in its buffer, for any file                *)
LEMMA UnopenedFits ==
  ASSUME AttrsOK, NEW x, Good(x), ~x.log.open, x.log.data = <<>>,
         \A f \in DOMAIN x.disk \ torn : Whole(x.disk[f]),
         x.log.file \notin torn => Started(Fore(x))
  PROVE  Sound(x)
  <1>1. TypesOK /\ Clean(<<>>) /\ \A s : Precedes(s, <<>>)
    BY AttrsTyped, NothingWhole
  <1> QED
    BY <1>1 DEF Sound

LEMMA OpenUnlessLazyFits ==
  ASSUME AttrsOK, NEW x, Good(x), ~x.log.open, x.log.data = <<>>, Sound(x),
         NEW y, y = OpenUnlessLazy(x)
  PROVE  /\ Sound(y) /\ Over(y, {}) /\ NothingNew(x, y)
         /\ y.log.file = x.log.file /\ Fore(y) = Fore(x)
         /\ DOMAIN y.disk \subseteq DOMAIN x.disk \cup {x.log.file}
  <1>1. CASE attrs.lazy
    BY <1>1 DEF OpenUnlessLazy, Over, NothingNew
  <1>2. CASE ~attrs.lazy
    <2>1. y = Open(x)
      BY <1>2 DEF OpenUnlessLazy
    <2>2. /\ y.log.file = x.log.file /\ y.log.data = x.log.data
          /\ \A k : Held(y.disk, k) => Held(x.disk, k)
      BY <2>1, OpenKeeps
    <2>3. /\ Sound(y) /\ Over(y, {}) /\ Fore(y) = Fore(x)
          /\ DOMAIN y.disk = DOMAIN x.disk \cup {x.log.file}
      BY <2>1, OpenFits
    <2> QED
      BY <2>2, <2>3 DEF NothingNew
  <1> QED
    BY <1>1, <1>2

LEMMA ChangeFits ==
  ASSUME AttrsOK, NEW x, Good(x), x.log.open \/ attrs.lazy, Sound(x), Over(x, {}),
         x.log.file.at # now, \A f \in DOMAIN x.disk : f.at # now,
         NEW y, y = Change(x)
  PROVE  /\ Sound(y) /\ Over(y, {}) /\ NothingNew(x, y) /\ Fore(y) = <<>>
         /\ y.log.file.at = now
         /\ DOMAIN y.disk \subseteq DOMAIN x.disk \cup {x.log.file, y.log.file}
  <1> DEFINE F == Flush(x, {})
             C == Close(F)
             g == ExpandFilenames(C.disk, now)
             z == [C EXCEPT !.log.file = g]
  <1>0. {} # Rewrite
    BY EmptyTyped
  <1>1. Good(F) /\ F.log.file = x.log.file /\ F.log.data = <<>>
    BY <1>0, FlushKeeps
  <1>2. /\ Sound(F) /\ Over(F, {}) /\ Begun(F) /\ NothingNew(x, F)
        /\ DOMAIN F.disk \subseteq DOMAIN x.disk \cup {x.log.file}
    BY FlushFits
  <1> HIDE DEF F
  <1>3. /\ Good(C) /\ ~C.log.open /\ C.log.data = <<>>
        /\ \A k : Held(C.disk, k) => Held(F.disk, k)
    BY <1>1, CloseKeeps
  <1>4. /\ \A f \in DOMAIN C.disk \ torn : Whole(C.disk[f])
        /\ DOMAIN C.disk = DOMAIN F.disk
    BY <1>1, <1>2, CloseFits
  <1>5. y = OpenUnlessLazy(z)
    BY DEF Change, F
  <1> HIDE DEF C
  <1>6. g.at = now
    BY DEF ExpandFilenames
  <1>7. g \notin DOMAIN C.disk
    BY <1>2, <1>4, <1>6
  <1> HIDE DEF g
  <1>8. /\ z.disk = C.disk /\ Good(z) /\ ~z.log.open /\ z.log.file = g /\ z.log.data = <<>>
    <2> DEFINE m == [C.log EXCEPT !.file = g]
    <2>1. z = [disk |-> C.disk, log |-> m]
      BY <1>3 DEF Good
    <2> HIDE DEF z
    <2>2. m \in [file : {g}, open : BOOLEAN, pos : Nat, empty : BOOLEAN, data : Seq(Cell)]
      BY <1>3 DEF Good
    <2>3. m.file = g /\ m.open = C.log.open /\ m.data = C.log.data
      BY <1>3 DEF Good
    <2> QED
      BY <1>3, <2>1, <2>2, <2>3 DEF Good
  <1> HIDE DEF z
  <1>11. Fore(z) = <<>>
    BY <1>7, <1>8 DEF Fore
  <1>9. Sound(z)
    BY <1>4, <1>8, <1>11, UnopenedFits, AttrsTyped, NothingWhole
  <1>10. /\ Sound(y) /\ Over(y, {}) /\ NothingNew(z, y)
         /\ y.log.file = z.log.file /\ Fore(y) = Fore(z)
         /\ DOMAIN y.disk \subseteq DOMAIN z.disk \cup {z.log.file}
    BY <1>5, <1>8, <1>9, OpenUnlessLazyFits
  <1>12. NothingNew(x, y)
    BY <1>2, <1>3, <1>8, <1>10, NothingHeld DEF NothingNew
  <1> QED
    BY <1>2, <1>4, <1>6, <1>8, <1>10, <1>11, <1>12

LEMMA NewLogFits ==
  ASSUME AttrsOK, NEW d, Files(d),
         \A f \in DOMAIN d \ torn : Whole(d[f]) /\ Started(d[f]),
         NEW y, y = NewLog(d)
  PROVE  /\ Sound(y) /\ Over(y, {})
         /\ \A k : Held(y.disk, k) => Held(d, k)
         /\ y.log.file.at = now
         /\ DOMAIN y.disk \subseteq DOMAIN d \cup {y.log.file}
  <1> DEFINE g == ExpandFilenames(d, now)
             l == [file |-> g, open |-> FALSE, pos |-> 0, empty |-> FALSE, data |-> <<>>]
             z == [disk |-> d, log |-> l]
  <1>1. y = OpenUnlessLazy(z)
    BY DEF NewLog
  <1>2. g.at = now
    BY DEF ExpandFilenames
  <1> HIDE DEF g
  <1>3. Good(z) /\ ~z.log.open /\ z.log.data = <<>> /\ z.disk = d /\ z.log.file = g
    <2>1. l \in [file : {g}, open : BOOLEAN, pos : Nat, empty : BOOLEAN, data : Seq(Cell)]
      BY EmptyTyped
    <2> QED
      BY <2>1 DEF Good
  <1> HIDE DEF z
  <1>7. z.log.file \notin torn => Started(Fore(z))
    BY <1>3, AttrsTyped, NothingWhole DEF Fore
  <1>4. Sound(z)
    BY <1>3, <1>7, UnopenedFits
  <1>5. /\ Sound(y) /\ Over(y, {}) /\ NothingNew(z, y) /\ y.log.file = z.log.file
        /\ DOMAIN y.disk \subseteq DOMAIN z.disk \cup {z.log.file}
    BY <1>1, <1>3, <1>4, OpenUnlessLazyFits
  <1>6. \A k : Held(y.disk, k) => Held(d, k)
    BY <1>3, <1>5, NothingHeld DEF NothingNew
  <1> QED
    BY <1>2, <1>3, <1>5, <1>6

-----------------------------------------------------------------------------
(* The steps                                                               *)
LEMMA SameAttrs ==
  ASSUME attrs' = attrs, kills' = kills
  PROVE  /\ \A s : Whole(s)' <=> Whole(s)
         /\ \A s : Started(s)' <=> Started(s)
         /\ \A s : Clean(s)' <=> Clean(s)
         /\ \A s, t : Precedes(s, t)' <=> Precedes(s, t)
         /\ \A l : Out(l)' = Out(l)
         /\ Trailer' = Trailer
  <1>1. \A a, b : Follows(a, b)' <=> Follows(a, b)
    BY DEF Follows
  <1>2. \A s : InOrder(s)' <=> InOrder(s)
    BY DEF InOrder
  <1>3. \A s : AllRecords(s)' <=> AllRecords(s)
    BY DEF AllRecords, IsRecord
  <1>4. \A s : IsGpx(s)' <=> IsGpx(s)
    BY DEF IsGpx, HeaderCell, Last
  <1>5. \A s : IsBinfile(s)' <=> IsBinfile(s)
    BY DEF IsBinfile, IsRecord, IsLength
  <1>6. \A s : IsGpxFront(s)' <=> IsGpxFront(s)
    BY DEF IsGpxFront, HeaderCell, T1, T2, Trailers
  <1>13. \A s : IsTextfile(s)' <=> IsTextfile(s)
    BY DEF IsTextfile, HeaderCell, IsRecord
  <1>7. \A s : Item(s)' <=> Item(s)
    BY DEF Item, IsRecord, Length
  <1>8. \A s : Whole(s)' <=> Whole(s)
    BY <1>2, <1>4, <1>5, <1>13 DEF Whole, IsRecord
  <1>9. \A s : Started(s)' <=> Started(s)
    BY <1>2, <1>3, <1>5, <1>6, <1>13 DEF Started
  <1>10. \A s : Clean(s)' <=> Clean(s)
    BY <1>2, <1>3, <1>7 DEF Clean
  <1>11. \A s, t : Precedes(s, t)' <=> Precedes(s, t)
    BY <1>1 DEF Precedes, IsRecord
  <1>12. (\A l : Out(l)' = Out(l)) /\ Trailer' = Trailer
    BY DEF Out, Header, HeaderCell, Trailer
  <1> QED
    BY <1>8, <1>9, <1>10, <1>11, <1>12

LEMMA SoundThere ==
  ASSUME attrs' = attrs, kills' = kills, torn' = torn, NEW x, Here' = x, NEW flags,
         Sound(x), Over(x, flags)
  PROVE  Sound(Here)' /\ (\A g : g = flags => Over(Here, g)') /\ Fore(Here)' = Fore(x)
  <1>1. Fore(Here)' = Fore(x)
    BY DEF Fore, UpTo
  <1>2. \A f \in DOMAIN x.disk \ torn : Whole(x.disk[f])'
    BY SameAttrs DEF Sound
  <1>3. Sound(Here)'
    BY <1>1, SameAttrs DEF Sound, Headed
  <1>4. \A g : g = flags => Over(Here, g)'
    BY SameAttrs DEF Over
  <1> QED
    BY <1>1, <1>3, <1>4

LEMMA SortedThere ==
  ASSUME attrs' = attrs, kills' = kills, torn' = torn, NEW x, Here' = x, NEW flags, Sound(x), Over(x, flags),
         flags = (IF pc' = "flush" THEN pending'.flags ELSE {}), pc' # "dead"
  PROVE  Sorted'
  <1>1. Sound(Here)' /\ \A g : g = flags => Over(Here, g)'
    BY SoundThere
  <1>2. Over(Here, IF pc = "flush" THEN pending.flags ELSE {})'
    BY <1>1
  <1>3. (\A f \in DOMAIN disk \ torn : Whole(disk[f]))'
    <2>1. disk' = x.disk
      BY DEF Here
    <2>2. \A f \in DOMAIN x.disk \ torn : Whole(x.disk[f])'
      BY SameAttrs DEF Sound
    <2> QED
      BY <2>1, <2>2
  <1> QED
    BY <1>1, <1>2, <1>3 DEF Sorted

LEMMA ForeHeld ==
  ASSUME NEW x, Good(x), NEW k, Holds(Fore(x), k)
  PROVE  Held(x.disk, k)
  <1>1. CASE x.log.open
    <2> DEFINE s == x.disk[x.log.file]
               p == x.log.pos
    <2>1. s \in Seq(Cell) /\ p \in Nat /\ p <= Len(s) /\ x.log.file \in DOMAIN x.disk
      BY <1>1 DEF Good, Files
    <2>2. Fore(x) = UpTo(s, p)
      BY <1>1 DEF Fore
    <2> HIDE DEF s, p
    <2>3. /\ DOMAIN UpTo(s, p) = 1..p /\ DOMAIN s = 1..Len(s)
          /\ \A i \in 1..p : UpTo(s, p)[i] = s[i] /\ i \in 1..Len(s)
      <3>1. DOMAIN UpTo(s, p) = 1..p /\ \A i \in 1..p : UpTo(s, p)[i] = s[i]
        BY <2>1, FrontCells
      <3>2. \A i \in 1..p : i \in 1..Len(s)
        BY <2>1
      <3> QED
        BY <2>1, <3>1, <3>2, Cells
    <2>4. Holds(s, k)
      BY <2>2, <2>3 DEF Holds
    <2> QED
      BY <2>1, <2>4 DEF Held, s
  <1>2. CASE ~x.log.open
    BY <1>2, NothingHeld DEF Fore, Held
  <1> QED
    BY <1>1, <1>2

(* What a state with these invariants gives for its log                    *)
LEMMA Running0 ==
  ASSUME IInv, FInv
  PROVE  /\ AttrsOK /\ TypesOK /\ Here.log = log /\ Here.disk = disk /\ count \in Nat
         /\ pc # "dead" => Good(Here) /\ (log.open \/ attrs.lazy)
         /\ pc # "dead" => log.data \in Seq(Cell) /\ log.empty \in BOOLEAN
         /\ pending.cells \in Seq(Cell)
         /\ pc # "dead" => Sound(Here) /\ Clean(log.data)
         /\ pc \in {"idle", "write", "again"} => Over(Here, {})
  <1>1. AttrsOK /\ Here.log = log /\ Here.disk = disk /\ count \in Nat
    BY DEF IInv, Typed, Here
  <1>2. pc # "dead" => Good(Here) /\ (log.open \/ attrs.lazy)
    BY DEF IInv, Running
  <1>3. pc # "dead" => log.data \in Seq(Cell) /\ log.empty \in BOOLEAN
    BY <1>1, <1>2 DEF Good
  <1>4. pending.cells \in Seq(Cell)
    BY DEF IInv, Typed
  <1>5. pc # "dead" => Sound(Here) /\ Clean(log.data)
    BY <1>1 DEF FInv, Sorted, Sound
  <1>6. pc \in {"idle", "write", "again"} => Over(Here, {})
    BY DEF FInv, Sorted
  <1> QED
    BY <1>1, <1>2, <1>3, <1>4, <1>5, <1>6, AttrsTyped

LEMMA InitFInv == Init => FInv
  <1> SUFFICES ASSUME Init
               PROVE  FInv
    OBVIOUS
  <1>1. IInv /\ pc = "idle" /\ pending.cells = <<>> /\ now = 0 /\ count = 0
    BY InitIInv DEF Init
  <1> DEFINE x == NewLog(<<>>)
  <1>2. AttrsOK /\ disk = x.disk /\ log = x.log /\ Good(Here)
    BY <1>1 DEF Init, IInv, Typed, Running
  <1>3. Files(<<>>) /\ DOMAIN <<>> = {}
    BY DEF Files
  <1>4. /\ Sound(x) /\ Over(x, {}) /\ x.log.file.at = now
        /\ \A k : Held(x.disk, k) => Held(<<>>, k)
        /\ DOMAIN x.disk \subseteq {x.log.file}
    BY <1>2, <1>3, NewLogFits
  <1>5. Good(x) /\ x.log.data = <<>>
    BY <1>2, <1>3, NewLogKeeps
  <1> HIDE DEF x
  <1>6. Here = x
    BY <1>2, <1>5 DEF Here, Good
  <1>7. \A k : ~Held(<<>>, k)
    BY <1>3 DEF Held
  <1>8. Numbered
    BY <1>1, <1>2, <1>4, <1>5, <1>7, NothingHeld DEF Numbered
  <1>9. Dated
    BY <1>1, <1>2, <1>4 DEF Dated
  <1>10. Sorted
    BY <1>1, <1>2, <1>4, <1>6 DEF Sorted, Sound
  <1>11. Fitting
    BY <1>1 DEF Fitting
  <1> QED
    BY <1>8, <1>9, <1>10, <1>11 DEF FInv

(* A new record comes behind all                                           *)
LEMMA NewRecord ==
  ASSUME NEW n \in Nat, NEW s, \A k : Holds(s, k) => k \in Nat /\ k <= n
  PROVE  Precedes(s, <<Record(n + 1)>>)
  <1>1. \A i \in DOMAIN s : IsRecord(s[i]) => s[i][2] \in Nat /\ s[i][2] <= n
    BY DEF Holds
  <1>3. \A k \in Nat : k <= n => k < n + 1
    OBVIOUS
  <1>2. Record(n + 1)[2] = n + 1
    BY RecordCell
  <1>4. \A i \in DOMAIN s : IsRecord(s[i]) => s[i][2] < n + 1
    BY <1>1, <1>3
  <1>5. DOMAIN <<Record(n + 1)>> = {1} /\ <<Record(n + 1)>>[1] = Record(n + 1)
    OBVIOUS
  <1> QED
    BY <1>2, <1>4, <1>5 DEF Precedes, Follows

LEMMA OneRecord ==
  ASSUME NEW k \in Nat
  PROVE  /\ InOrder(<<Record(k)>>) /\ AllRecords(<<Record(k)>>)
         /\ \A j : Holds(<<Record(k)>>, j) => j = k
  <1> DEFINE s == <<Record(k)>>
  <1>1. DOMAIN s = {1} /\ s[1] = Record(k)
    OBVIOUS
  <1> HIDE DEF s
  <1>2. InOrder(s) /\ AllRecords(s) /\ \A j : Holds(s, j) => j = k
    BY <1>1, RecordCell DEF InOrder, AllRecords, Holds
  <1> QED
    BY <1>2 DEF s

LEMMA LogLineFInv == IInv /\ FInv /\ LogLine => FInv'
  <1> SUFFICES ASSUME IInv, FInv, LogLine
               PROVE  FInv'
    OBVIOUS
  <1>1. /\ pc = "idle" /\ pc' = "write" /\ attrs.type # "binfile" /\ count' = count + 1
        /\ pending' = [cells |-> <<Record(count + 1)>>, flags |-> {}]
        /\ UNCHANGED <<attrs, kills, now, disk, log, torn>>
    BY DEF LogLine
  <1>2. /\ Here.log = log /\ Here.disk = disk /\ count \in Nat /\ Good(Here)
        /\ Sound(Here) /\ Over(Here, {})
    BY <1>1, Running0
  <1>3. Here' = Here
    BY <1>1 DEF Here
  <1> DEFINE r == <<Record(count + 1)>>
             h == Here
  <1>4. /\ InOrder(r) /\ AllRecords(r) /\ \A j : Holds(r, j) => j = count + 1
    BY <1>2, OneRecord
  <1>5. \A k : Held(disk, k) \/ Holds(log.data, k) => k \in Nat /\ k <= count
    BY DEF FInv, Numbered
  <1>6. Precedes(Fore(h), r)
    <2>1. \A k : Holds(Fore(h), k) => k \in Nat /\ k <= count
      BY <1>2, <1>5, ForeHeld
    <2> QED
      BY <1>2, <2>1, NewRecord
  <1>7. Precedes(log.data, r)
    BY <1>2, <1>5, NewRecord
  <1> HIDE DEF r, h
  <1>8. Numbered'
    <2>1. \A k : Holds(r, k) => k \in Nat /\ k <= count + 1
      BY <1>2, <1>4
    <2>2. \A k : k \in Nat /\ k <= count => k <= count + 1
      BY <1>2
    <2>3. pending'.cells = r /\ \A k : Held(disk', k) = Held(disk, k)
      BY <1>1 DEF r
    <2> SUFFICES ASSUME NEW k, Held(disk, k) \/ Holds(log.data, k) \/ Holds(r, k)
                 PROVE  k \in Nat /\ k <= count + 1
      BY <1>1, <2>3 DEF Numbered, Held, Holds, IsRecord
    <2> QED
      BY <1>5, <2>1, <2>2
  <1>9. Dated'
    BY <1>1 DEF FInv, Dated
  <1>10. Sorted'
    BY <1>1, <1>2, <1>3, SortedThere
  <1>11. Fitting'
    <2>1. Fore(Here)' = Fore(h)
      BY <1>1, <1>2, <1>3, SoundThere DEF h
    <2>2. pending'.cells = r
      BY <1>1 DEF r
    <2>3. Clean(r)
      BY <1>1, <1>4 DEF Clean
    <2> QED
      BY <1>1, <1>6, <1>7, <2>1, <2>2, <2>3, SameAttrs DEF Fitting
  <1> QED
    BY <1>8, <1>9, <1>10, <1>11 DEF FInv

(* A round of vehicle_log_binfile: the item grows, or is simplified        *)
LEMMA PointFits ==
  ASSUME IInv, FInv, attrs.type = "binfile", pc \in {"idle", "again"}, NEW k \in Nat,
         count <= k, AddPoint(k)
  PROVE  /\ pc' = "write"
         /\ Clean(pending'.cells)
         /\ log.file \notin torn => Precedes(Fore(Here), pending'.cells)
         /\ pending'.flags = Rewrite => Len(log.data) <= Len(pending'.cells)
         /\ \A j : Holds(pending'.cells, j) => Holds(log.data, j) \/ j = k
  <1> DEFINE item == Longer(k)
             h == Here
  <1>1. /\ log.data \in Seq(Cell) /\ Clean(log.data) /\ Good(h) /\ count \in Nat
        /\ Here.log = log /\ Here.disk = disk /\ Sound(h)
    BY Running0
  <1>2. \A j : Held(disk, j) \/ Holds(log.data, j) => j \in Nat /\ j <= k
    <2>1. \A j : Held(disk, j) \/ Holds(log.data, j) => j \in Nat /\ j <= count
      BY DEF FInv, Numbered
    <2>2. \A j \in Nat : j <= count => j <= k
      BY <1>1
    <2> QED
      BY <2>1, <2>2
  <1>3. /\ item \in Seq(Cell) /\ Item(item) /\ InOrder(item)
        /\ Len(log.data) <= Len(item)
        /\ \A j : Holds(item, j) => Holds(log.data, j) \/ j = k
    BY <1>1, <1>2, LongerFits
  <1> HIDE DEF item, h
  <1>4. ASSUME NEW s, Item(s), InOrder(s), \A j : Holds(s, j) => Holds(item, j)
        PROVE  Clean(s) /\ (log.file \notin torn => Precedes(Fore(h), s))
    <2>1. Clean(s)
      BY <1>4 DEF Clean
    <2>2. ASSUME log.file \notin torn, NEW i \in DOMAIN Fore(h), NEW j \in DOMAIN s,
                 IsRecord(Fore(h)[i]), IsRecord(s[j])
          PROVE  Follows(Fore(h)[i][2], s[j][2])
      <3>1. Holds(s, s[j][2]) /\ Holds(Fore(h), Fore(h)[i][2])
        BY <2>2 DEF Holds
      <3>2. Holds(log.data, s[j][2]) \/ s[j][2] = k
        BY <1>3, <1>4, <3>1
      <3>3. CASE Holds(log.data, s[j][2])
        <4>1. Precedes(Fore(h), log.data)
          BY <1>1, <2>2 DEF Sound, h
        <4>2. PICK m \in DOMAIN log.data : IsRecord(log.data[m]) /\ log.data[m][2] = s[j][2]
          BY <3>3 DEF Holds
        <4> QED
          BY <2>2, <4>1, <4>2 DEF Precedes
      <3>4. CASE s[j][2] = k
        <4>1. Held(disk, Fore(h)[i][2])
          BY <1>1, <3>1, ForeHeld DEF h
        <4>2. Fore(h)[i][2] \in Nat /\ Fore(h)[i][2] <= k
          BY <1>2, <4>1
        <4>3. \A n \in Nat : n <= k => n < k \/ n = k
          OBVIOUS
        <4> QED
          BY <3>4, <4>2, <4>3 DEF Follows
      <3> QED
        BY <3>2, <3>3, <3>4
    <2> QED
      BY <2>1, <2>2 DEF Precedes
  <1>5. pc' = "write"
    BY DEF AddPoint
  <1>6. CASE item[1][2] > limit
    <2>1. PICK s \in Simplified(item) : pending' = [cells |-> s, flags |-> Replace]
      BY <1>6 DEF AddPoint, Replace, item
    <2>2. /\ s \in Seq(Cell) /\ Item(s) /\ InOrder(s)
          /\ \A j : Holds(s, j) => Holds(item, j)
      BY <1>3, SimplifiedFits
    <2>3. Clean(s) /\ (log.file \notin torn => Precedes(Fore(h), s))
      BY <1>4, <2>2
    <2>4. Replace # Rewrite
      BY DEF Replace, Rewrite
    <2> QED
      BY <1>3, <1>5, <2>1, <2>2, <2>3, <2>4 DEF h
  <1>7. CASE ~(item[1][2] > limit)
    <2>1. pending' = [cells |-> item, flags |-> Rewrite]
      BY <1>7 DEF AddPoint, Rewrite, item
    <2>2. Clean(item) /\ (log.file \notin torn => Precedes(Fore(h), item))
      BY <1>3, <1>4
    <2> QED
      BY <1>3, <1>5, <2>1, <2>2 DEF h
  <1> QED
    BY <1>6, <1>7

LEMMA PointFInv ==
  ASSUME IInv, FInv, pc \in {"idle", "again"}, attrs.type = "binfile",
         count' \in {count, count + 1}, AddPoint(count'),
         UNCHANGED <<attrs, kills, now, disk, log, torn>>
  PROVE  FInv'
  <1>1. /\ count \in Nat /\ Here.log = log /\ Here.disk = disk /\ Good(Here)
        /\ Sound(Here) /\ Over(Here, {})
    BY Running0
  <1>2. PICK k \in Nat : k = count' /\ count <= k
    BY <1>1
  <1>3. /\ pc' = "write"
        /\ Clean(pending'.cells)
        /\ log.file \notin torn => Precedes(Fore(Here), pending'.cells)
        /\ pending'.flags = Rewrite => Len(log.data) <= Len(pending'.cells)
        /\ \A j : Holds(pending'.cells, j) => Holds(log.data, j) \/ j = k
    BY <1>2, PointFits
  <1>4. Here' = Here
    BY DEF Here
  <1>5. Numbered'
    <2>1. \A j : Held(disk, j) \/ Holds(log.data, j) => j \in Nat /\ j <= count
      BY DEF FInv, Numbered
    <2>2. \A j \in Nat : j <= count => j <= k
      BY <1>1, <1>2
    <2>3. k <= k
      BY <1>2
    <2> SUFFICES ASSUME NEW j, \/ Held(disk, j) \/ Holds(log.data, j)
                               \/ Holds(pending'.cells, j)
                 PROVE  j \in Nat /\ j <= k
      BY <1>2 DEF Numbered, Held, Holds, IsRecord
    <2> QED
      BY <1>2, <1>3, <2>1, <2>2, <2>3
  <1>6. Dated'
    BY <1>3 DEF FInv, Dated
  <1>7. Sorted'
    BY <1>1, <1>3, <1>4, SortedThere
  <1>8. Fitting'
    <2> DEFINE h == Here
    <2>1. Fore(Here)' = Fore(h)
      BY <1>1, <1>4, SoundThere
    <2>2. log.file \notin torn => Precedes(Fore(h), pending'.cells)
      BY <1>3
    <2> HIDE DEF h
    <2> QED
      BY <1>3, <2>1, <2>2, SameAttrs DEF Fitting
  <1> QED
    BY <1>5, <1>6, <1>7, <1>8 DEF FInv

LEMMA WriteChangeFInv == IInv /\ FInv /\ WriteChange => FInv'
  <1> SUFFICES ASSUME IInv, FInv, WriteChange
               PROVE  FInv'
    OBVIOUS
  <1> DEFINE x == Change(Here)
  <1>1. /\ pc = "write" /\ pc' = "write" /\ log.file.at # now /\ Become(x)
        /\ UNCHANGED <<attrs, kills, now, pending, count, torn>>
    BY DEF WriteChange, ChangeRequired
  <1>2. /\ AttrsOK /\ TypesOK /\ Here.log = log /\ Here.disk = disk /\ count \in Nat
        /\ Good(Here) /\ (log.open \/ attrs.lazy) /\ Sound(Here) /\ Over(Here, {})
        /\ pending.cells \in Seq(Cell)
    BY <1>1, Running0
  <1>3. /\ log.file.at \in Nat /\ log.file.at <= now /\ now \in Nat
        /\ \A f \in DOMAIN disk : f.at \in Nat /\ f.at <= now /\ f.at <= log.file.at
    BY <1>1 DEF FInv, Dated
  <1>4. \A f \in DOMAIN disk : f.at # now
    <2>1. \A a \in Nat : a <= log.file.at => a # now
      BY <1>1, <1>3
    <2> QED
      BY <1>3, <2>1
  <1>5. Good(x) /\ x.log.data = <<>>
    BY <1>1, <1>2, ChangeKeeps
  <1>6. /\ Sound(x) /\ Over(x, {}) /\ NothingNew(Here, x) /\ Fore(x) = <<>>
        /\ x.log.file.at = now
        /\ DOMAIN x.disk \subseteq DOMAIN disk \cup {log.file, x.log.file}
    BY <1>1, <1>2, <1>4, ChangeFits
  <1> HIDE DEF x
  <1>7. Here' = x /\ disk' = x.disk /\ log' = x.log
    BY <1>1, <1>5 DEF Here, Become, Good
  <1>8. Numbered'
    <2>1. \A k : Held(x.disk, k) \/ Holds(x.log.data, k) => Held(disk, k) \/ Holds(log.data, k)
      BY <1>2, <1>6 DEF NothingNew
    <2> SUFFICES ASSUME NEW k, \/ Held(x.disk, k) \/ Holds(x.log.data, k)
                               \/ Holds(pending.cells, k)
                 PROVE  k \in Nat /\ k <= count
      BY <1>1, <1>7 DEF Numbered, Held, Holds, IsRecord
    <2> QED
      BY <2>1 DEF FInv, Numbered
  <1>9. Dated'
    <2>1. \A f \in DOMAIN x.disk : f.at \in Nat /\ f.at <= now
      BY <1>3, <1>6
    <2>2. now <= now
      BY <1>3
    <2> QED
      BY <1>1, <1>3, <1>6, <1>7, <2>1, <2>2 DEF Dated
  <1>10. Sorted'
    BY <1>1, <1>6, <1>7, SortedThere
  <1>11. Fitting'
    <2>1. Fore(Here)' = <<>>
      BY <1>1, <1>6, <1>7, SoundThere
    <2>2. Clean(pending.cells)
      BY <1>1 DEF FInv, Fitting
    <2>3. /\ Precedes(<<>>, pending.cells)
          /\ Len(<<>>) <= Len(pending.cells)
      <3>1. Len(pending.cells) \in Nat
        BY <1>2
      <3> QED
        BY <1>2, <3>1, NothingWhole
    <2> QED
      BY <1>1, <1>5, <1>7, <2>1, <2>2, <2>3, SameAttrs DEF Fitting
  <1> QED
    BY <1>8, <1>9, <1>10, <1>11 DEF FInv

LEMMA OutLonger ==
  ASSUME NEW l, l.data \in Seq(Cell), l.empty \in BOOLEAN,
         NEW m, m.data \in Seq(Cell), m.empty = l.empty, Len(l.data) <= Len(m.data)
  PROVE  Len(Out(l)) \in Nat /\ Len(Out(m)) \in Nat /\ Len(Out(l)) <= Len(Out(m))
  <1> DEFINE h == IF l.empty THEN Header ELSE <<>>
  <1>1. h \in Seq(Cell)
    BY HeadAndTail, EmptyTyped
  <1>2. Joined(Out(l), h, l.data) /\ Joined(Out(m), h, m.data)
    BY OutJoined
  <1> HIDE DEF h
  <1>3. Len(Out(l)) = Len(h) + Len(l.data)
    BY <1>1, <1>2, Concat
  <1>4. Len(Out(m)) = Len(h) + Len(m.data)
    BY <1>1, <1>2, Concat
  <1>5. Len(h) \in Nat /\ Len(l.data) \in Nat /\ Len(m.data) \in Nat
    BY <1>1
  <1> QED
    BY <1>3, <1>4, <1>5

LEMMA RecordsConcat ==
  ASSUME NEW s \in Seq(Cell), NEW t \in Seq(Cell), NEW q, Joined(q, s, t),
         AllRecords(s), AllRecords(t)
  PROVE  q \in Seq(Cell) /\ AllRecords(q) /\ Len(s) <= Len(q)
  <1>1. /\ q \in Seq(Cell) /\ Len(q) = Len(s) + Len(t)
        /\ Len(s) \in Nat /\ Len(t) \in Nat
        /\ DOMAIN s = 1..Len(s) /\ DOMAIN t = 1..Len(t) /\ DOMAIN q = 1..Len(q)
        /\ \A i \in 1..Len(s) : q[i] = s[i]
        /\ \A i \in 1..Len(t) : q[Len(s) + i] = t[i]
        /\ \A i \in 1..Len(q) : i \in 1..Len(s) \/ \E j \in 1..Len(t) : i = Len(s) + j
    BY Concat
  <1>2. (\A j \in 1..Len(t) : IsRecord(t[j])) /\ \A j \in 1..Len(s) : IsRecord(s[j])
    BY <1>1 DEF AllRecords
  <1>3. \A j \in 1..Len(t) : IsRecord(q[Len(s) + j])
    BY <1>1, <1>2
  <1>4. \A j \in 1..Len(s) : IsRecord(q[j])
    BY <1>1, <1>2
  <1>5. AllRecords(q)
    BY <1>1, <1>3, <1>4 DEF AllRecords
  <1>6. Len(s) <= Len(q)
    BY <1>1
  <1> QED
    BY <1>1, <1>5, <1>6

LEMMA WriteBufferFInv == IInv /\ FInv /\ WriteBuffer => FInv'
  <1> SUFFICES ASSUME IInv, FInv, WriteBuffer
               PROVE  FInv'
    OBVIOUS
  <1> DEFINE old == IF "replace_buffer" \in pending.flags THEN <<>> ELSE log.data
             data == old \o pending.cells
             x == [disk |-> disk, log |-> [log EXCEPT !.data = data]]
             flags == IF pc' = "flush" THEN pending.flags ELSE {}
  <1>1. /\ pc = "write" /\ pc' \in {"flush", "idle"}
        /\ "force_flush" \in pending.flags => pc' = "flush"
        /\ log' = [log EXCEPT !.data = data]
        /\ pending' = [pending EXCEPT !.cells = <<>>]
        /\ UNCHANGED <<attrs, kills, now, disk, count, torn>>
    BY DEF WriteBuffer
  <1>2. /\ AttrsOK /\ TypesOK /\ Here.log = log /\ Here.disk = disk
        /\ Good(Here) /\ Sound(Here) /\ Over(Here, {})
        /\ pending.cells \in Seq(Cell) /\ log.data \in Seq(Cell) /\ log.empty \in BOOLEAN
        /\ Clean(log.data)
    BY <1>1, Running0
  <1>3. /\ pending \in [cells : Seq(Cell), flags : {{}, Rewrite, Replace}]
        /\ pending.flags # {} <=> attrs.type = "binfile"
    BY <1>1 DEF IInv, Typed, Collecting
  <1>4. /\ pending.flags \in {{}, Rewrite, Replace}
        /\ attrs.type = "binfile" => /\ "replace_buffer" \in pending.flags
                                     /\ "force_flush" \in pending.flags
        /\ attrs.type # "binfile" => pending.flags = {}
        /\ pending.flags = Replace => "truncate" \in pending.flags
    BY <1>3 DEF Rewrite, Replace
  <1>5. /\ Clean(pending.cells)
        /\ log.file \notin torn => Precedes(Fore(Here), pending.cells)
        /\ attrs.type = "binfile" =>
             (pending.flags = Rewrite => Len(log.data) <= Len(pending.cells))
        /\ attrs.type # "binfile" => Precedes(log.data, pending.cells)
    BY <1>1 DEF FInv, Fitting
  <1>6. log.file \notin torn => Precedes(Fore(Here), log.data)
    BY <1>2 DEF Sound
  <1>7. Fore(Here) \in Seq(Cell)
    BY <1>2, ForeCells
  <1>8. /\ data \in Seq(Cell) /\ Clean(data)
        /\ log.file \notin torn => Precedes(Fore(Here), data)
        /\ \A k : Holds(data, k) => Holds(log.data, k) \/ Holds(pending.cells, k)
        /\ pending.flags # Replace => Len(log.data) <= Len(data)
    <2>1. CASE attrs.type = "binfile"
      <3>1. data = pending.cells
        BY <1>2, <1>4, <2>1, ConcatNothing
      <3> HIDE DEF data
      <3> QED
        BY <1>2, <1>3, <1>4, <1>5, <2>1, <3>1
    <2>2. CASE attrs.type # "binfile"
      <3>1. old = log.data
        BY <1>4, <2>2
      <3>2. Joined(data, log.data, pending.cells)
        BY <3>1 DEF Joined
      <3>3. \A k : Holds(data, k) => Holds(log.data, k) \/ Holds(pending.cells, k)
        BY <1>2, <3>1, HoldsConcat
      <3> HIDE DEF data, old
      <3>4. /\ InOrder(log.data) /\ InOrder(pending.cells)
            /\ AllRecords(log.data) /\ AllRecords(pending.cells)
        BY <1>2, <1>5, <2>2 DEF Clean
      <3>5. InOrder(data)
        BY <1>2, <1>5, <2>2, <3>2, <3>4, OrderConcat
      <3>6. data \in Seq(Cell) /\ AllRecords(data) /\ Len(log.data) <= Len(data)
        BY <1>2, <3>2, <3>4, RecordsConcat
      <3>7. log.file \notin torn => Precedes(Fore(Here), data)
        BY <1>2, <1>5, <1>6, <1>7, <2>2, <3>2, PrecedesBoth
      <3> QED
        BY <2>2, <3>3, <3>5, <3>6, <3>7 DEF Clean
    <2> QED
      BY <2>1, <2>2
  <1> HIDE DEF data
  <1> DEFINE m == [log EXCEPT !.data = data]
  <1>9. /\ m.data = data /\ m.file = log.file /\ m.open = log.open /\ m.pos = log.pos
        /\ m.empty = log.empty
    BY <1>2 DEF Good
  <1>10. x.disk = disk /\ x.log = m
    OBVIOUS
  <1>11. Here' = x /\ disk' = disk /\ log' = m
    BY <1>1 DEF Here
  <1> HIDE DEF m, x
  <1>12. Fore(x) = Fore(Here)
    BY <1>2, <1>9, <1>10 DEF Fore
  <1>13. Sound(x)
    BY <1>2, <1>8, <1>9, <1>10, <1>12 DEF Sound
  <1>14. Over(x, flags)
    <2>1. ASSUME log.open, log.file \notin torn, "truncate" \notin flags
          PROVE  Len(disk[log.file]) <= log.pos + Len(Out(m)) + Len(Trailer)
      <3>1. pending.flags # Replace
        <4>1. CASE attrs.type = "binfile"
          BY <1>1, <1>4, <2>1, <4>1
        <4>2. CASE attrs.type # "binfile"
          BY <1>4, <4>2 DEF Replace
        <4> QED
          BY <4>1, <4>2
      <3>2. Len(log.data) <= Len(data)
        BY <1>8, <3>1
      <3>3. Len(Out(log)) \in Nat /\ Len(Out(m)) \in Nat /\ Len(Out(log)) <= Len(Out(m))
        BY <1>2, <1>8, <1>9, <3>2, OutLonger
      <3>4. Len(disk[log.file]) <= log.pos + Len(Out(log)) + Len(Trailer)
        BY <1>2, <2>1 DEF Over
      <3>5. log.pos \in Nat /\ Len(disk[log.file]) \in Nat /\ Len(Trailer) \in Nat
        BY <1>2, <2>1, HeadAndTail DEF Good, Files
      <3> QED
        BY <3>3, <3>4, <3>5
    <2> QED
      BY <1>9, <1>10, <2>1 DEF Over
  <1>15. Numbered'
    <2> SUFFICES ASSUME NEW k, Held(disk, k) \/ Holds(data, k) \/ Holds(<<>>, k)
                 PROVE  k \in Nat /\ k <= count
      BY <1>1, <1>3, <1>9, <1>11 DEF Numbered, Held, Holds, IsRecord
    <2> QED
      BY <1>8, NothingHeld DEF FInv, Numbered
  <1>16. Dated'
    BY <1>1, <1>9, <1>11 DEF FInv, Dated
  <1>17. Sorted'
    <2>1. flags = IF pc' = "flush" THEN pending'.flags ELSE {}
      BY <1>1, <1>3
    <2> HIDE DEF flags
    <2> QED
      BY <1>1, <1>11, <1>13, <1>14, <2>1, SortedThere
  <1>18. Fitting'
    BY <1>1 DEF Fitting
  <1> QED
    BY <1>15, <1>16, <1>17, <1>18 DEF FInv

(* A flush by a running program, for log_write and log_timer               *)
LEMMA FlushFInv ==
  ASSUME IInv, FInv, pc \in {"idle", "flush"}, pc' \in {"idle", "again"},
         NEW flags, flags = (IF pc = "flush" THEN pending.flags ELSE {}),
         Become(Flush(Here, flags)),
         UNCHANGED <<attrs, kills, now, pending, count, torn>>
  PROVE  FInv'
  <1> DEFINE x == Flush(Here, flags)
  <1>1. /\ AttrsOK /\ Here.log = log /\ Here.disk = disk
        /\ Good(Here) /\ (log.open \/ attrs.lazy) /\ Sound(Here)
    BY Running0
  <1>2. flags \in {{}, Rewrite, Replace} /\ (flags # {} => attrs.type = "binfile")
    BY DEF IInv, Typed, Collecting
  <1>3. Over(Here, flags)
    BY DEF FInv, Sorted
  <1>4. Good(x) /\ x.log.file = log.file
    BY <1>1, <1>2, FlushKeeps
  <1>5. /\ Sound(x) /\ Over(x, {}) /\ NothingNew(Here, x)
        /\ DOMAIN x.disk \subseteq DOMAIN disk \cup {log.file}
    BY <1>1, <1>2, <1>3, FlushFits
  <1>6. Become(x)
    OBVIOUS
  <1> HIDE DEF x
  <1>7. Here' = x /\ disk' = x.disk /\ log' = x.log
    BY <1>4, <1>6 DEF Here, Become, Good
  <1>8. Numbered'
    <2> SUFFICES ASSUME NEW k, \/ Held(x.disk, k) \/ Holds(x.log.data, k)
                               \/ Holds(pending.cells, k)
                 PROVE  k \in Nat /\ k <= count
      BY <1>7 DEF Numbered, Held, Holds, IsRecord
    <2> QED
      BY <1>1, <1>5 DEF FInv, Numbered, NothingNew
  <1>9. Dated'
    <2>1. /\ log.file.at \in Nat /\ log.file.at <= now /\ now \in Nat
          /\ \A f \in DOMAIN disk : f.at \in Nat /\ f.at <= now /\ f.at <= log.file.at
      BY DEF FInv, Dated
    <2>2. log.file.at <= log.file.at
      BY <2>1
    <2> QED
      BY <1>4, <1>5, <1>7, <2>1, <2>2 DEF Dated
  <1>10. Sorted'
    <2>1. {} = IF pc' = "flush" THEN pending'.flags ELSE {}
      OBVIOUS
    <2> QED
      BY <1>5, <1>7, <2>1, SortedThere
  <1>11. Fitting'
    BY DEF Fitting
  <1> QED
    BY <1>8, <1>9, <1>10, <1>11 DEF FInv

LEMMA DestroyFInv == IInv /\ FInv /\ Destroy => FInv'
  <1> SUFFICES ASSUME IInv, FInv, Destroy
               PROVE  FInv'
    OBVIOUS
  <1> DEFINE x == Flush(Here, {})
             y == Close(x)
  <1>1. /\ pc = "idle" /\ pc' = "dead" /\ Become(y)
        /\ kills' = kills + 1
        /\ UNCHANGED <<attrs, now, pending, count, torn>>
    BY DEF Destroy
  <1>2. /\ AttrsOK /\ Here.log = log /\ Here.disk = disk
        /\ Good(Here) /\ (log.open \/ attrs.lazy) /\ Sound(Here) /\ Over(Here, {})
    BY <1>1, Running0
  <1>3. Good(x) /\ x.log.data = <<>> /\ x.log.file = log.file
    <2>1. x.log.data = <<>>
      BY <1>1, FlushHere, EmptyTyped
    <2> QED
      BY <1>2, <2>1, FlushKeeps
  <1>4. /\ Sound(x) /\ Over(x, {}) /\ Begun(x) /\ NothingNew(Here, x)
        /\ DOMAIN x.disk \subseteq DOMAIN disk \cup {log.file}
    BY <1>2, FlushFits
  <1> HIDE DEF x
  <1>5. /\ Good(y) /\ y.log.data = x.log.data
        /\ \A k : Held(y.disk, k) => Held(x.disk, k)
    BY <1>3, CloseKeeps
  <1>6. /\ \A f \in DOMAIN y.disk \ torn : Whole(y.disk[f])
        /\ DOMAIN y.disk = DOMAIN x.disk
    BY <1>2, <1>3, <1>4, CloseFits
  <1> HIDE DEF y
  <1>7. disk' = y.disk /\ log' = y.log
    BY <1>1 DEF Become
  <1>8. Numbered'
    <2> SUFFICES ASSUME NEW k, \/ Held(y.disk, k) \/ Holds(y.log.data, k)
                               \/ Holds(pending.cells, k)
                 PROVE  k \in Nat /\ k <= count
      BY <1>1, <1>7 DEF Numbered, Held, Holds, IsRecord
    <2> QED
      BY <1>2, <1>4, <1>5 DEF FInv, Numbered, NothingNew
  <1>9. Dated'
    <2>1. /\ log.file.at \in Nat /\ log.file.at <= now /\ now \in Nat
          /\ \A f \in DOMAIN disk : f.at \in Nat /\ f.at <= now
      BY <1>1 DEF FInv, Dated
    <2> QED
      BY <1>1, <1>4, <1>6, <1>7, <2>1 DEF Dated
  <1>10. Sorted'
    <2>1. TypesOK /\ \A f \in DOMAIN y.disk : y.disk[f] \in Seq(Cell)
      BY <1>2, <1>5, AttrsTyped DEF Good, Files
    <2>2. \A f \in DOMAIN disk' \ torn' : Whole(disk[f])' /\ Started(disk[f])'
      <3> TAKE f \in DOMAIN disk' \ torn'
      <3>1. PICK s \in Seq(Cell) : s = y.disk[f] /\ Whole(s)
        BY <1>1, <1>6, <1>7, <2>1
      <3>2. Whole(s)' /\ Started(s)'
        BY <1>1, <2>1, <3>1, FileIsFront
      <3>3. s = disk'[f]
        BY <1>7, <3>1
      <3> QED
        BY <3>2, <3>3
    <2> QED
      BY <1>1, <2>2 DEF Sorted
  <1>11. Fitting'
    BY <1>1 DEF Fitting
  <1> QED
    BY <1>8, <1>9, <1>10, <1>11 DEF FInv

(* Killed: what is on the disk is as it was, but for a file that is torn   *)
LEMMA DiesFInv ==
  ASSUME IInv, FInv, NEW d, Die(d), DOMAIN d = DOMAIN disk,
         \A k : Held(d, k) => Held(disk, k) \/ Holds(log.data, k),
         \A f \in DOMAIN d \ torn' : f \notin torn /\ d[f] = disk[f]
  PROVE  FInv'
  <1>1. /\ pc' = "dead" /\ disk' = d /\ kills' = kills + 1
        /\ UNCHANGED <<attrs, now, log, pending, count>>
    BY DEF Die
  <1>2. Numbered'
    <2> SUFFICES ASSUME NEW k, Held(d, k) \/ Holds(log.data, k) \/ Holds(pending.cells, k)
                 PROVE  k \in Nat /\ k <= count
      BY <1>1 DEF Numbered, Held, Holds, IsRecord
    <2> QED
      BY DEF FInv, Numbered
  <1>3. Dated'
    BY <1>1 DEF FInv, Dated
  <1>4. Sorted'
    <2>1. TypesOK /\ \A f \in DOMAIN disk : disk[f] \in Seq(Cell)
      BY Running0 DEF IInv, Typed, Files
    <2>3. \A f \in DOMAIN disk' \ torn' : Whole(disk[f])' /\ Started(disk[f])'
      <3> TAKE f \in DOMAIN disk' \ torn'
      <3>1. PICK s \in Seq(Cell) : s = disk[f] /\ Whole(s)
        BY <1>1, <2>1 DEF FInv, Sorted
      <3>2. Whole(s)' /\ Started(s)'
        BY <1>1, <2>1, <3>1, FileIsFront
      <3>3. s = disk'[f]
        BY <1>1, <3>1
      <3> QED
        BY <3>2, <3>3
    <2> QED
      BY <1>1, <2>3 DEF Sorted
  <1>5. Fitting'
    BY <1>1 DEF Fitting
  <1> QED
    BY <1>2, <1>3, <1>4, <1>5 DEF FInv

LEMMA KillFInv == IInv /\ FInv /\ Kill => FInv'
  BY DiesFInv DEF Kill

LEMMA KillInFlushFInv == IInv /\ FInv /\ KillInFlush => FInv'
  <1> SUFFICES ASSUME IInv, FInv, KillInFlush
               PROVE  FInv'
    OBVIOUS
  <1> DEFINE flags == IF pc = "flush" THEN pending.flags ELSE {}
             f == log.file
             p == log.pos
             all == Out(log) \o Trailer
             end == p + Len(Out(log))
             cut == Cut(flags, disk[f], end)
  <1>1. /\ pc # "dead" /\ log.open /\ torn' = torn \cup {f}
        /\ \/ \E n \in 1..(Len(all) - 1) :
                Die([disk EXCEPT ![f] = WriteAt(cut, p, SubSeq(all, 1, n))])
           \/ Die([disk EXCEPT ![f] = cut])
    BY DEF KillInFlush
  <1>2. /\ Files(disk) /\ f \in DOMAIN disk /\ disk[f] \in Seq(Cell)
        /\ p \in Nat /\ p <= Len(disk[f])
        /\ log.data \in Seq(Cell) /\ log.empty \in BOOLEAN
    BY <1>1 DEF IInv, Running, Good, Files, Here
  <1>3. /\ all \in Seq(Cell) /\ end \in Nat /\ p <= end
        /\ \A k : Holds(all, k) => Holds(log.data, k)
    <2>1. Out(log) \in Seq(Cell) /\ \A k : Holds(Out(log), k) <=> Holds(log.data, k)
      BY <1>2, OutRecords
    <2>2. Len(Out(log)) \in Nat
      BY <2>1
    <2>3. \A k : Holds(all, k) => Holds(log.data, k)
      BY <2>1, HeaderTrailer, HoldsConcat
    <2> QED
      BY <1>2, <2>1, <2>2, <2>3, HeaderTrailer
  <1> HIDE DEF all, end, flags, f, p
  <1>4. /\ cut \in Seq(Cell) /\ p <= Len(cut)
        /\ \A k : Holds(cut, k) => Holds(disk[f], k)
    <2>1. CASE end <= Len(disk[f])
      <3>1. cut \in Seq(Cell) /\ end <= Len(cut)
        BY <1>2, <1>3, <2>1, CutCells
      <3>2. \A k : Holds(cut, k) => Holds(disk[f], k)
        BY <1>2, <1>3, <2>1, CutRecords
      <3>3. Len(cut) \in Nat
        BY <3>1
      <3> QED
        BY <1>2, <1>3, <3>1, <3>2, <3>3
    <2>2. CASE ~(end <= Len(disk[f]))
      <3>1. ~(end < Len(disk[f]))
        <4>1. Len(disk[f]) \in Nat
          BY <1>2
        <4> QED
          BY <1>3, <2>2, <4>1
      <3>2. cut = disk[f]
        BY <3>1 DEF Cut
      <3> QED
        BY <1>2, <3>2
    <2> QED
      BY <2>1, <2>2
  <1> HIDE DEF cut
  <1>5. ASSUME NEW s, Die([disk EXCEPT ![f] = s]),
               \A k : Holds(s, k) => Holds(disk[f], k) \/ Holds(log.data, k)
        PROVE  FInv'
    <2> DEFINE d == [disk EXCEPT ![f] = s]
    <2>1. /\ DOMAIN d = DOMAIN disk /\ d[f] = s
          /\ \A g \in DOMAIN d \ {f} : d[g] = disk[g]
      BY <1>2 DEF Files
    <2>2. Die(d)
      BY <1>5
    <2> HIDE DEF d
    <2>3. \A k : Held(d, k) => Held(disk, k) \/ Holds(log.data, k)
      BY <1>2, <1>5, <2>1 DEF Held
    <2>4. \A g \in DOMAIN d \ torn' : g \notin torn /\ d[g] = disk[g]
      BY <1>1, <2>1
    <2> QED
      BY <2>1, <2>2, <2>3, <2>4, DiesFInv
  <1>6. CASE Die([disk EXCEPT ![f] = cut])
    BY <1>4, <1>5, <1>6
  <1>7. CASE \E n \in 1..(Len(all) - 1) :
               Die([disk EXCEPT ![f] = WriteAt(cut, p, SubSeq(all, 1, n))])
    <2>1. PICK n \in 1..(Len(all) - 1) :
            Die([disk EXCEPT ![f] = WriteAt(cut, p, SubSeq(all, 1, n))])
      BY <1>7
    <2>2. n \in Nat /\ n <= Len(all) /\ Len(all) \in Nat /\ DOMAIN all = 1..Len(all)
      <3>1. Len(all) \in Nat /\ DOMAIN all = 1..Len(all)
        BY <1>3
      <3> QED
        BY <3>1
    <2> DEFINE c == SubSeq(all, 1, n)
    <2>3. c \in Seq(Cell) /\ \A k : Holds(c, k) => Holds(all, k)
      <3>1. c \in Seq(Cell) /\ Len(c) = n /\ \A i \in 1..n : c[i] = all[i]
        BY <1>3, <2>2
      <3>2. DOMAIN c = 1..n
        BY <3>1
      <3> HIDE DEF c
      <3>3. \A i \in 1..n : i \in DOMAIN all
        BY <2>2
      <3> QED
        BY <3>1, <3>2, <3>3 DEF Holds
    <2> HIDE DEF c
    <2>4. \A k : Holds(WriteAt(cut, p, c), k) => Holds(cut, k) \/ Holds(c, k)
      BY <1>2, <1>4, <2>3, WriteAtRecords
    <2>5. Die([disk EXCEPT ![f] = WriteAt(cut, p, c)])
      BY <2>1 DEF c
    <2> QED
      BY <1>3, <1>4, <1>5, <2>3, <2>4, <2>5
  <1> QED
    BY <1>1, <1>6, <1>7 DEF f, p, cut, end, all, flags

LEMMA RestartFInv == IInv /\ FInv /\ Restart => FInv'
  <1> SUFFICES ASSUME IInv, FInv, Restart
               PROVE  FInv'
    OBVIOUS
  <1> DEFINE x == NewLog(disk)
  <1>1. /\ pc = "dead" /\ pc' = "idle" /\ Become(x)
        /\ pending' = [cells |-> <<>>, flags |-> {}]
        /\ UNCHANGED <<attrs, kills, now, count, torn>>
        /\ AttrsOK /\ Files(disk)
    BY DEF Restart, IInv, Typed
  <1>2. Good(x) /\ x.log.data = <<>>
    BY <1>1, NewLogKeeps
  <1>3. /\ Sound(x) /\ Over(x, {}) /\ x.log.file.at = now
        /\ \A k : Held(x.disk, k) => Held(disk, k)
        /\ DOMAIN x.disk \subseteq DOMAIN disk \cup {x.log.file}
    BY <1>1, NewLogFits DEF FInv, Sorted
  <1> HIDE DEF x
  <1>4. Here' = x /\ disk' = x.disk /\ log' = x.log
    BY <1>1, <1>2 DEF Become, Here, Good
  <1>5. Numbered'
    <2> SUFFICES ASSUME NEW k, Held(x.disk, k) \/ Holds(<<>>, k)
                 PROVE  k \in Nat /\ k <= count
      BY <1>1, <1>2, <1>4 DEF Numbered, Held, Holds, IsRecord
    <2> QED
      BY <1>3, NothingHeld DEF FInv, Numbered
  <1>6. Dated'
    <2>1. now \in Nat /\ now <= now /\ \A f \in DOMAIN disk : f.at \in Nat /\ f.at <= now
      BY DEF FInv, Dated
    <2> QED
      BY <1>1, <1>3, <1>4, <2>1 DEF Dated
  <1>7. Sorted'
    BY <1>1, <1>3, <1>4, SortedThere
  <1>8. Fitting'
    BY <1>1 DEF Fitting
  <1> QED
    BY <1>5, <1>6, <1>7, <1>8 DEF FInv

LEMMA ClockFInv ==
  ASSUME IInv, FInv, now' = now \/ now' = now + 1,
         UNCHANGED <<attrs, kills, disk, log, pending, pc, count, torn>>
  PROVE  FInv'
  <1>1. Numbered'
    BY DEF FInv, Numbered, Held, Holds, IsRecord
  <1>2. Dated'
    <2>1. now \in Nat
      BY DEF FInv, Dated
    <2>2. now' \in Nat /\ \A n \in Nat : n <= now => n <= now'
      BY <2>1
    <2> QED
      BY <2>2 DEF FInv, Dated
  <1>3. Here' = Here
    BY DEF Here
  <1>4. Sorted'
    <2>1. CASE pc = "dead"
      BY <2>1, SameAttrs DEF FInv, Sorted
    <2>2. CASE pc # "dead"
      BY <1>3, <2>2, SortedThere DEF FInv, Sorted
    <2> QED
      BY <2>1, <2>2
  <1>5. Fitting'
    <2>1. CASE pc # "write"
      BY <2>1 DEF Fitting
    <2>2. CASE pc = "write"
      <3>1. Fore(Here)' = Fore(Here)
        BY <1>3 DEF Fore, UpTo
      <3> QED
        BY <2>2, <3>1, SameAttrs DEF FInv, Fitting
    <2> QED
      BY <2>1, <2>2
  <1> QED
    BY <1>1, <1>2, <1>4, <1>5 DEF FInv

-----------------------------------------------------------------------------
(* At any time every file that no kill has torn has its records in the     *)
(* order in which they were logged, and what the next flush of log_flush   *)
(* or log_close writes comes behind them and over what ends the file.      *)
THEOREM FilesSorted == Spec => []FInv
  <1>1. IInv /\ FInv /\ [Next]_vars => FInv'
    <2> SUFFICES ASSUME IInv, FInv, [Next]_vars
                 PROVE  FInv'
      OBVIOUS
    <2>1. CASE LogPoint \/ LogPointAgain
      <3>1. /\ pc \in {"idle", "again"} /\ attrs.type = "binfile"
            /\ count' \in {count, count + 1} /\ AddPoint(count')
            /\ UNCHANGED <<attrs, kills, now, disk, log, torn>>
        BY <2>1 DEF LogPoint, LogPointAgain, IInv, Collecting
      <3> QED
        BY <3>1, PointFInv
    <2>2. CASE Tick \/ UNCHANGED vars
      BY <2>2, ClockFInv DEF Tick, vars
    <2>3. CASE WriteFlush
      BY <2>3, FlushFInv DEF WriteFlush
    <2>4. CASE Timer
      BY <2>4, FlushFInv DEF Timer
    <2> QED
      BY <2>1, <2>2, <2>3, <2>4, LogLineFInv, WriteChangeFInv, WriteBufferFInv,
         DestroyFInv, KillFInv, KillInFlushFInv, RestartFInv
      DEF Next
  <1> DEFINE I == IInv
             F == FInv
  <1>2. Spec => []I
    BY RecordsSecure
  <1>3. Init => F
    BY InitFInv
  <1>4. I /\ F /\ [Next]_vars => F'
    BY <1>1
  <1> HIDE DEF I, F
  <1>5. Spec => []F
    BY <1>2, <1>3, <1>4, PTL DEF Spec
  <1> QED
    BY <1>5 DEF F

(* Whatever was flushed, changed for a new name, killed between two        *)
(* flushes, and started again, by log_flush, log_change, log_close and     *)
(* log_new: a file has one header and its records in order, the trailer at *)
(* its end and none in the middle but where a program has ended, or whole  *)
(* binfile items, unless a kill in the middle of a flush tore it.          *)
THEOREM FilesStayWhole == Spec => []FilesAreWhole
  <1>1. FInv => FilesAreWhole
    BY DEF FInv, Sorted, Whole, FilesAreWhole
  <1> QED
    BY <1>1, FilesSorted, PTL

=============================================================================
