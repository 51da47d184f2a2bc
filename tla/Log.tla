-------------------------------- MODULE Log ---------------------------------
(***************************************************************************)
(* The logs of where the vehicle has been (navit/log.c, and the writers of *)
(* navit/vehicle.c).  Records are collected in a buffer and flushed to the *)
(* file behind what is there, and the trailer behind them, where the next  *)
(* flush overwrites it.  A binfile log rewrites its last item in place     *)
(* until that is long enough to be simplified.  The name of the file may   *)
(* follow the clock, and the program may be killed at any step.            *)
(***************************************************************************)
EXTENDS Integers, FiniteSets, SequencesExt, Functions

CONSTANTS
  Types,       \* "gpx", "nmea", "textfile", "binfile"
  limit,       \* points after which an item is simplified
  flush_size,  \* cells the buffer takes without a flush
  MaxRecords, MaxNow, MaxKills  \* bounds of the model

ASSUME LogAssumption ==
  /\ Types \subseteq {"gpx", "nmea", "textfile", "binfile"}
  /\ limit \in Nat \ {0, 1} /\ flush_size \in Nat
  /\ {MaxRecords, MaxNow, MaxKills} \subseteq Nat

VARIABLES
  attrs,    \* the configuration: [type, overwrite, lazy, numbered]
  now,      \* what the clock gives for the name
  disk,     \* file -> its cells
  log,      \* struct log
  pending,  \* the log_write in progress: [cells, flags]
  pc,       \* "idle", "write", "flush", "again", "dead"
  count,    \* records so far; record k is the k-th
  dropped,  \* records that were simplified away or overwritten on purpose
  lost,     \* records that were in the buffer of a killed program only
  torn,     \* files that were being written when the program was killed
  kills     \* how often it was killed, or ended

vars == <<attrs, now, disk, log, pending, pc, count, dropped, lost, torn, kills>>

(* A cell is what one write may put on the disk: the header, one of the    *)
(* two of the trailer, a record, or the length word of a binfile item.     *)
HeaderCell == <<"H", 0>>
Record(k) == <<"R", k>>
Length(n) == <<"L", n>>
IsRecord(cell) == cell[1] = "R"
IsLength(cell) == cell[1] = "L"
RecordsIn(s) == {s[i][2] : i \in {j \in DOMAIN s : IsRecord(s[j])}}
OnDisk(d) == UNION {RecordsIn(d[f]) : f \in DOMAIN d}

(* vehicle_add_log *)
Header == IF attrs.type \in {"gpx", "textfile"} THEN <<HeaderCell>> ELSE <<>>
Trailer == IF attrs.type = "gpx" THEN <<<<"T", 1>>, <<"T", 2>>>> ELSE <<>>

-----------------------------------------------------------------------------
(* Files.  "at" is what the clock gave, "i" the number for %i.             *)
ExpandFilenames(d, t) ==
  [at |-> t,
   i |-> IF attrs.numbered
         THEN Min({i \in 0..Cardinality(DOMAIN d) : [at |-> t, i |-> i] \notin DOMAIN d})
         ELSE 0]

(* s with c written over it from position p on *)
WriteAt(s, p, c) ==
  [i \in 1..Max({Len(s), p + Len(c)}) |->
     IF i \in (p + 1)..(p + Len(c)) THEN c[i - p] ELSE s[i]]

(* What follows works on a state x = [disk, log] *)

(* Mutant of Open: always with "w" *)
OpenAnew(x) ==
  [disk |-> [g \in DOMAIN x.disk \cup {x.log.file} |->
               IF g = x.log.file THEN <<>> ELSE x.disk[g]],
   log |-> [x.log EXCEPT !.open = TRUE, !.pos = 0, !.empty = TRUE]]

(* log_open *)
Open(x) ==
  LET f == x.log.file
      new == attrs.overwrite \/ f \notin DOMAIN x.disk
      d == IF new THEN [g \in DOMAIN x.disk \cup {f} |->
                          IF g = f THEN <<>> ELSE x.disk[g]]
                  ELSE x.disk
  IN [disk |-> d,
      log |-> [x.log EXCEPT !.open = TRUE, !.pos = Len(d[f]), !.empty = (d[f] = <<>>)]]

OpenUnlessLazy(x) == IF attrs.lazy THEN x ELSE Open(x)

(* log_close *)
Close(x) ==
  IF ~x.log.open THEN x
  ELSE [disk |-> [x.disk EXCEPT ![x.log.file] = WriteAt(@, x.log.pos, Trailer)],
        log |-> [x.log EXCEPT !.open = FALSE]]

(* What log_flush is going to write in front of the trailer *)
Out(l) == (IF l.empty THEN Header ELSE <<>>) \o l.data

Cut(flags, s, n) == IF "truncate" \in flags /\ n < Len(s) THEN SubSeq(s, 1, n) ELSE s

(* Mutant of Flush: without seeking back to where the trailer begins *)
FlushForward(x, flags) ==
  LET y == IF ~x.log.open /\ attrs.lazy /\ x.log.data # <<>> THEN Open(x) ELSE x
      l == y.log
      end == l.pos + Len(Out(l))
      written(s) == WriteAt(Cut(flags, WriteAt(s, l.pos, Out(l)), end), end, Trailer)
  IN IF ~l.open THEN y
     ELSE [disk |-> [y.disk EXCEPT ![l.file] = written(@)],
           log |-> [l EXCEPT !.empty = @ /\ Out(l) = <<>>,
                             !.pos = (IF "keep_pointer" \in flags
                                      THEN end - Len(l.data) ELSE end) + Len(Trailer),
                             !.data = IF "keep_buffer" \in flags THEN @ ELSE <<>>]]

(* log_flush.  (The trailer is only written behind something; where there  *)
(* is a trailer there is a header.)                                        *)
Flush(x, flags) ==
  LET y == IF ~x.log.open /\ attrs.lazy /\ x.log.data # <<>> THEN Open(x) ELSE x
      l == y.log
      end == l.pos + Len(Out(l))
      written(s) == WriteAt(Cut(flags, WriteAt(s, l.pos, Out(l)), end), end, Trailer)
  IN IF ~l.open THEN y
     ELSE [disk |-> [y.disk EXCEPT ![l.file] = written(@)],
           log |-> [l EXCEPT !.empty = @ /\ Out(l) = <<>>,
                             !.pos = IF "keep_pointer" \in flags
                                     THEN end - Len(l.data) ELSE end,
                             !.data = IF "keep_buffer" \in flags THEN @ ELSE <<>>]]

(* log_change *)
Change(x) ==
  LET y == Close(Flush(x, {}))
  IN OpenUnlessLazy([y EXCEPT !.log.file = ExpandFilenames(y.disk, now)])

ChangeRequired == log.file.at # now

(* log_new *)
NewLog(d) ==
  OpenUnlessLazy(
    [disk |-> d,
     log |-> [file |-> ExpandFilenames(d, now), open |-> FALSE, pos |-> 0,
              empty |-> FALSE, data |-> <<>>]])

Here == [disk |-> disk, log |-> log]
Become(x) == disk' = x.disk /\ log' = x.log

(* What "w" throws away *)
Overwritten(x) == IF attrs.overwrite THEN OnDisk(disk) \ OnDisk(x.disk) ELSE {}

-----------------------------------------------------------------------------
Init ==
  /\ attrs \in [type : Types, overwrite : BOOLEAN, lazy : BOOLEAN, numbered : BOOLEAN]
  /\ now = 0
  /\ LET x == NewLog(<<>>) IN disk = x.disk /\ log = x.log
  /\ pending = [cells |-> <<>>, flags |-> {}]
  /\ pc = "idle"
  /\ count = 0 /\ dropped = {} /\ lost = {} /\ torn = {} /\ kills = 0

(* The clock goes on *)
Tick ==
  /\ now < MaxNow /\ now' = now + 1
  /\ UNCHANGED <<attrs, disk, log, pending, pc, count, dropped, lost, torn, kills>>

(* vehicle_log_gpx, vehicle_log_nmea, vehicle_log_textfile *)
LogLine ==
  /\ pc = "idle" /\ count < MaxRecords /\ attrs.type # "binfile"
  /\ count' = count + 1
  /\ pending' = [cells |-> <<Record(count')>>, flags |-> {}]
  /\ pc' = "write"
  /\ UNCHANGED <<attrs, now, disk, log, dropped, lost, torn, kills>>

(* transform_douglas_peucker: the ends and any of the points between *)
Simplified(item) ==
  LET points == Tail(item)
      kept == {k \in SeqOf(DOMAIN points, Len(points)) \ {<<>>} :
                 /\ k[1] = 1 /\ Last(k) = Len(points)
                 /\ \A i \in DOMAIN k \ {1} : k[i - 1] < k[i]}
  IN {<<Length(Len(k))>> \o [i \in DOMAIN k |-> points[k[i]]] : k \in kept}

(* One round of the loop of vehicle_log_binfile, for the latest record *)
Longer(k) ==
  IF log.data = <<>> THEN <<Length(1), Record(k)>>
  ELSE [i \in 1..(Len(log.data) + 1) |->
          IF i = 1 THEN Length(log.data[1][2] + 1)
          ELSE IF i <= Len(log.data) THEN log.data[i] ELSE Record(k)]

AddPoint(k) ==
  LET item == Longer(k)
  IN /\ pc' = "write"
     /\ IF item[1][2] > limit
        THEN \E s \in Simplified(item) :
               /\ pending' = [cells |-> s,
                              flags |-> {"replace_buffer", "force_flush", "truncate"}]
               /\ dropped' = dropped \cup (RecordsIn(item) \ RecordsIn(s))
        ELSE /\ pending' = [cells |-> item,
                            flags |-> {"replace_buffer", "keep_pointer", "keep_buffer",
                                       "force_flush"}]
             /\ UNCHANGED dropped

LogPoint ==
  /\ pc = "idle" /\ count < MaxRecords /\ attrs.type = "binfile"
  /\ count' = count + 1
  /\ AddPoint(count')
  /\ UNCHANGED <<attrs, now, disk, log, lost, torn, kills>>

LogPointAgain ==
  /\ pc = "again"
  /\ AddPoint(count)
  /\ UNCHANGED <<attrs, now, disk, log, count, lost, torn, kills>>

(* log_write: first log_change ... *)
WriteChange ==
  /\ pc = "write" /\ ChangeRequired
  /\ Become(Change(Here))
  /\ dropped' = dropped \cup Overwritten(Change(Here))
  /\ UNCHANGED <<attrs, now, pending, pc, count, lost, torn, kills>>

(* ... then the buffer ... *)
WriteBuffer ==
  /\ pc = "write" /\ ~ChangeRequired
  /\ LET data == (IF "replace_buffer" \in pending.flags THEN <<>> ELSE log.data)
                 \o pending.cells
     IN /\ log' = [log EXCEPT !.data = data]
        /\ pc' = IF Len(data) > flush_size \/ "force_flush" \in pending.flags
                 THEN "flush" ELSE "idle"
  /\ pending' = [pending EXCEPT !.cells = <<>>]
  /\ UNCHANGED <<attrs, now, disk, count, dropped, lost, torn, kills>>

(* ... then log_flush *)
WriteFlush ==
  /\ pc = "flush"
  /\ Become(Flush(Here, pending.flags))
  /\ dropped' = dropped \cup Overwritten(Flush(Here, pending.flags))
  /\ pc' = IF "truncate" \in pending.flags THEN "again" ELSE "idle"
  /\ UNCHANGED <<attrs, now, pending, count, lost, torn, kills>>

(* log_timer *)
Timer ==
  /\ pc = "idle"
  /\ Become(Flush(Here, {}))
  /\ dropped' = dropped \cup Overwritten(Flush(Here, {}))
  /\ UNCHANGED <<attrs, now, pending, pc, count, lost, torn, kills>>

(* log_destroy *)
Destroy ==
  /\ pc = "idle" /\ kills < MaxKills /\ kills' = kills + 1
  /\ Become(Close(Flush(Here, {})))
  /\ dropped' = dropped \cup Overwritten(Flush(Here, {}))
  /\ pc' = "dead"
  /\ UNCHANGED <<attrs, now, pending, count, lost, torn>>

-----------------------------------------------------------------------------
(* Killed: what was in the buffer and not on the disk is lost *)
Die(d) ==
  /\ kills < MaxKills /\ kills' = kills + 1
  /\ pc' = "dead"
  /\ disk' = d
  /\ lost' = lost \cup ((RecordsIn(log.data) \cup RecordsIn(pending.cells)) \ OnDisk(d))
  /\ UNCHANGED <<attrs, now, log, pending, count, dropped>>

Kill == pc # "dead" /\ Die(disk) /\ UNCHANGED torn

(* Killed in the middle of a flush: some of the cells have been written,   *)
(* or none of them, but the file has been cut, which comes first           *)
KillInFlush ==
  LET flags == IF pc = "flush" THEN pending.flags ELSE {}
      s == disk[log.file]
      all == Out(log) \o Trailer
      end == log.pos + Len(Out(log))
  IN /\ pc \in {"idle", "flush"} \/ (pc = "write" /\ ChangeRequired)
     /\ log.open
     /\ torn' = torn \cup {log.file}
     /\ \/ \E k \in 1..(Len(all) - 1) :
             Die([disk EXCEPT ![log.file] = WriteAt(Cut(flags, s, end), log.pos,
                                                    SubSeq(all, 1, k))])
        \/ Cut(flags, s, end) # s /\ Die([disk EXCEPT ![log.file] = Cut(flags, s, end)])

(* The program is started again: log_new *)
Restart ==
  /\ pc = "dead"
  /\ Become(NewLog(disk))
  /\ dropped' = dropped \cup Overwritten(NewLog(disk))
  /\ pending' = [cells |-> <<>>, flags |-> {}]
  /\ pc' = "idle"
  /\ UNCHANGED <<attrs, now, count, lost, torn, kills>>

Next ==
  \/ Tick \/ LogLine \/ LogPoint \/ LogPointAgain
  \/ WriteChange \/ WriteBuffer \/ WriteFlush \/ Timer
  \/ Destroy \/ Kill \/ KillInFlush \/ Restart

Spec == Init /\ [][Next]_vars

-----------------------------------------------------------------------------
InOrder(s) ==
  \A i \in DOMAIN s, j \in DOMAIN s :
    i < j /\ IsRecord(s[i]) /\ IsRecord(s[j]) =>
      s[i][2] < s[j][2] \/ (attrs.type = "binfile" /\ s[i][2] = s[j][2])

(* One header, in front; a trailer at the end, and no more of them in      *)
(* between than programs have ended, each of which leaves one behind which *)
(* the next program goes on                                                *)
IsGpx(s) ==
  s # <<>> =>
    /\ \A i \in DOMAIN s : s[i] = HeaderCell <=> i = 1
    /\ Last(s) = <<"T", 2>>
    /\ \A i \in DOMAIN s : s[i] = <<"T", 2>> <=> i > 1 /\ s[i - 1] = <<"T", 1>>
    /\ Cardinality({i \in 1..(Len(s) - 1) : s[i] = <<"T", 2>>}) <= kills

(* One header, in front *)
IsTextfile(s) ==
  \A i \in DOMAIN s : IF i = 1 THEN s[i] = HeaderCell ELSE IsRecord(s[i])

(* Whole items *)
IsBinfile(s) ==
  \A i \in DOMAIN s :
    /\ i = 1 => IsLength(s[i])
    /\ IsLength(s[i]) =>
         LET end == i + s[i][2]
         IN /\ end \in DOMAIN s
            /\ \A j \in (i + 1)..end : IsRecord(s[j])
            /\ end + 1 \in DOMAIN s => IsLength(s[end + 1])

(* Whatever was flushed, changed, killed between two flushes and started   *)
(* again: each file has one header and its records in order, whole items   *)
(* in a binfile log, and the trailer at its end, which each flush writes   *)
(* over the one before; only a program that ends leaves one in the middle. *)
FilesAreWhole ==
  \A f \in DOMAIN disk \ torn :
    /\ InOrder(disk[f])
    /\ CASE attrs.type = "gpx" -> IsGpx(disk[f])
         [] attrs.type = "nmea" -> \A i \in DOMAIN disk[f] : IsRecord(disk[f][i])
         [] attrs.type = "textfile" -> IsTextfile(disk[f])
         [] attrs.type = "binfile" -> IsBinfile(disk[f])

(* No record is lost but what a killed program had in its buffer, for a    *)
(* binfile log that is the item it was rewriting; also when it was killed  *)
(* in the middle of a flush, and when the file was changed for another.    *)
RecordsKept ==
  \A k \in 1..count :
    k \in dropped \cup lost \cup OnDisk(disk)
          \cup RecordsIn(log.data) \cup RecordsIn(pending.cells)

=============================================================================
