----------------------------- MODULE Bookmarks ------------------------------
(***************************************************************************)
(* The bookmarks (navit/bookmarks.c): a tree of folders and places that is *)
(* read from a file, changed by one operation at a time, written to a      *)
(* working file as a whole, and read again when the working file has taken *)
(* the place of the old one.  The program may be killed at any step, and   *)
(* in the middle of a line that it writes.                                 *)
(***************************************************************************)
EXTENDS Integers, FiniteSets, SequencesExt, Functions

CONSTANTS
  Label,       \* names of places and folders
  Garbled,     \* a name in which a line of the file is found
  Coord,       \* coordinates of places
  Folder,      \* the "coordinate" of a folder
  None,
  MaxEntries,  \* bounds of the model: entries in the list,
  MaxDepth,    \* nested folders
  MaxKills     \* times the program is killed

ASSUME BookmarksAssumption ==
  /\ Folder \notin Coord /\ Garbled \notin Label
  /\ {MaxEntries, MaxDepth, MaxKills} \subseteq Nat

VARIABLES
  file,      \* bookmark.txt: its entries, or None
  work,      \* bookmark.txt.tmp: its entries, or None
  part,      \* the entry of which part of a line is at its end, or None
  list,      \* bookmarks_list; every entry has its full name
  current,   \* the full name of the folder that is shown
  clipboard, \* [label, c, children] or None
  asked,     \* the operation in progress: the names it adds and takes away,
             \* and whether the next bookmarks_clear_hash frees items twice
  pc,        \* "idle", "store", "unlink", "rename", "dead"
  names,     \* the names the user has seen or knows to be there
  stray,     \* names that a working file has kept from a killed program, and
             \* those that are there twice since
  swallowed, \* names whose line was joined to a part of one, and that are
             \* not in the working file otherwise
  kills      \* how often it was killed

disk == <<file, work, part>>
ghosts == <<names, stray, swallowed, kills>>
vars == <<disk, list, current, clipboard, asked, pc, ghosts>>

Name == Seq(Label \cup {Garbled}) \ {<<>>}
Entry == [name : Name, c : Coord \cup {Folder}]

ASSUME NoneAssumption == None \notin Seq(Entry)

Nothing == [adds |-> {}, takes |-> {}, twice |-> FALSE]

IsGarbled(n) == Garbled \in Range(n)
NamesIn(s) == {s[i].name : i \in DOMAIN s}
Twice(s) ==
  {s[i].name : i \in {j \in DOMAIN s : \E k \in 1..(j - 1) : s[k].name = s[j].name}}
NamesOn(f) == IF f = None THEN {} ELSE NamesIn(f)
FoldersOf(n) == {SubSeq(n, 1, k) : k \in 1..(Len(n) - 1)}

(* The types; between operations every entry comes after the folders it is *)
(* in (the tree has no entry whose folder is gone), and the folder that is *)
(* shown is there.                                                         *)
TypeOK ==
  /\ file = None \/ file \in Seq(Entry)
  /\ work = None \/ work \in Seq(Entry)
  /\ part \in Entry \cup {None}
  /\ list \in Seq(Entry)
  /\ current = <<>> \/ current \in NamesIn(list)
  /\ pc \in {"idle", "store", "unlink", "rename", "dead"}
  /\ pc = "idle" =>
       /\ asked = Nothing
       /\ \A i \in DOMAIN list :
            FoldersOf(list[i].name) \subseteq NamesIn(SubSeq(list, 1, i - 1))
  /\ names \subseteq Name /\ stray \subseteq Name /\ swallowed \subseteq Name
  /\ kills \in 0..MaxKills

-----------------------------------------------------------------------------
(* bookmarks_load_hash: a folder that has no entry before the first entry  *)
(* in it gets one in front of that                                         *)

(* Mutant of LoadEntry: without it *)
LoadAlone(l, e) == Append(l, e)

AddFolder(l, n) == IF n \in NamesIn(l) THEN l ELSE Append(l, [name |-> n, c |-> Folder])
LoadEntry(l, e) ==
  LET m[k \in 0..(Len(e.name) - 1)] ==
        IF k = 0 THEN l ELSE AddFolder(m[k - 1], SubSeq(e.name, 1, k))
  IN Append(m[Len(e.name) - 1], e)
LoadAll(f) ==
  LET l[i \in 0..Len(f)] == IF i = 0 THEN <<>> ELSE LoadEntry(l[i - 1], f[i])
  IN l[Len(f)]
Load(f) == IF f = None THEN <<>> ELSE LoadAll(f)

(* bookmarks_store_bookmarks_to_file writes each full name once *)
StoreEntry(w, e) == IF e.name \in NamesIn(w) THEN w ELSE Append(w, e)
Lines(l) ==
  LET w[i \in 0..Len(l)] == IF i = 0 THEN <<>> ELSE StoreEntry(w[i - 1], l[i])
  IN w[Len(l)]

(* A line that is begun for p and goes on with the one for e, read again:  *)
(* "mg:0x1 0x2 type=bookmark label="A" path="X/Amg:0x3 0x4 type=...".      *)
(* Depending on where the first one ends it has no type that is known and  *)
(* is skipped, or has the type and the coordinates of p; the name is that  *)
(* of e, or it has in it what is there of one name and begins the other    *)
Garble(n, k, t) == SubSeq(n, 1, k) \o <<Garbled>> \o t
GarbledNames(p, e) ==
  {Garble(p.name, k, t) : k \in 0..(Len(p.name) - 1), t \in {<<>>, Tail(e.name)}}
Joined(p, e) ==
  {<<>>} \cup {<<[name |-> n, c |-> p.c]>> : n \in {e.name} \cup GarbledNames(p, e)}

(* What can be read of the working file when lines are appended to it, and *)
(* whose line is then not one of its own                                   *)
Appended(ls) ==
  IF part = None \/ ls = <<>> THEN {work \o ls}
  ELSE {work \o j \o Tail(ls) : j \in Joined(part, Head(ls))}
Swallows(ls) == IF part = None \/ ls = <<>> THEN {} ELSE {Head(ls).name}

(* The children of a folder, and what lies below it *)
Inside(l, n) == {i \in DOMAIN l : Front(l[i].name) = n}
Below(l, n) == {i \in DOMAIN l : IsStrictPrefix(n, l[i].name)}
Child(label) == Append(current, label)
FirstOf(n) == CHOOSE i \in DOMAIN list :
  list[i].name = n /\ \A j \in DOMAIN list : list[j].name = n => i <= j

(* bookmarks_new *)
Init ==
  /\ file = None /\ work = None /\ part = None /\ list = <<>> /\ current = <<>>
  /\ clipboard = None /\ asked = Nothing /\ pc = "idle"
  /\ names = {} /\ stray = {} /\ swallowed = {} /\ kills = 0

-----------------------------------------------------------------------------
(* bookmarks_move_root, bookmarks_move_up, bookmarks_move_down (which      *)
(* moves into a place as well as into a folder)                            *)
MoveRoot ==
  /\ pc = "idle" /\ current' = <<>>
  /\ UNCHANGED <<disk, list, clipboard, asked, pc, ghosts>>

MoveUp ==
  /\ pc = "idle" /\ current # <<>> /\ current' = Front(current)
  /\ UNCHANGED <<disk, list, clipboard, asked, pc, ghosts>>

MoveDown(label) ==
  /\ pc = "idle" /\ Child(label) \in NamesIn(list) /\ current' = Child(label)
  /\ UNCHANGED <<disk, list, clipboard, asked, pc, ghosts>>

(* Mutant of Change: the working file is opened to be replaced *)
ChangeAnew(l, adds, takes, twice) ==
  /\ list' = l
  /\ asked' = [adds |-> adds, takes |-> takes, twice |-> twice]
  /\ pc' = "store"
  /\ work' = <<>> /\ part' = None
  /\ UNCHANGED <<file, current, ghosts>>

(* Each operation changes the list and comes to                            *)
(* bookmarks_store_bookmarks_to_file, which opens the working file to      *)
(* append to it.  A garbled name has quotes in it and is another one when  *)
(* it has been written and read again; the model goes on when it has been  *)
(* deleted.                                                                *)
Change(l, adds, takes, twice) ==
  /\ \A i \in DOMAIN l : ~IsGarbled(l[i].name)
  /\ list' = l
  /\ asked' = [adds |-> adds, takes |-> takes, twice |-> twice]
  /\ pc' = "store"
  /\ work' = IF work = None THEN <<>> ELSE work
  /\ UNCHANGED <<file, part, current, ghosts>>

(* bookmarks_add_bookmark *)
AddBookmark(label, c) ==
  /\ pc = "idle" /\ Len(list) < MaxEntries /\ Len(current) <= MaxDepth
  /\ Change(Append(list, [name |-> Child(label), c |-> c]), {Child(label)}, {}, FALSE)
  /\ UNCHANGED clipboard

(* bookmarks_copy_bookmark: the clipboard shares the list of the children *)
CopyOf(label) ==
  [label |-> label, c |-> list[FirstOf(Child(label))].c,
   children |-> Inside(list, Child(label)) # {}]
CopyBookmark(label) ==
  /\ pc = "idle" /\ Child(label) \in NamesIn(list)
  /\ clipboard' = CopyOf(label)
  /\ UNCHANGED <<disk, list, current, asked, pc, ghosts>>

(* bookmarks_paste_bookmark: the new entry has the children of the one     *)
(* that was copied, which also has them or has been freed with them        *)
PasteBookmark ==
  /\ pc = "idle" /\ clipboard # None
  /\ Len(list) < MaxEntries /\ Len(current) <= MaxDepth
  /\ Change(Append(list, [name |-> Child(clipboard.label), c |-> clipboard.c]),
            {Child(clipboard.label)}, {}, clipboard.children)
  /\ UNCHANGED clipboard

(* Mutant of WithoutEntry: what lies in the folder goes with it *)
WithoutFolder(label) ==
  LET n == Child(label) IN SelectSeq(list, LAMBDA e : ~IsPrefix(n, e.name))

(* bookmarks_delete_bookmark removes the one entry from the list; what     *)
(* lies below a folder remains and keeps its full name                     *)
WithoutEntry(label) == RemoveAt(list, FirstOf(Child(label)))
DeleteBookmark(label) ==
  /\ pc = "idle" /\ Child(label) \in NamesIn(list)
  /\ Change(WithoutEntry(label), {}, {Child(label)}, FALSE)
  /\ UNCHANGED clipboard

(* bookmarks_cut_bookmark *)
CutBookmark(label) ==
  /\ pc = "idle" /\ Child(label) \in NamesIn(list)
  /\ clipboard' = CopyOf(label)
  /\ Change(WithoutEntry(label), {}, {Child(label)}, FALSE)

(* bookmarks_rename_bookmark: the names of what lies below change with it *)
Renamed(n, m) ==
  [i \in DOMAIN list |->
     IF i = FirstOf(n) \/ i \in Below(list, n)
     THEN [list[i] EXCEPT !.name = m \o SubSeq(@, Len(n) + 1, Len(@))]
     ELSE list[i]]
RenameBookmark(old, new) ==
  /\ pc = "idle" /\ Child(old) \in NamesIn(list) /\ old # new
  /\ LET n == Child(old)
         moved == {n} \cup {list[i].name : i \in Below(list, n)}
     IN Change(Renamed(n, Child(new)),
               {Child(new) \o SubSeq(m, Len(n) + 1, Len(m)) : m \in moved}, moved, FALSE)
  /\ UNCHANGED clipboard

-----------------------------------------------------------------------------
Gone == pc' = "dead" /\ list' = <<>> /\ current' = <<>> /\ clipboard' = None

(* bookmarks_store_bookmarks_to_file: fclose, unlink, rename; then         *)
(* bookmarks_clear_hash and bookmarks_load_hash                            *)
Store ==
  /\ pc = "store" /\ pc' = "unlink"
  /\ work' \in Appended(Lines(list))
  /\ part' = IF list = <<>> THEN part ELSE None
  /\ swallowed' = (swallowed \cup Swallows(Lines(list))) \ NamesIn(work')
  /\ UNCHANGED <<file, list, current, clipboard, asked, names, stray, kills>>

Unlink ==
  /\ pc = "unlink" /\ pc' = "rename"
  /\ file' = None
  /\ UNCHANGED <<work, part, list, current, clipboard, asked, ghosts>>

(* A part of a line at the end of a file is not read.  Freeing twice ends  *)
(* the program, or goes unnoticed.                                         *)
Rename ==
  /\ pc = "rename"
  /\ file' = work /\ work' = None /\ part' = None
  /\ names' = NamesIn(Load(work))
  /\ stray' = Twice(Load(work)) /\ swallowed' = {}
  /\ asked' = Nothing /\ UNCHANGED kills
  /\ \/ pc' = "idle" /\ list' = Load(work) /\ current' = <<>> /\ UNCHANGED clipboard
     \/ asked.twice /\ Gone

(* The program is killed; in the middle of writing, when k lines and       *)
(* perhaps a part of the next one have reached the disk: fprintf writes    *)
(* into a buffer, which is written whenever it is full                     *)
CutOff(ls, k) ==
  /\ work' \in Appended(SubSeq(ls, 1, k))
  /\ swallowed' = (swallowed \cup Swallows(SubSeq(ls, 1, k))) \ NamesIn(work')
  /\ \/ part' = IF k = 0 THEN part ELSE None
     \/ k < Len(ls) /\ (k > 0 \/ part = None) /\ part' = ls[k + 1]
     \/ k = 0 /\ part # None /\ ls # <<>>
        /\ \E j \in Joined(part, ls[1]) \ {<<>>} : part' = j[1]

(* It is started again: bookmarks_new.  What was to be taken away and has  *)
(* not been is seen again.                                                 *)
Kill ==
  /\ pc # "dead" /\ Gone
  /\ kills < MaxKills /\ kills' = kills + 1
  /\ \/ UNCHANGED <<work, part, swallowed>>
     \/ pc = "store" /\ \E k \in 0..Len(Lines(list)) : CutOff(Lines(list), k)
  /\ stray' = stray \cup NamesOn(work') \cup IF part' = None THEN {} ELSE {part'.name}
  /\ UNCHANGED <<file, asked, names>>

Restart ==
  /\ pc = "dead"
  /\ list' = Load(file)
  /\ pc' = "idle"
  /\ names' = (names \ asked.takes) \cup NamesIn(list') /\ asked' = Nothing
  /\ UNCHANGED <<disk, current, clipboard, stray, swallowed, kills>>

Next ==
  \/ MoveRoot \/ MoveUp \/ PasteBookmark
  \/ \E label \in Label \cup {Garbled} :
       \/ MoveDown(label) \/ CopyBookmark(label) \/ CutBookmark(label)
       \/ DeleteBookmark(label)
       \/ \E new \in Label : RenameBookmark(label, new)
  \/ \E label \in Label, c \in Coord \cup {Folder} : AddBookmark(label, c)
  \/ Store \/ Unlink \/ Rename
  \/ Kill \/ Restart

Spec == Init /\ [][Next]_vars

-----------------------------------------------------------------------------
WithFolders(s) == s \cup UNION {FoldersOf(n) : n \in s}

(* Whatever is killed when: each name the user had, unless he has asked to *)
(* remove it, is in the file, or in the working file when the old file is  *)
(* gone, from where the next change brings it back; but for one name, and  *)
(* the folders it is in, for each time that the program was killed in the  *)
(* middle of a line.                                                       *)
OneLostPerKill ==
  /\ (names \ asked.takes)
       \subseteq NamesIn(Load(IF file = None THEN work ELSE file))
                 \cup IF file = None THEN WithFolders(swallowed) ELSE {}
  /\ Cardinality(swallowed) <= kills

(* When an operation ends, the names are those before it with what it adds *)
(* and without what it takes; the folders of what is left remain.  Only a  *)
(* working file of a killed program brings other names back, garbles or    *)
(* swallows one, or doubles them, so that taking one away leaves the other.*)
AsAsked ==
  [][pc = "rename" /\ file' # None =>
       LET want == WithFolders((names \ asked.takes) \cup asked.adds)
       IN /\ want \subseteq names' \cup WithFolders(swallowed)
          /\ \A n \in names' : n \in WithFolders(want \cup stray) \/ IsGarbled(n)]_vars

=============================================================================
