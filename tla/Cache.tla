------------------------------- MODULE Cache -------------------------------
(***************************************************************************)
(* The cache of file blocks (navit/cache.c) as navit/file.c uses it.       *)
(*                                                                         *)
(* An adaptive replacement cache: t1 holds blocks asked for once, t2       *)
(* blocks asked for again, b1 and b2 the names of blocks pushed out of t1  *)
(* and t2 ("ghosts", trimmed to their headers).  Front of a list: most     *)
(* recently used.  Blocks in use are skipped when one has to go.           *)
(*                                                                         *)
(* cache_lookup and cache_insert are always called right after each other  *)
(* by file_data_read, so that one action stands for both and the field     *)
(* cache->insert never outlives it.                                        *)
(***************************************************************************)
EXTENDS Integers, FiniteSets, SequencesExt

CONSTANTS
  Id,         \* blocks: file, offset, size and method
  DataSize,   \* bytes of data of each block
  EntrySize,  \* cache->entry_size, bytes of a header
  CacheSize,  \* cache->size, in bytes
  Handle,     \* pointers to blocks that callers may hold
  None

ASSUME CacheAssumption ==
  /\ IsFiniteSet(Handle)
  /\ DataSize \in [Id -> Nat]
  /\ EntrySize \in Nat \ {0}
  /\ CacheSize \in Nat
  /\ None \notin Id

VARIABLES
  t1_target,  \* cache->t1_target
  mem,        \* [list, bytes, size, hash]: the lists t1, b1, t2 and b2 of
              \* blocks, list->size of each, entry->size of each block, and
              \* the blocks cache->hash knows
  usage,      \* entry->usage of each block
  handle      \* [id, live]: what a pointer points to, and whether it is valid

vars == <<t1_target, mem, usage, handle>>

Lists == {"t1", "b1", "t2", "b2"}
Free == [id |-> None, live |-> FALSE]

TypeOK ==
  /\ t1_target \in 0..CacheSize
  /\ mem \in [list : [Lists -> Seq(Id)], bytes : [Lists -> Int],
              size : [Id -> Nat], hash : SUBSET Id]
  /\ usage \in [Id -> Int]
  /\ handle \in [Handle -> [id : Id \cup {None}, live : BOOLEAN]]

(* cache_new *)
Init ==
  /\ t1_target = 0
  /\ mem = [list |-> [l \in Lists |-> <<>>], bytes |-> [l \in Lists |-> 0],
            size |-> [id \in Id |-> 0], hash |-> {}]
  /\ usage = [id \in Id |-> 0]
  /\ handle = [h \in Handle |-> Free]

-----------------------------------------------------------------------------
(* Lists.  The operators take and return the record m of variable mem. *)

On(m, l) == ToSet(m.list[l])
Larger(a, b) == IF a > b THEN a ELSE b
(* Mutant of Smaller: the target is not capped *)
Uncapped(a, b) == a
Smaller(a, b) == IF a < b THEN a ELSE b

(* cache_insert_mru of an entry of n bytes *)
InsertMru(m, l, id, n) ==
  [m EXCEPT !.list[l] = <<id>> \o @, !.bytes[l] = @ + n, !.size[id] = n,
            !.hash = @ \cup {id}]

(* cache_remove_from_list *)
RemoveFrom(m, l, id) ==
  LET s == m.list[l]
      k == CHOOSE i \in DOMAIN s : s[i] = id
  IN [m EXCEPT !.list[l] = SubSeq(s, 1, k - 1) \o SubSeq(s, k + 1, Len(s)),
               !.bytes[l] = @ - m.size[id]]

(* Mutant of Unused: blocks in use may go as well *)
UnusedOrUsed(m, l) == DOMAIN m.list[l]

(* Where in a list the blocks stand that nobody uses *)
Unused(m, l) == {i \in DOMAIN m.list[l] : usage[m.list[l][i]] = 0}

(* The place of the one that goes: the least recently used *)
Lru(m, l) == CHOOSE i \in Unused(m, l) : \A j \in Unused(m, l) : j <= i
Victim(m, l) == m.list[l][Lru(m, l)]

(* cache_remove_lru: the blocks in use behind the victim move, one by one, *)
(* to the front; when all are in use the list has turned round completely. *)
RemoveLru(m, l) ==
  LET s == m.list[l]
      k == Lru(m, l)
  IN [m EXCEPT !.list[l] = SubSeq(s, k + 1, Len(s)) \o SubSeq(s, 1, k - 1),
               !.bytes[l] = @ - m.size[s[k]]]

(* cache_remove_lru that frees what it removes *)
FreeLru(m, l) ==
  IF Unused(m, l) = {} THEN m
  ELSE [RemoveLru(m, l) EXCEPT !.hash = @ \ {Victim(m, l)}]

(* Mutant of Move: ghosts keep their data *)
MoveUntrimmed(m, from, to) ==
  InsertMru(RemoveLru(m, from), to, Victim(m, from), m.size[Victim(m, from)])

(* cache_move, with cache_trim *)
Move(m, from, to) ==
  InsertMru(RemoveLru(m, from), to, Victim(m, from), EntrySize)

(* cache_replace: a block of t1 or t2 becomes a ghost, if one can *)
Replace(m, target) ==
  LET fromT1 == Unused(m, "t1") # {}
      fromT2 == Unused(m, "t2") # {}
      preferT1 == m.bytes["t1"] >= Larger(1, target)
  IN IF fromT1 /\ (preferT1 \/ ~fromT2) THEN Move(m, "t1", "b1")
     ELSE IF fromT2 THEN Move(m, "t2", "b2")
     ELSE m

Total(m) == m.bytes["t1"] + m.bytes["t2"] + m.bytes["b1"] + m.bytes["b2"]

(* Mutant of MakeRoom: nothing leaves t1 once it has the size of the cache *)
MakeRoomBesideT1(m) ==
  IF m.bytes["t1"] + m.bytes["b1"] >= CacheSize
  THEN IF m.bytes["t1"] < CacheSize
       THEN Replace(FreeLru(m, "b1"), t1_target)
       ELSE m
  ELSE IF Total(m) >= CacheSize
  THEN Replace(IF Total(m) >= 2 * CacheSize THEN FreeLru(m, "b2") ELSE m,
               t1_target)
  ELSE m

(* cache_insert for a block that goes to t1, before it does *)
MakeRoom(m) ==
  IF m.bytes["t1"] + m.bytes["b1"] >= CacheSize
  THEN IF m.bytes["t1"] < CacheSize
       THEN Replace(FreeLru(m, "b1"), t1_target)
       ELSE FreeLru(m, "t1")
  ELSE IF Total(m) >= CacheSize
  THEN Replace(IF Total(m) >= 2 * CacheSize THEN FreeLru(m, "b2") ELSE m,
               t1_target)
  ELSE m

-----------------------------------------------------------------------------
(* The three ways cache_lookup, and for a block that has to be read        *)
(* cache_insert_new, go.  "users" is what entry->usage becomes.            *)

(* Mutant of Hit: another reader is not counted *)
HitUncounted(id, users) ==
  /\ \E l \in {"t1", "t2"} :
       /\ id \in On(mem, l)
       /\ mem' = InsertMru(RemoveFrom(mem, l, id), "t2", id, mem.size[id])
  /\ UNCHANGED <<t1_target, usage>>

Hit(id, users) ==
  /\ \E l \in {"t1", "t2"} :
       /\ id \in On(mem, l)
       /\ mem' = InsertMru(RemoveFrom(mem, l, id), "t2", id, mem.size[id])
  /\ usage' = [usage EXCEPT ![id] = users]
  /\ UNCHANGED t1_target

(* Mutant of Ghost: the ghost is not taken off its list *)
GhostStays(id, users) ==
  /\ \E l \in {"b1", "b2"} :
       /\ id \in On(mem, l)
       /\ t1_target' =
            IF l = "b1"
            THEN Smaller(t1_target + Larger(mem.bytes["b2"] \div mem.bytes["b1"], 1),
                         CacheSize)
            ELSE Larger(t1_target - Larger(mem.bytes["b1"] \div mem.bytes["b2"], 1),
                        0)
       /\ mem' = InsertMru(Replace(mem, t1_target'), "t2",
                           id, DataSize[id] + EntrySize)
  /\ usage' = [usage EXCEPT ![id] = users]

Ghost(id, users) ==
  /\ \E l \in {"b1", "b2"} :
       /\ id \in On(mem, l)
       /\ t1_target' =
            IF l = "b1"
            THEN Smaller(t1_target + Larger(mem.bytes["b2"] \div mem.bytes["b1"], 1),
                         CacheSize)
            ELSE Larger(t1_target - Larger(mem.bytes["b1"] \div mem.bytes["b2"], 1),
                        0)
       /\ mem' = InsertMru(Replace(RemoveFrom(mem, l, id), t1_target'), "t2",
                           id, DataSize[id] + EntrySize)
  /\ usage' = [usage EXCEPT ![id] = users]

Miss(id, users) ==
  /\ id \notin mem.hash
  /\ mem' = InsertMru(MakeRoom(mem), "t1", id, DataSize[id] + EntrySize)
  /\ usage' = [usage EXCEPT ![id] = users]
  /\ UNCHANGED t1_target

(* file_data_read by a caller that keeps the pointer in h *)
Read(h, id) ==
  /\ handle[h] = Free
  /\ handle' = [handle EXCEPT ![h] = [id |-> id, live |-> TRUE]]
  /\ Hit(id, usage[id] + 1) \/ Ghost(id, 1) \/ Miss(id, 1)

(* file_data_read of a block the file ends before: the entry made for it   *)
(* is given back, and stays                                                *)
ReadFails(id) ==
  /\ Ghost(id, 0) \/ Miss(id, 0)
  /\ UNCHANGED handle

(* file_data_free; a pointer that is no longer valid is not to be used *)
Return(h) ==
  /\ handle[h] # Free
  /\ handle' = [handle EXCEPT ![h] = Free]
  /\ usage' = IF handle[h].live
              THEN [usage EXCEPT ![handle[h].id] = @ - 1] ELSE usage
  /\ UNCHANGED <<t1_target, mem>>

(* The entry of a block is taken off its list and freed, in use or not;    *)
(* pointers to it other than hs become invalid                             *)
Discard(id, hs) ==
  /\ \E l \in Lists :
       /\ id \in On(mem, l)
       /\ mem' = [RemoveFrom(mem, l, id) EXCEPT !.hash = @ \ {id}]
  /\ usage' = [usage EXCEPT ![id] = 0]
  /\ handle' = [h \in Handle |->
       IF h \in hs THEN Free
       ELSE IF handle[h].live /\ handle[h].id = id
       THEN [id |-> id, live |-> FALSE] ELSE handle[h]]
  /\ UNCHANGED t1_target

(* file_data_remove *)
DataRemove(h) == handle[h].live /\ Discard(handle[h].id, {h})

(* file_data_flush, also before every file_data_write *)
Flush(id) == Discard(id, {})

Next ==
  \/ \E h \in Handle, id \in Id : Read(h, id)
  \/ \E id \in Id : ReadFails(id) \/ Flush(id)
  \/ \E h \in Handle : Return(h) \/ DataRemove(h)

Spec == Init /\ [][Next]_vars

-----------------------------------------------------------------------------
Resident == On(mem, "t1") \cup On(mem, "t2")

(* A block is on one list at most, once, and the hash table finds exactly  *)
(* the blocks that are on one: entries are freed, trimmed (which moves     *)
(* them in memory) and moved from list to list in several places.          *)
ListsMatchHash ==
  /\ \A l \in Lists : IsInjective(mem.list[l])
  /\ \A l, k \in Lists : l # k => On(mem, l) \cap On(mem, k) = {}
  /\ mem.hash = UNION {On(mem, l) : l \in Lists}

(* The sizes that decide what goes are those of the entries on the lists,  *)
(* and a ghost has lost its data.                                          *)
SumOf(s, f) ==
  LET sum[i \in 0..Len(s)] == IF i = 0 THEN 0 ELSE sum[i - 1] + f[s[i]]
  IN sum[Len(s)]
SizesAddUp ==
  /\ \A l \in Lists : mem.bytes[l] = SumOf(mem.list[l], mem.size)
  /\ \A l \in {"b1", "b2"}, id \in Id : id \in On(mem, l) => mem.size[id] = EntrySize
  /\ \A id \in Resident : mem.size[id] = DataSize[id] + EntrySize

(* entry->usage is the number of valid pointers; a ghost has none. Too low *)
(* frees a block under a reader, too high keeps it for ever.               *)
Holders(id) == {h \in Handle : handle[h].live /\ handle[h].id = id}
UsageCounts ==
  \A id \in Id : /\ usage[id] = Cardinality(Holders(id))
                 /\ Holders(id) # {} => id \in Resident

(* The cache keeps the promise of Lending *)
Promise == INSTANCE Lending WITH cached <- Resident
KeepsPromise == Promise!Spec

(* When the blocks in memory have reached the configured size, a new one   *)
(* pushes another one out: unless all are in use, or t1 alone has that     *)
(* size and is in use as a whole.                                          *)
MakesRoom ==
  [][/\ mem.bytes["t1"] + mem.bytes["t2"] >= CacheSize
     /\ \E id \in Id \ Resident : id \in Resident'
     => \/ \E id \in Resident : id \notin Resident'
        \/ Unused(mem, "t1") = {} /\ (\/ Unused(mem, "t2") = {}
                                     \/ mem.bytes["t1"] >= CacheSize)]_vars

=============================================================================
