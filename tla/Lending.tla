------------------------------ MODULE Lending ------------------------------
(***************************************************************************)
(* What navit/cache.c promises to those who read files through it: a block *)
(* that is lent stays in memory, as the same object, until everybody has   *)
(* given it back or somebody discards it; blocks nobody uses may vanish at *)
(* any moment that somebody asks for one.                                  *)
(***************************************************************************)
EXTENDS FiniteSets

CONSTANTS
  Id,       \* blocks: file, offset, size and method
  Handle,   \* pointers to blocks that callers may hold
  None

VARIABLES
  cached,   \* blocks whose contents are in memory
  handle    \* [id, live]: what a pointer points to, and whether it is valid

lendingVars == <<cached, handle>>

Free == [id |-> None, live |-> FALSE]

(* Valid pointers to block id *)
Lent(id) == {h \in Handle : handle[h].live /\ handle[h].id = id}

InUse == {id \in Id : Lent(id) # {}}

Init ==
  /\ cached = {}
  /\ handle = [h \in Handle |-> Free]

(* Lending a block may push out others, none that is lent *)
Lend(h, id) ==
  /\ handle[h] = Free
  /\ handle' = [handle EXCEPT ![h] = [id |-> id, live |-> TRUE]]
  /\ id \in cached'
  /\ InUse \subseteq cached'
  /\ cached' \subseteq cached \cup {id}

(* The same for a block that turns out to be unreadable *)
LendNothing(id) ==
  /\ InUse \cup {id} \subseteq cached'
  /\ cached' \subseteq cached \cup {id}
  /\ UNCHANGED handle

Return(h) ==
  /\ handle[h] # Free
  /\ handle' = [handle EXCEPT ![h] = Free]
  /\ UNCHANGED cached

(* Other pointers to a discarded block become invalid *)
Discarded(id, hs) ==
  /\ cached' = cached \ {id}
  /\ handle' = [h \in Handle |->
       IF h \in hs THEN Free
       ELSE IF h \in Lent(id) THEN [id |-> id, live |-> FALSE] ELSE handle[h]]

Next ==
  \/ \E h \in Handle, id \in Id : Lend(h, id)
  \/ \E id \in Id : LendNothing(id) \/ Discarded(id, {})
  \/ \E h \in Handle : Return(h) \/ Discarded(handle[h].id, {h})

Spec == Init /\ [][Next]_lendingVars

(* What is lent is there *)
LentIsCached == InUse \subseteq cached

=============================================================================
