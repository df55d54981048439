------------------------------- MODULE Lists --------------------------------
(***************************************************************************)
(* The doubly linked lists of list.c, with their pointers: one that is     *)
(* used like a ready list (vListInsertEnd, and turns given by              *)
(* listGET_OWNER_OF_NEXT_ENTRY) and one that is kept sorted (vListInsert). *)
(* The kernel calls them in critical sections: each call is one step.      *)
(***************************************************************************)
EXTENDS Naturals, FiniteSets

CONSTANTS
  Item,      \* the list items
  Ready, Sorted,   \* the end markers (xListEnd) of the two lists
  MaxValue,  \* portMAX_DELAY
  NoList     \* the container of an item on no list

List == {Ready, Sorted}
Node == Item \cup List
Value == 0 .. MaxValue

VARIABLES
  links,      \* pxNext and pxPrevious of every node
  container,  \* pxContainer of each item
  value,      \* xItemValue of every node
  index,      \* pxIndex of the ready list, which the sorted one does not use
  number,     \* uxNumberOfItems
  older,      \* history: <<i, j>> if i joined the sorted list before j
  turns       \* history: how often j had its turn while i waited for its own

vars == <<links, container, value, index, number, older, turns>>

(* vListInitialise for the lists, vListInitialiseItem for the items *)
ListsInit ==
  /\ links = [next |-> [n \in Node |-> n], prev |-> [n \in Node |-> n]]
  /\ container = [i \in Item |-> NoList]
  /\ value = [n \in Node |-> IF n \in List THEN MaxValue ELSE 0]
  /\ index = Ready /\ number = [l \in List |-> 0]
  /\ older = {} /\ turns = [i \in Item |-> [j \in Item |-> 0]]

-----------------------------------------------------------------------------
(* The new item i between node p and the one that follows it *)
LinkAfter(p, i) ==
  LET n == links.next[p]
  IN  [next |-> [links.next EXCEPT ![i] = n, ![p] = i],
       prev |-> [links.prev EXCEPT ![n] = i, ![i] = p]]

Joins(i, l) ==
  /\ container' = [container EXCEPT ![i] = l]
  /\ number' = [number EXCEPT ![l] = @ + 1]

(* Faulty: the new item is the next one *)
InsertEnd_Next(i) ==
  /\ container[i] = NoList
  /\ links' = LinkAfter(index, i)
  /\ Joins(i, Ready)
  /\ turns' = [turns EXCEPT ![i] = [j \in Item |-> 0]]
  /\ UNCHANGED <<value, index, older>>

(* vListInsertEnd and listINSERT_END: before the item that pxIndex is at *)
InsertEnd(i) ==
  /\ container[i] = NoList
  /\ links' = LinkAfter(links.prev[index], i)
  /\ Joins(i, Ready)
  /\ turns' = [turns EXCEPT ![i] = [j \in Item |-> 0]]
  /\ UNCHANGED <<value, index, older>>

(* Faulty: before the items of the same value *)
Position_First(v) ==
  LET walk[n \in Node] == IF value[links.next[n]] < v THEN walk[links.next[n]] ELSE n
  IN  walk[Sorted]

(* Where the walk of vListInsert ends: the last node whose value is not    *)
(* greater than v.  The end marker has the greatest of values, so an item  *)
(* with that value goes straight to the end.                               *)
Position(v) ==
  LET walk[n \in Node] == IF value[links.next[n]] <= v THEN walk[links.next[n]] ELSE n
  IN  IF v = MaxValue THEN links.prev[Sorted] ELSE walk[Sorted]

(* listSET_LIST_ITEM_VALUE, vListInsert *)
Insert(i, v) ==
  /\ container[i] = NoList
  /\ value' = [value EXCEPT ![i] = v]
  /\ links' = LinkAfter(Position(v), i)
  /\ Joins(i, Sorted)
  /\ older' = older \cup {<<j, i>> : j \in {x \in Item : container[x] = Sorted}}
  /\ UNCHANGED <<index, turns>>

(* The neighbours of i are joined.  Its own pointers, which nothing reads  *)
(* until it joins a list again, point at itself here; so its value is 0.   *)
Unlinked(i) ==
  [next |-> [links.next EXCEPT ![links.prev[i]] = links.next[i], ![i] = i],
   prev |-> [links.prev EXCEPT ![links.next[i]] = links.prev[i], ![i] = i]]

(* Faulty: pxIndex is left at the item *)
Remove_KeepsIndex(i) ==
  /\ container[i] # NoList
  /\ links' = Unlinked(i)
  /\ container' = [container EXCEPT ![i] = NoList]
  /\ number' = [number EXCEPT ![container[i]] = @ - 1]
  /\ older' = {e \in older : i \notin {e[1], e[2]}}
  /\ turns' = [turns EXCEPT ![i] = [j \in Item |-> 0]]
  /\ value' = [value EXCEPT ![i] = 0]
  /\ UNCHANGED index

(* uxListRemove and listREMOVE_ITEM *)
Remove(i) ==
  /\ container[i] # NoList
  /\ links' = Unlinked(i)
  /\ container' = [container EXCEPT ![i] = NoList]
  /\ number' = [number EXCEPT ![container[i]] = @ - 1]
  /\ index' = IF index = i THEN links.prev[i] ELSE index
  /\ older' = {e \in older : i \notin {e[1], e[2]}}
  /\ turns' = [turns EXCEPT ![i] = [j \in Item |-> 0]]
  /\ value' = [value EXCEPT ![i] = 0]

(* listGET_OWNER_OF_NEXT_ENTRY, on a list that is not empty *)
NextEntry ==
  LET n == links.next[index] IN IF n = Ready THEN links.next[Ready] ELSE n

GetOwnerOfNextEntry ==
  /\ number[Ready] > 0
  /\ index' = NextEntry
  /\ turns' = [i \in Item |->
                 IF i = NextEntry \/ container[i] # Ready THEN [j \in Item |-> 0]
                 ELSE [turns[i] EXCEPT ![NextEntry] = IF @ < 3 THEN @ + 1 ELSE @]]
  /\ UNCHANGED <<links, container, value, number, older>>

ListsNext ==
  \/ \E i \in Item : InsertEnd(i) \/ Remove(i) \/ \E v \in Value : Insert(i, v)
  \/ GetOwnerOfNextEntry

ListsSpec == ListsInit /\ [][ListsNext]_vars

-----------------------------------------------------------------------------
(* Properties. *)

On(l) == {i \in Item : container[i] = l}

(* The nodes reached from l in at most n steps *)
Reached(l, n) ==
  LET walk[m \in Nat] ==
        IF m = 0 THEN {l} ELSE walk[m - 1] \cup {links.next[x] : x \in walk[m - 1]}
  IN  walk[n]

(* Each list is one ring through its end marker and exactly the items that *)
(* say they are on it, the two directions agree, the number is right, and  *)
(* pxIndex stays in the ring, whatever was removed from under it.          *)
RingsWellFormed ==
  /\ \A l \in List :
       /\ number[l] = Cardinality(On(l))
       /\ Reached(l, number[l]) = On(l) \cup {l}
       /\ \A n \in On(l) \cup {l} : links.prev[links.next[n]] = n
  /\ index \in On(Ready) \cup {Ready}

(* The sorted list has ascending values, and items of the same value in    *)
(* the order in which they came: those of the greatest value too, which    *)
(* the end marker also has.                                                *)
SortedByValueThenAge ==
  \A i \in On(Sorted) :
    LET n == links.next[i]
    IN  n = Sorted \/ value[i] < value[n] \/ (value[i] = value[n] /\ <<i, n>> \in older)

(* No ready task is passed over: while one waits for its turn no other has *)
(* more than two, though tasks leave the list and join it again.           *)
TurnsAreFair == \A i, j \in Item : turns[i][j] <= 2

=============================================================================
