-------------------------------- MODULE KList --------------------------------
(***************************************************************************)
(* The circular doubly linked lists of k_list.h, as sequences.  A list     *)
(* that has a head node (the waiters of a blocking object, the tick list)  *)
(* is the sequence of its elements from head->next to head->prev.  A ready *)
(* list has no head node: its sequence starts at the element that          *)
(* cur_list_item points to.                                                *)
(***************************************************************************)
EXTENDS Integers, SequencesExt

\* klist_insert(head, element), head being the node in front of which the
\* element goes: position i of the sequence (Len(s) + 1 is the head node).
klist_insert(s, i, e) == InsertAt(s, i, e)

\* klist_rm(element): unlink e, which must be linked into s.
klist_rm(s, e) == RemoveAt(s, CHOOSE i \in DOMAIN s : s[i] = e)

\* The node at which a sorted insertion stops: the first position in I, or
\* the head node when the scan runs off the list.
ScanStop(s, I) == IF I = {} THEN Len(s) + 1 ELSE Min(I)

\* Rotation: the list of which the second element becomes the first.
klist_rotate(s) == Append(Tail(s), Head(s))
=============================================================================
