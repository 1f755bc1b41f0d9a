------------------------------ MODULE SendBuffer ------------------------------
(***************************************************************************)
(* SendBuffer: the cached output as a linked list with one item for each   *)
(* append, an alternative to SendBufferTrivial with the same interface.    *)
(* An item is named by the position of its first byte in the stream of     *)
(* everything appended; heap holds the items allocated and not deleted.    *)
(*                                                                         *)
(* data(length) shows what is left of the first item; the caller sends     *)
(* some of it and advances by that.  Overrun is by how much a caller may   *)
(* advance beyond what data showed it; BufferedSender never does.          *)
(***************************************************************************)
EXTENDS Integers

CONSTANTS
  MaxLen,    \* what one append brings at most
  MaxBytes,  \* bound on all that is appended
  Overrun,   \* how far advance may be called beyond data(length)
  NULL       \* no item

ASSUME SendBufferAssumption ==
  /\ MaxLen \in Nat /\ MaxBytes \in Nat /\ Overrun \in Nat
  /\ NULL \notin Nat

VARIABLES
  heap,        \* the items: length, offset and next
  mItemFirst, mItemLast,
  appended,    \* history: how much was appended
  sent,        \* history: how much the caller advanced by or cleared
  overran      \* history: it advanced beyond data(length)

vars == <<heap, mItemFirst, mItemLast, appended, sent, overran>>

Init ==
  /\ heap = [a \in {} |-> NULL]
  /\ mItemFirst = NULL /\ mItemLast = NULL
  /\ appended = 0 /\ sent = 0 /\ overran = FALSE

(* What data(length) and size() tell.                                      *)
size == IF mItemFirst = NULL THEN 0
        ELSE heap[mItemFirst].length - heap[mItemFirst].offset

-----------------------------------------------------------------------------
\* Mutant: an append of nothing makes an item too.
IgnoresNone(n) == FALSE
Ignores(n) == n = 0

bufferItem(n) == [length |-> n, offset |-> 0, next |-> NULL]

(* mItemFirst after an append.                                             *)
\* Mutant: the new item always becomes the first.
FirstAlways == appended
First == IF mItemFirst = NULL THEN appended ELSE mItemFirst

append(n) ==
  /\ ~ Ignores(n) /\ appended + n <= MaxBytes
  /\ heap' = [a \in DOMAIN heap \cup {appended} |->
                IF a = appended THEN bufferItem(n)
                ELSE IF a = mItemLast THEN [heap[a] EXCEPT !.next = appended]
                ELSE heap[a]]
  /\ mItemFirst' = First
  /\ mItemLast' = appended
  /\ appended' = appended + n
  /\ UNCHANGED <<sent, overran>>

(* mItemLast when the first item is deleted and next follows it.           *)
\* Mutant: it keeps pointing to the deleted item.
LastKept(next) == mItemLast
Last(next) == IF next = NULL THEN NULL ELSE mItemLast

(* advance cuts n to what is left of the first item.  An empty buffer is   *)
(* left alone.                                                             *)
\* Mutant: one byte short.
TakenShort(n) == IF n < size THEN n ELSE size - 1
Taken(n) == IF n <= size THEN n ELSE size

advance(n) ==
  LET first == mItemFirst
      next == heap[first].next
  IN  /\ first # NULL
      /\ \/ /\ Taken(n) < size
            /\ heap' = [heap EXCEPT ![first].offset = @ + Taken(n)]
            /\ UNCHANGED <<mItemFirst, mItemLast>>
         \/ /\ Taken(n) = size
            /\ heap' = [a \in DOMAIN heap \ {first} |-> heap[a]]
            /\ mItemFirst' = next
            /\ mItemLast' = Last(next)
      /\ sent' = sent + n /\ overran' = (overran \/ n > size)
      /\ UNCHANGED appended

(* mClear deletes what can be reached from the first item.                 *)
Reachable ==
  {a \in DOMAIN heap :
     \A S \in SUBSET DOMAIN heap :
       mItemFirst \in S /\ (\A b \in S : heap[b].next \in S \cup {NULL})
         => a \in S}

clear ==
  /\ heap' = [a \in DOMAIN heap \ Reachable |-> heap[a]]
  /\ mItemFirst' = NULL /\ mItemLast' = NULL
  /\ sent' = appended /\ overran' = FALSE
  /\ UNCHANGED appended

Next ==
  \/ \E n \in 0 .. MaxLen : append(n)
  \/ \E n \in 0 .. size + Overrun : advance(n)
  \/ clear

Spec == Init /\ [][Next]_vars

-----------------------------------------------------------------------------
(* Correctness.                                                            *)

(* The list is whole: its ends are items or both NULL, every item but the  *)
(* last is followed by the item of the next append, nothing deleted can be *)
(* reached (mItemLast->next is written at send_buffer.cpp:64) and nothing  *)
(* allocated is out of reach.                                              *)
ListWhole ==
  /\ mItemFirst = NULL <=> heap = [a \in {} |-> NULL]
  /\ mItemLast = NULL <=> mItemFirst = NULL
  /\ mItemFirst # NULL =>
       /\ mItemFirst \in DOMAIN heap /\ mItemLast \in DOMAIN heap
       /\ \A a \in DOMAIN heap :
            /\ mItemFirst <= a
            /\ a = mItemLast => heap[a].next = NULL
            /\ a # mItemLast => /\ heap[a].next = a + heap[a].length
                                /\ heap[a].next \in DOMAIN heap

(* No item is ever used up and kept: while there is one, data(length)      *)
(* shows at least one byte.  Otherwise send would be called with nothing   *)
(* to send and the loops of BufferedSender would not end.                  *)
NoEmptyItem ==
  \A a \in DOMAIN heap :
    /\ heap[a].offset < heap[a].length
    /\ a # mItemFirst => heap[a].offset = 0

(* The first byte not yet sent, and the string of SendBufferTrivial.       *)
Head == IF mItemFirst = NULL THEN appended
        ELSE mItemFirst + heap[mItemFirst].offset

(* What the caller sent is what is gone, unless it advanced beyond         *)
(* data(length) since the last clear: the bytes it is shown next are those *)
(* that follow.                                                            *)
SentIsGone == ~ overran => Head = sent

(* SendBuffer implements SendBufferTrivial.                                *)
Trivial == INSTANCE SendBufferTrivial WITH head <- Head, tail <- appended
ImplementsTrivial == Trivial!Spec
=============================================================================
