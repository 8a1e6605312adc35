------------------------------- MODULE PagePool -------------------------------
(***************************************************************************)
(* What a physical page allocator promises, with no bitmap, cursor or      *)
(* counter: a page is free or held by one client, never both; a request    *)
(* takes any free page and is refused only when none is free.              *)
(***************************************************************************)
CONSTANT Null          (* the answer to a refused request                  *)

VARIABLES
  open,                (* the pool has been filled                         *)
  free,                (* pages nobody holds                               *)
  held,                (* pages clients hold                               *)
  answer               (* what the last request returned                   *)

poolVars == <<open, free, held, answer>>

Init ==
  /\ open = FALSE
  /\ free = {}
  /\ held = {}
  /\ answer = Null

(* The pool is filled once, and never with the null page.                  *)
Fill ==
  /\ ~open
  /\ open' = TRUE
  /\ Null \notin free'
  /\ UNCHANGED <<held, answer>>

Take ==
  /\ open
  /\ answer' \in free
  /\ free' = free \ {answer'}
  /\ held' = held \cup {answer'}
  /\ UNCHANGED open

Refuse ==
  /\ open
  /\ free = {}
  /\ answer' = Null
  /\ UNCHANGED <<open, free, held>>

(* A client takes the free pages of a set of its choice.                   *)
Claim ==
  /\ open
  /\ free' \subseteq free
  /\ held' = held \cup (free \ free')
  /\ UNCHANGED <<open, answer>>

Return ==
  /\ open
  /\ held' \subseteq held
  /\ free' = free \cup (held \ held')
  /\ UNCHANGED <<open, answer>>

Next == Fill \/ Take \/ Refuse \/ Claim \/ Return

Spec == Init /\ [][Next]_poolVars

-----------------------------------------------------------------------------
(* No page is free and held at once, and nobody ever holds the null page:  *)
(* the promise BorrowPage makes to the page table code, which writes to    *)
(* the page it gets.                                                       *)
Exclusive ==
  /\ free \cap held = {}
  /\ Null \notin free \cup held
=============================================================================
