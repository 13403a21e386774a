------------------------------- MODULE Sublists -------------------------------
(***************************************************************************)
(* The part of a list that lies in a set, in the order of the list: what   *)
(* a loop computes that appends to its result each element that qualifies. *)
(***************************************************************************)
EXTENDS Naturals, Sequences

Sublist(list, S) ==
  LET upTo[i \in 0 .. Len(list)] ==
        IF i = 0 THEN <<>>
        ELSE IF list[i] \in S THEN Append(upTo[i - 1], list[i]) ELSE upTo[i - 1]
  IN upTo[Len(list)]

===============================================================================
