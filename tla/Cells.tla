-------------------------------- MODULE Cells --------------------------------
(***************************************************************************)
(* Byte strings under stream ciphers, for both formats of this repository. *)
(* A string is a sequence of cells, a cell being a text and the set of     *)
(* pads that hide it.  A pad is a key and a place of its keystream, and    *)
(* the same pad applied again removes itself, as with exclusive or.        *)
(***************************************************************************)
EXTENDS Integers, SequencesExt

cell(text) == [text |-> text, pads |-> {}]
zeros(n) == [i \in 1..n |-> cell(<<"zero">>)]

\* The keystream of a key from a place on.
keystream(key, place, length) == [i \in 1..length |-> <<key, place + i>>]

xor(cells, pads) ==
  [i \in DOMAIN cells |-> [cells[i] EXCEPT !.pads = SymDiff(@, {pads[i]})]]

take(cells, n) == SubSeq(cells, 1, n)
drop(cells, n) == SubSeq(cells, n + 1, Len(cells))

\* A cell is as it was written.
plain(c, kind) == c.pads = {} /\ c.text[1] = kind
=============================================================================
