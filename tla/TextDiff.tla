------------------------------ MODULE TextDiff ------------------------------
(***************************************************************************)
(* diff_middle and set_text of src/src/text.rs: how a new text is turned   *)
(* into one deletion and one insertion on the document.                    *)
(*                                                                         *)
(* A text is a sequence of characters.  Positions in the document count    *)
(* UTF-16 code units, of which a character has one or two.                 *)
(***************************************************************************)
EXTENDS Naturals, Sequences, FiniteSetsExt

CONSTANT Code(_)   \* the code units of a character: one, or a surrogate pair

---------------------------------------------------------------------------
(* encode_utf16.                                                           *)

\* The number of code units of the first n characters.
Width(text, n) == n + Cardinality({i \in 1..n : Len(Code(text[i])) = 2})

\* The number of characters before the first one that begins at or after a
\* code unit offset.
CharBoundary(text, offset) ==
  Min({n \in 0..Len(text) : Width(text, n) >= offset})

\* The code units of a text.
Encoded(text) ==
  [j \in 1..Width(text, Len(text)) |->
     LET k == CharBoundary(text, j)
     IN  Code(text[k])[j - Width(text, k - 1)]]

---------------------------------------------------------------------------
(* diff_middle: `old' is a sequence of code units, `new' a text.           *)

CommonPrefix(old, new) ==
  Max({n \in 0..Len(new) : n <= Len(old) /\ \A i \in 1..n : old[i] = new[i]})

\* The suffix does not overlap the prefix.
CommonSuffix(old, new, prefix) ==
  Max({n \in 0..Len(new) :
         /\ n + prefix <= Len(old) /\ n + prefix <= Len(new)
         /\ \A i \in 0..n-1 : old[Len(old) - i] = new[Len(new) - i]})

\* Remove `remove' units after the first `start' ones, insert `insert' there.
DiffMiddle(old, new) ==
  LET u == Encoded(new)
      prefix == CommonPrefix(old, u)
      suffix == CommonSuffix(old, u, prefix)
  IN  [start  |-> prefix,
       remove |-> Len(old) - prefix - suffix,
       insert |-> SubSeq(new, CharBoundary(new, prefix) + 1,
                              CharBoundary(new, Len(u) - suffix))]

\* The code units of the document after set_text.
SetText(old, new) ==
  LET d == DiffMiddle(old, new)
  IN  SubSeq(old, 1, d.start) \o Encoded(d.insert) \o SubSeq(old, d.start + d.remove + 1, Len(old))

============================================================================
