-------------------------------- MODULE Strings --------------------------------
(***************************************************************************)
(* kernel/src/strings.c on C strings: arrays of characters, indexed from   *)
(* 0, of which only what stands before the first NUL counts.  The loops    *)
(* are stated by the place at which they stop.                             *)
(***************************************************************************)
EXTENDS Integers, SequencesExt

CONSTANT NUL   \* '\0'

\* A string literal.
Literal(word) == [i \in 0 .. Len(word) |-> IF i = Len(word) THEN NUL ELSE word[i + 1]]

\* The characters that a loop up to '\0' sees, from index i on.
From(array, i) ==
  LET ends == {j \in DOMAIN array : j >= i /\ array[j] = NUL}
      stop == IF ends = {} THEN Cardinality(DOMAIN array) ELSE Min(ends)
  IN  [k \in 1 .. stop - i |-> array[i + k - 1]]

SameBefore(left, right, i) == \A j \in 0 .. i - 1 : left[j] = right[j] /\ left[j] # NUL

\* TRUE iff string_compare returns 0: both end at the same place.
string_compare(left, right) ==
  \E i \in DOMAIN left \cap DOMAIN right :
    left[i] = NUL /\ right[i] = NUL /\ SameBefore(left, right, i)

\* The prefix ends before a difference is met.
string_starts_with(text, prefix) ==
  \E i \in DOMAIN text \cap DOMAIN prefix :
    prefix[i] = NUL /\ SameBefore(text, prefix, i)
=============================================================================
