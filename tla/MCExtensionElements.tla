------------------------ MODULE MCExtensionElements ------------------------
(* Elements at and beyond the limits of either format, whose data looks like *)
(* padding and like other elements; and every short run of a few bytes.      *)
EXTENDS ExtensionElements

CONSTANTS MaxForeign    \* bound: bytes of an extension of another's making

SomeElements ==
  {[id |-> 1, data |-> <<0>>], [id |-> 14, data |-> <<16, 240, 0>>],
   [id |-> 15, data |-> <<1>>], [id |-> 0, data |-> <<0>>],
   [id |-> 255, data |-> <<>>], [id |-> 2, data |-> <<>>],
   [id |-> 256, data |-> <<>>]}
  \cup {[id |-> 3, data |-> [i \in 1 .. n |-> 2]] : n \in {16, 17, 255, 256}}

(* 0, an identifier 0 with a length, small elements, and the reserved one.   *)
SomeBytes == {0, 1, 16, 18, 240}

SomeProfiles == {OneByteMagic, TwoByteValue, TwoByteValue + 5, 4660}

AllForeign ==
  [profile: SomeProfiles, data: BoundedSeq(SomeBytes, MaxForeign)]
=============================================================================
