----------------------------- MODULE MCRtpWire -----------------------------
(* Requests at and beyond the limits of every field, and every datagram of   *)
(* up to 26 bytes whose layout is decided by a few values.                   *)
EXTENDS RtpWire

SomeVersions == {1, 2, 4}
SomeCsrc == {0, 1, 15, 16}
SomeExtBytes == {0, 4, 6}
SomePayloads == {0, 1, 5}
SomePaddings == {-1, 0, 1, 3, 255, 256}
SomeBytes == {0, 1, 4, 255}

(* Where the last byte belongs to the extension header it is the length.     *)
AllNoise ==
  {d \in [length:    0 .. 26,
          version:   {0, 2},
          padding:   BOOLEAN,
          extension: BOOLEAN,
          cc:        {0, 1, 3},
          ext_words: {0, 1, 2},
          last:      {0, 1, 2, 5, 255}] :
     d.extension /\ d.length = FixedHeaderSize + (4 * d.cc) + 4
       => d.last = d.ext_words}
=============================================================================
