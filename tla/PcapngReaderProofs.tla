------------------------- MODULE PcapngReaderProofs -------------------------
(* What PcapngReader's run shows for files of four blocks, for files of any  *)
(* blocks and any length.                                                    *)
(*                                                                           *)
(* The heart of it is that what a reader yields and what it keeps depend on  *)
(* the file and on how far it has come, not on its mode: the interfaces are  *)
(* the readable ones of the section, in order, and the packets are those     *)
(* that can be attributed to one of them.  The mode only decides where the   *)
(* reader stops.                                                             *)
EXTENDS PcapngReader, FiniteSetTheorems, SequenceTheorems, TLAPS

(* The interfaces that a packet at i may refer to.                           *)
Known(f, i) ==
  {j \in 1 .. i - 1 : /\ f[j].kind = "IDB"
                      /\ f[j].valid
                      /\ \A k \in j + 1 .. i - 1 : f[k].kind # "SHB"}

KnownBefore(f, j, i) == {k \in Known(f, i) : k < j}

Number(f, j, i) == Cardinality(KnownBefore(f, j, i))

(* interfaces holds them in the order of their blocks.                       *)
IsTable(f, interfaces, i) ==
  /\ Len(interfaces) = Cardinality(Known(f, i))
  /\ \A n \in 1 .. Len(interfaces) :
       \E j \in Known(f, i) : /\ Number(f, j, i) = n - 1
                              /\ interfaces[n] = f[j].link

(* Block i holds a packet of one of them.                                    *)
Accepted(f, i) ==
  /\ f[i].kind \in {"EPB", "SPB"}
  /\ f[i].valid
  /\ f[i].kind = "EPB" => f[i].iface < Cardinality(Known(f, i))

InterfaceNumber(b) == IF b.kind = "EPB" THEN b.iface ELSE 0

(* That interface is the packet's.                                           *)
Attributed(f, packet) ==
  \/ \E j \in Known(f, packet.block) :
       /\ Number(f, j, packet.block) = InterfaceNumber(f[packet.block])
       /\ packet.link = f[j].link
  \/ /\ f[packet.block].kind = "SPB"
     /\ packet.link = NoLink
     /\ Known(f, packet.block) = {}

(* What a reader has yielded are the accepted blocks before its offset.      *)
YieldedAccepted(f, r) ==
  \A p \in 1 .. Len(r.yielded) :
    /\ r.yielded[p].block \in 1 .. r.offset - 1
    /\ Accepted(f, r.yielded[p].block)
    /\ Attributed(f, r.yielded[p])

YieldedInOrder(r) ==
  \A p, q \in 1 .. Len(r.yielded) :
    p < q => r.yielded[p].block < r.yielded[q].block

YieldedAll(f, r) ==
  \A j \in 1 .. r.offset - 1 :
    Accepted(f, j) => \E p \in 1 .. Len(r.yielded) : r.yielded[p].block = j

(* What can be read of a file was readable.                                  *)
Passable(b) ==
  /\ b.length = "fits"
  /\ b.kind # "STUB"
  /\ b.kind = "SHB" => b.valid

Passed(f, r) ==
  /\ r.offset =< Len(f) + 1
  /\ r.order = (r.offset > 1)
  /\ r.offset > 1 => f[1].kind = "SHB"
  /\ \A j \in 1 .. r.offset - 1 : Passable(f[j])

(* Strict mode leaves nothing behind.                                        *)
NothingSkipped(f, r) ==
  \A j \in 1 .. r.offset - 1 :
    /\ f[j].kind = "IDB" => f[j].valid
    /\ f[j].kind \in {"EPB", "SPB"} => Accepted(f, j)

(* Why a reader may end where no malformed block is.                         *)
NoWayOn(f, i) ==
  \/ i > Len(f)
  \/ ~Passable(f[i])
  \/ i = 1 /\ f[1].kind # "SHB"

Ending(f, m, r) ==
  /\ m = "strict" /\ r.status = "done" => f # <<>> /\ r.offset > Len(f)
  /\ m = "lenient" /\ r.status # "reading" => NoWayOn(f, r.offset)
  /\ f # <<>> /\ r.offset > Len(f) => r.status # "raised"

ReaderInv(f, m, r) ==
  /\ IsTable(f, r.interfaces, r.offset)
  /\ YieldedAccepted(f, r)
  /\ YieldedInOrder(r)
  /\ YieldedAll(f, r)
  /\ Passed(f, r)
  /\ m = "strict" => NothingSkipped(f, r)
  /\ Ending(f, m, r)

(* The reader that is behind has yielded a beginning of what the other has.  *)
Agree(a, b) ==
  a.offset =< b.offset =>
    /\ Len(a.yielded) =< Len(b.yielded)
    /\ \A p \in 1 .. Len(a.yielded) : b.yielded[p] = a.yielded[p]

IInv ==
  /\ TypeOK
  /\ \A m \in Mode : ReaderInv(file, m, reader[m])
  /\ \A m, n \in Mode : Agree(reader[m], reader[n])

----------------------------------------------------------------------------
(* The two kinds of steps of a reader: it ends where it is, or it passes the *)
(* block at its offset.                                                      *)
Ends(f, m, r, s) ==
  /\ r.status = "reading"
  /\ s.status \in {"done", "raised"}
  /\ s.offset = r.offset
  /\ s.order = r.order
  /\ s.interfaces = r.interfaces
  /\ s.yielded = r.yielded
  /\ Ending(f, m, s)

Passes(f, m, r, s) ==
  LET b == f[r.offset]
      malformed == Malformed(b, r.interfaces)
  IN  /\ r.offset =< Len(f)
      /\ Passable(b)
      /\ r.order \/ b.kind = "SHB"
      /\ m = "strict" => ~malformed
      /\ s.status = "reading"
      /\ s.offset = r.offset + 1
      /\ s.order
      /\ s.interfaces = IF b.kind = "SHB" THEN <<>>
                        ELSE IF b.kind = "IDB" /\ b.valid
                             THEN Append(r.interfaces, b.link)
                             ELSE r.interfaces
      /\ s.yielded = IF b.kind \in {"EPB", "SPB"} /\ ~malformed
                     THEN Append(r.yielded,
                                 [block |-> r.offset,
                                  link  |-> LinkOf(b, r.interfaces)])
                     ELSE r.yielded

LEMMA BlockFields ==
  ASSUME NEW f \in Seq(Block), NEW i \in 1 .. Len(f)
  PROVE  /\ f[i] \in Block
         /\ f[i] \in BlockType
         /\ f[i].kind \in {"SHB", "IDB", "EPB", "SPB", "OTHER", "STUB"}
         /\ f[i].length \in {"fits", "short", "overruns"}
         /\ f[i].valid \in BOOLEAN
         /\ f[i].iface \in Nat
         /\ f[i].kind = "IDB" => f[i].link \in Link
<1>1. f[i] \in Block
  OBVIOUS
<1>2. f[i] \in BlockType
  BY <1>1, PcapngReaderAssumption
<1> QED BY <1>1, <1>2, PcapngReaderAssumption DEF BlockType

LEMMA ReaderFields ==
  ASSUME NEW r \in Reader
  PROVE  /\ r.status \in {"reading", "done", "raised"}
         /\ r.offset \in Nat \ {0}
         /\ r.order \in BOOLEAN
         /\ r.interfaces \in Seq(Link)
         /\ r.yielded \in Seq(Packet)
BY DEF Reader

(* A packet that is not malformed refers to an interface that is known.      *)
LEMMA LinkIsKnown ==
  ASSUME NEW b \in BlockType, NEW interfaces \in Seq(Link),
         b.kind \in {"EPB", "SPB"}, ~Malformed(b, interfaces)
  PROVE  LinkOf(b, interfaces) \in Link \cup {NoLink}
<1>1. CASE b.kind = "EPB"
  <2>1. b.iface \in Nat /\ b.iface < Len(interfaces)
    BY <1>1, LenProperties DEF Malformed, BlockType
  <2>2. b.iface + 1 \in 1 .. Len(interfaces)
    BY <2>1, LenProperties
  <2> QED BY <1>1, <2>2, ElementOfSeq DEF LinkOf
<1>2. CASE b.kind = "SPB" /\ interfaces # <<>>
  <2>1. 1 \in 1 .. Len(interfaces)
    BY <1>2, LenProperties, EmptySeq
  <2> QED BY <1>2, <2>1, ElementOfSeq DEF LinkOf
<1>3. CASE b.kind = "SPB" /\ interfaces = <<>>
  BY <1>3 DEF LinkOf
<1> QED BY <1>1, <1>2, <1>3

(* Every step is of one of the two kinds, and of one reader.                 *)
LEMMA Steps ==
  ASSUME TypeOK, NEW m \in Mode, ReadBlock(m), Passed(file, reader[m])
  PROVE  \E s \in Reader :
           /\ reader' = [reader EXCEPT ![m] = s]
           /\ file' = file
           /\ Ends(file, m, reader[m], s) \/ Passes(file, m, reader[m], s)
<1> DEFINE r == reader[m]
           s == reader'[m]
<1>1. file \in Seq(Block) /\ reader \in [Mode -> Reader] /\ r \in Reader
  BY DEF TypeOK
<1>2. file' = file
  BY DEF ReadBlock
<1>3. m = "strict" \/ m = "lenient"
  BY DEF Mode
<1>4. ASSUME NEW status \in {"done", "raised"}, r.status = "reading",
             reader' = [reader EXCEPT ![m].status = status],
             \A t \in Reader :
               t.status = status /\ t.offset = r.offset => Ending(file, m, t)
      PROVE  \E t \in Reader :
               /\ reader' = [reader EXCEPT ![m] = t]
               /\ file' = file
               /\ Ends(file, m, r, t) \/ Passes(file, m, r, t)
  <2> DEFINE t == [r EXCEPT !.status = status]
  <2>1. t \in Reader /\ reader' = [reader EXCEPT ![m] = t]
    BY <1>1, <1>4 DEF Reader
  <2>2. Ends(file, m, r, t)
    BY <1>1, <1>4 DEF Ends, Reader
  <2> QED BY <1>2, <2>1, <2>2
<1>5. r.offset \in Nat \ {0} /\ r.offset + 1 \in Nat \ {0} /\ Len(file) \in Nat /\ block(m) = file[r.offset]
  BY <1>1, ReaderFields, LenProperties DEF block
<1>6. CASE EndOfFile(m)
  <2>1. CASE file = <<>>
    BY <1>3, <1>4, <1>5, <1>6, <2>1 DEF EndOfFile, Raise, Ending, NoWayOn
  <2>2. CASE file # <<>>
    BY <1>3, <1>4, <1>5, <1>6, <2>2 DEF EndOfFile, Ending, NoWayOn
  <2> QED BY <1>2, <2>1, <2>2
<1>7. CASE ShortTail(m)
  BY <1>3, <1>4, <1>5, <1>7
  DEF ShortTail, AtBlock, Raise, Refuse, Ending, NoWayOn, Passable
<1>8. CASE InvalidByteOrderMagic(m)
  <2>1. /\ r.status = "reading"
        /\ r.offset =< Len(file)
        /\ reader' = [reader EXCEPT ![m].status = "raised"]
        /\ NoWayOn(file, r.offset)
    BY <1>1, <1>5, <1>8, BlockFields
    DEF InvalidByteOrderMagic, AtBlock, Raise, NoWayOn, Passable
  <2>3. ASSUME NEW t \in Reader, t.offset = r.offset,
               t.status = "raised"
        PROVE  Ending(file, m, t)
    <3>1. NoWayOn(file, t.offset) /\ t.offset =< Len(file)
      BY <2>1, <2>1, <2>3
    <3> QED BY <1>3, <1>5, <2>3, <3>1 DEF Ending
  <2> QED BY <1>3, <1>4, <2>1, <2>3
<1>9. CASE MissingSectionHeader(m)
  <2>1. /\ r.status = "reading"
        /\ r.offset =< Len(file)
        /\ reader' = [reader EXCEPT ![m].status = "raised"]
        /\ ~r.order /\ file[r.offset].kind # "SHB"
    BY <1>5, <1>9 DEF MissingSectionHeader, AtBlock, Raise
  <2>2. NoWayOn(file, r.offset)
    BY <1>1, <1>5, <2>1, ReaderFields DEF NoWayOn, Passed
  <2>3. ASSUME NEW t \in Reader, t.offset = r.offset,
               t.status = "raised"
        PROVE  Ending(file, m, t)
    <3>1. NoWayOn(file, t.offset) /\ t.offset =< Len(file)
      BY <2>1, <2>2, <2>3
    <3> QED BY <1>3, <1>5, <2>3, <3>1 DEF Ending
  <2> QED BY <1>3, <1>4, <2>1, <2>3
<1>10. CASE BlockUnavailable(m)
  <2>1. /\ r.status = "reading"
        /\ r.offset =< Len(file)
        /\ reader' = [reader EXCEPT ![m].status =
                         IF m = "strict" THEN "raised" ELSE "done"]
        /\ NoWayOn(file, r.offset)
    BY <1>5, <1>10
    DEF BlockUnavailable, Readable, AtBlock, Unavailable, Refuse, NoWayOn, Passable
  <2>3. ASSUME NEW t \in Reader, t.offset = r.offset,
               t.status = IF m = "strict" THEN "raised" ELSE "done"
        PROVE  Ending(file, m, t)
    <3>1. NoWayOn(file, t.offset) /\ t.offset =< Len(file)
      BY <2>1, <2>1, <2>3
    <3> QED BY <1>3, <1>5, <2>3, <3>1 DEF Ending
  <2> QED BY <1>3, <1>4, <2>1, <2>3
<1>11. ASSUME Readable(m), ~Unavailable(block(m))
      PROVE  /\ r.status = "reading"
             /\ r.offset \in 1 .. Len(file)
             /\ Passable(file[r.offset])
             /\ r.order \/ file[r.offset].kind = "SHB"
             /\ BlockEnd(m) = r.offset + 1
  BY <1>1, <1>5, <1>11, BlockFields
  DEF Readable, AtBlock, Unavailable, Passable, BlockEnd, Mode
<1>12. ASSUME NEW t \in Reader,
             reader' = [reader EXCEPT ![m] = t],
             Passes(file, m, r, t)
      PROVE  \E u \in Reader :
               /\ reader' = [reader EXCEPT ![m] = u]
               /\ file' = file
               /\ Ends(file, m, r, u) \/ Passes(file, m, r, u)
  BY <1>2, <1>12
<1>13. CASE SectionHeader(m)
  <2> DEFINE t == [r EXCEPT !.order = TRUE, !.interfaces = <<>>,
                            !.offset = r.offset + 1]
  <2>1. /\ Readable(m) /\ ~Unavailable(block(m))
        /\ file[r.offset].kind = "SHB"
        /\ reader' = [reader EXCEPT ![m] = t]
    BY <1>1, <1>5, <1>11, <1>13 DEF SectionHeader, Reader
  <2>2. t \in Reader
    BY <1>1, <1>5, EmptySeq DEF Reader
  <2>3. Passes(file, m, r, t)
    BY <1>1, <1>5, <1>11, <2>1 DEF Passes, Malformed, Reader
  <2> QED BY <1>12, <2>1, <2>2, <2>3
<1>14. CASE MalformedBlock(m)
  <2>1. CASE m = "strict"
    BY <1>4, <1>5, <1>11, <1>14, <2>1
    DEF MalformedBlock, Raise, Ending
  <2>2. CASE m = "lenient"
    <3> DEFINE t == [r EXCEPT !.offset = r.offset + 1]
    <3>1. /\ Readable(m) /\ ~Unavailable(block(m))
          /\ Malformed(file[r.offset], r.interfaces)
          /\ reader' = [reader EXCEPT ![m] = t]
      BY <1>1, <1>5, <1>11, <1>14, <2>2 DEF MalformedBlock, Reader
    <3>2. t \in Reader
      BY <1>1, <1>5 DEF Reader
    <3>3. Passes(file, m, r, t)
      BY <1>1, <1>5, <1>11, <2>2, <3>1 DEF Passes, Malformed, Reader
    <3> QED BY <1>12, <3>1, <3>2, <3>3
  <2> QED BY <1>3, <2>1, <2>2
<1>15. CASE InterfaceDescription(m)
  <2> DEFINE t == [r EXCEPT !.interfaces = Append(r.interfaces, file[r.offset].link),
                            !.offset = r.offset + 1]
  <2>1. /\ Readable(m) /\ ~Unavailable(block(m))
        /\ file[r.offset].kind = "IDB"
        /\ ~Malformed(file[r.offset], r.interfaces)
        /\ reader' = [reader EXCEPT ![m] = t]
    BY <1>1, <1>5, <1>11, <1>15 DEF InterfaceDescription, Reader
  <2>2. t \in Reader
    BY <1>1, <1>5, <1>11, <2>1, BlockFields, AppendProperties DEF Reader
  <2>3. Passes(file, m, r, t)
    BY <1>1, <1>5, <1>11, <2>1 DEF Passes, Malformed, Reader, Passed
  <2> QED BY <1>12, <2>1, <2>2, <2>3
<1>16. CASE YieldPacket(m)
  <2> DEFINE packet == [block |-> r.offset, link |-> LinkOf(file[r.offset], r.interfaces)]
             t == [r EXCEPT !.yielded = Append(r.yielded, packet),
                            !.offset = r.offset + 1]
  <2>1. /\ Readable(m) /\ ~Unavailable(block(m))
        /\ file[r.offset].kind \in {"EPB", "SPB"}
        /\ ~Malformed(file[r.offset], r.interfaces)
        /\ reader' = [reader EXCEPT ![m] = t]
    BY <1>1, <1>5, <1>11, <1>16 DEF YieldPacket, Reader
  <2>2. packet \in Packet
    BY <1>1, <1>5, <1>11, <2>1, ReaderFields, BlockFields, LinkIsKnown DEF Packet
  <2>3. t \in Reader
    BY <1>1, <1>5, <2>2, AppendProperties DEF Reader
  <2>4. Passes(file, m, r, t)
    BY <1>1, <1>5, <1>11, <2>1 DEF Passes, Malformed, Reader, Passed
  <2> QED BY <1>12, <2>1, <2>3, <2>4
<1>17. CASE UnknownBlock(m)
  <2> DEFINE t == [r EXCEPT !.offset = r.offset + 1]
  <2>1. /\ Readable(m) /\ ~Unavailable(block(m))
        /\ file[r.offset].kind = "OTHER"
        /\ reader' = [reader EXCEPT ![m] = t]
    BY <1>1, <1>5, <1>11, <1>17 DEF UnknownBlock, Reader
  <2>2. t \in Reader
    BY <1>1, <1>5 DEF Reader
  <2>3. Passes(file, m, r, t)
    BY <1>1, <1>5, <1>11, <2>1 DEF Passes, Malformed, Reader, Passed
  <2> QED BY <1>12, <2>1, <2>2, <2>3
<1> QED
  BY <1>6, <1>7, <1>8, <1>9, <1>10, <1>13, <1>14, <1>15, <1>16, <1>17
  DEF ReadBlock

----------------------------------------------------------------------------
(* Counting interfaces.                                                      *)
LEMMA KnownIsFinite ==
  ASSUME NEW f, NEW i \in Nat
  PROVE  /\ IsFiniteSet(Known(f, i))
         /\ Cardinality(Known(f, i)) \in Nat
<1>1. IsFiniteSet(1 .. i - 1)
  BY FS_Interval
<1>2. Known(f, i) \in SUBSET (1 .. i - 1)
  BY DEF Known
<1>3. IsFiniteSet(Known(f, i))
  BY <1>1, <1>2, FS_Subset
<1> QED BY <1>3, FS_CardinalityType

LEMMA NumberInRange ==
  ASSUME NEW f, NEW i \in Nat, NEW j \in Known(f, i)
  PROVE  /\ IsFiniteSet(KnownBefore(f, j, i))
         /\ Number(f, j, i) \in Nat
         /\ Number(f, j, i) < Cardinality(Known(f, i))
<1>1. KnownBefore(f, j, i) \in SUBSET Known(f, i)
  BY DEF KnownBefore
<1>2. j \notin KnownBefore(f, j, i)
  BY DEF KnownBefore, Known
<1>3. /\ IsFiniteSet(KnownBefore(f, j, i))
      /\ Cardinality(KnownBefore(f, j, i)) =< Cardinality(Known(f, i))
      /\ Cardinality(KnownBefore(f, j, i)) # Cardinality(Known(f, i))
  BY <1>1, <1>2, KnownIsFinite, FS_Subset
<1>4. Number(f, j, i) \in Nat
  BY <1>3, FS_CardinalityType DEF Number
<1> QED BY <1>3, <1>4, KnownIsFinite DEF Number

(* No two interfaces have the same number.                                   *)
LEMMA NumberGrows ==
  ASSUME NEW f, NEW i \in Nat, NEW j \in Known(f, i), NEW k \in Known(f, i), j < k
  PROVE  Number(f, j, i) < Number(f, k, i)
<1> DEFINE S == KnownBefore(f, j, i)
           T == KnownBefore(f, k, i)
<1>1. j \in Nat /\ k \in Nat
  BY DEF Known
<1>2. S \in SUBSET T
  BY <1>1 DEF KnownBefore, Known
<1>3. j \in T /\ j \notin S
  BY <1>1 DEF KnownBefore
<1>4. IsFiniteSet(T) /\ Cardinality(S) \in Nat /\ Cardinality(T) \in Nat
  BY NumberInRange DEF Number
<1>5. Cardinality(S) =< Cardinality(T) /\ Cardinality(S) # Cardinality(T)
  BY <1>2, <1>3, <1>4, FS_Subset
<1> QED BY <1>4, <1>5 DEF Number

LEMMA NumberIdentifies ==
  ASSUME NEW f, NEW i \in Nat, NEW j \in Known(f, i), NEW k \in Known(f, i),
         Number(f, j, i) = Number(f, k, i)
  PROVE  j = k
<1>1. j \in Nat /\ k \in Nat
  BY DEF Known
<1>2. ~(j < k) /\ ~(k < j)
  BY NumberGrows, NumberInRange
<1> QED BY <1>1, <1>2

(* A section header forgets the interfaces, a readable interface description *)
(* adds the one with the next number, nothing else changes them.             *)
LEMMA KnownAfter ==
  ASSUME NEW f \in Seq(Block), NEW i \in 1 .. Len(f)
  PROVE  /\ f[i].kind = "SHB" => Known(f, i + 1) = {}
         /\ f[i].kind = "IDB" /\ f[i].valid =>
              /\ i \notin Known(f, i)
              /\ Known(f, i + 1) = Known(f, i) \cup {i}
         /\ f[i].kind # "SHB" /\ ~(f[i].kind = "IDB" /\ f[i].valid) =>
              Known(f, i + 1) = Known(f, i)
<1>1. i \in Nat \ {0} /\ (i + 1) - 1 = i
  OBVIOUS
<1>2. CASE f[i].kind = "SHB"
  <2>1. ASSUME NEW j \in Known(f, i + 1)
        PROVE  FALSE
    <3>1. j \in 1 .. i /\ f[j].kind = "IDB" /\ \A k \in j + 1 .. i : f[k].kind # "SHB"
      BY <1>1, <2>1 DEF Known
    <3>2. i \notin j + 1 .. i
      BY <1>2, <3>1
    <3>3. j = i
      BY <1>1, <3>1, <3>2
    <3> QED BY <1>2, <3>1, <3>3
  <2> QED BY <1>2, <2>1
<1>3. CASE f[i].kind # "SHB"
  <2>1. ASSUME NEW j \in 1 .. i - 1
        PROVE  j \in Known(f, i + 1) <=> j \in Known(f, i)
    <3>1. j \in 1 .. i /\ j + 1 .. i = (j + 1 .. i - 1) \cup {i}
      BY <1>1
    <3>2. (\A k \in j + 1 .. i : f[k].kind # "SHB")
             <=> (\A k \in j + 1 .. i - 1 : f[k].kind # "SHB")
      BY <1>3, <3>1
    <3> QED BY <1>1, <2>1, <3>1, <3>2 DEF Known
  <2>2. i \notin Known(f, i)
    BY <1>1 DEF Known
  <2>3. i \in Known(f, i + 1) <=> f[i].kind = "IDB" /\ f[i].valid
    BY <1>1 DEF Known
  <2>4. Known(f, i) \subseteq 1 .. i - 1 /\ Known(f, i + 1) \subseteq (1 .. i - 1) \cup {i}
    BY <1>1 DEF Known
  <2> QED BY <1>3, <2>1, <2>2, <2>3, <2>4
<1> QED BY <1>2, <1>3

(* So the table of interfaces stays what it is said to be.                   *)
LEMMA TableAfter ==
  ASSUME NEW f \in Seq(Block), NEW i \in 1 .. Len(f),
         NEW t \in Seq(Link), IsTable(f, t, i)
  PROVE  /\ f[i].kind = "SHB" => IsTable(f, <<>>, i + 1)
         /\ f[i].kind = "IDB" /\ f[i].valid =>
              IsTable(f, Append(t, f[i].link), i + 1)
         /\ f[i].kind # "SHB" /\ ~(f[i].kind = "IDB" /\ f[i].valid) =>
              IsTable(f, t, i + 1)
<1>0. i \in Nat /\ i + 1 \in Nat
  OBVIOUS
<1>1. CASE f[i].kind = "SHB"
  <2>1. Known(f, i + 1) = {}
    BY <1>1, KnownAfter
  <2>2. Len(<<>>) = 0 /\ Cardinality({}) = 0
    BY FS_EmptySet, EmptySeq
  <2>3. 1 .. Len(<<>>) = {}
    BY <2>2
  <2>4. IsTable(f, <<>>, i + 1)
    BY Zenon, <2>1, <2>2, <2>3 DEF IsTable
  <2> QED BY <1>1, <2>4
<1>2. CASE f[i].kind = "IDB" /\ f[i].valid
  <2> DEFINE u == Append(t, f[i].link)
             c == Cardinality(Known(f, i))
  <2>1. i \notin Known(f, i) /\ Known(f, i + 1) = Known(f, i) \cup {i}
    BY <1>2, KnownAfter
  <2>2. c \in Nat /\ Cardinality(Known(f, i + 1)) = c + 1
    BY <1>0, <2>1, KnownIsFinite, FS_AddElement
  <2>3. f[i].link \in Link
    BY <1>2, BlockFields
  <2>4. Len(t) = c /\ Len(u) = c + 1 /\ u[c + 1] = f[i].link
    BY <2>2, <2>3, AppendProperties DEF IsTable
  <2>5. \A n \in 1 .. c : u[n] = t[n]
    BY <2>3, <2>4, AppendProperties
  <2>6. \A j \in Known(f, i) : j \in Nat /\ j < i
    BY DEF Known
  <2>7. \A j \in Known(f, i) : KnownBefore(f, j, i + 1) = KnownBefore(f, j, i)
    BY <1>0, <2>1, <2>6 DEF KnownBefore
  <2>8. KnownBefore(f, i, i + 1) = Known(f, i)
    BY <1>0, <2>1, <2>6 DEF KnownBefore
  <2> HIDE DEF u
  <2>9. ASSUME NEW n \in 1 .. c + 1
        PROVE  \E j \in Known(f, i + 1) : /\ Number(f, j, i + 1) = n - 1
                                          /\ u[n] = f[j].link
    <3>1. CASE n \in 1 .. c
      <4>1. PICK j \in Known(f, i) : Number(f, j, i) = n - 1 /\ t[n] = f[j].link
        BY <2>4, <3>1 DEF IsTable
      <4>2. Number(f, j, i + 1) = n - 1
        BY <2>7, <4>1 DEF Number
      <4> QED BY <2>1, <2>5, <3>1, <4>1, <4>2
    <3>2. CASE n = c + 1
      <4>1. Number(f, i, i + 1) = n - 1
        BY <2>2, <2>8, <3>2 DEF Number
      <4> QED BY <2>1, <2>4, <3>2, <4>1
    <3> QED BY <2>2, <3>1, <3>2
  <2>10. IsTable(f, u, i + 1)
    BY <2>2, <2>4, <2>9 DEF IsTable
  <2> QED BY <1>2, <2>10 DEF u
<1>3. CASE f[i].kind # "SHB" /\ ~(f[i].kind = "IDB" /\ f[i].valid)
  <2>1. Known(f, i + 1) = Known(f, i)
    BY <1>3, KnownAfter
  <2>2. \A j : Number(f, j, i + 1) = Number(f, j, i)
    BY <2>1 DEF Number, KnownBefore
  <2> QED BY <1>3, <2>1, <2>2 DEF IsTable
<1> QED BY <1>1, <1>2, <1>3

(* A reader with that table takes a packet block exactly if it is accepted,  *)
(* and with its interface.                                                   *)
LEMMA TableDecides ==
  ASSUME NEW f \in Seq(Block), NEW i \in 1 .. Len(f),
         NEW t \in Seq(Link), IsTable(f, t, i)
  PROVE  Accepted(f, i) <=> f[i].kind \in {"EPB", "SPB"} /\ ~Malformed(f[i], t)
<1>1. Len(t) = Cardinality(Known(f, i)) /\ Len(t) \in Nat
  BY LenProperties DEF IsTable
<1>2. f[i].iface \in Nat /\ f[i].valid \in BOOLEAN
  BY BlockFields
<1> QED BY <1>1, <1>2 DEF Accepted, Malformed

LEMMA TableAttributes ==
  ASSUME NEW f \in Seq(Block), NEW i \in 1 .. Len(f),
         NEW t \in Seq(Link), IsTable(f, t, i), Accepted(f, i)
  PROVE  Attributed(f, [block |-> i, link |-> LinkOf(f[i], t)])
<1> DEFINE packet == [block |-> i, link |-> LinkOf(f[i], t)]
           n == InterfaceNumber(f[i])
<1>1. Len(t) = Cardinality(Known(f, i)) /\ Len(t) \in Nat
  BY LenProperties DEF IsTable
<1>2. f[i].iface \in Nat /\ n \in Nat
  BY BlockFields DEF InterfaceNumber
<1>3. CASE f[i].kind = "EPB" \/ t # <<>>
  <2>1. n + 1 \in 1 .. Len(t) /\ packet.link = t[n + 1]
    <3>1. CASE f[i].kind = "EPB"
      BY <1>1, <1>2, <3>1 DEF Accepted, LinkOf, InterfaceNumber
    <3>2. CASE f[i].kind = "SPB" /\ t # <<>>
      <4>1. Len(t) # 0
        BY <3>2, EmptySeq
      <4> QED BY <1>1, <3>2, <4>1 DEF LinkOf, InterfaceNumber
    <3> QED BY <1>3, <3>1, <3>2 DEF Accepted
  <2>2. PICK j \in Known(f, i) : Number(f, j, i) = (n + 1) - 1 /\ t[n + 1] = f[j].link
    BY <2>1 DEF IsTable
  <2>3. (n + 1) - 1 = n
    BY <1>2
  <2> QED BY <2>1, <2>2, <2>3 DEF Attributed
<1>4. CASE f[i].kind = "SPB" /\ t = <<>>
  <2>1. Cardinality(Known(f, i)) = 0
    BY <1>1, <1>4, EmptySeq
  <2>2. Known(f, i) = {}
    BY <2>1, KnownIsFinite, FS_EmptySet
  <2> QED BY <1>4, <2>2 DEF Attributed, LinkOf
<1> QED BY <1>3, <1>4 DEF Accepted

(* A block has one packet.                                                   *)
LEMMA AttributedOnce ==
  ASSUME NEW f \in Seq(Block), NEW p \in Packet, NEW q \in Packet,
         Attributed(f, p), Attributed(f, q), p.block = q.block
  PROVE  p = q
<1>1. p.block \in Nat
  BY DEF Packet
<1>2. p.link = q.link
  <2>1. CASE Known(f, p.block) = {}
    BY <2>1 DEF Attributed
  <2>2. CASE Known(f, p.block) # {}
    <3>1. PICK j \in Known(f, p.block) :
            /\ Number(f, j, p.block) = InterfaceNumber(f[p.block])
            /\ p.link = f[j].link
      BY <2>2 DEF Attributed
    <3>2. PICK k \in Known(f, p.block) :
            /\ Number(f, k, p.block) = InterfaceNumber(f[p.block])
            /\ q.link = f[k].link
      BY <2>2 DEF Attributed
    <3>3. j = k
      BY <1>1, <3>1, <3>2, NumberIdentifies
    <3> QED BY <3>1, <3>2, <3>3
  <2> QED BY <2>1, <2>2
<1> QED BY <1>2 DEF Packet

----------------------------------------------------------------------------
(* One step of one reader.                                                   *)
LEMMA EndsKeeps ==
  ASSUME NEW f \in Seq(Block), NEW m \in Mode, NEW r \in Reader, NEW s \in Reader,
         ReaderInv(f, m, r), Ends(f, m, r, s)
  PROVE  ReaderInv(f, m, s)
BY SMTT(40) DEF ReaderInv, Ends, YieldedAccepted, YieldedInOrder, YieldedAll, Passed,
                NothingSkipped

LEMMA PassesKeeps ==
  ASSUME NEW f \in Seq(Block), NEW m \in Mode, NEW r \in Reader, NEW s \in Reader,
         ReaderInv(f, m, r), Passes(f, m, r, s)
  PROVE  ReaderInv(f, m, s)
<1> DEFINE i == r.offset
           packet == [block |-> i, link |-> LinkOf(f[i], r.interfaces)]
<1>1. /\ i \in 1 .. Len(f)
      /\ i \in Nat
      /\ s.offset = i + 1
      /\ 1 .. s.offset - 1 = (1 .. i - 1) \cup {i}
      /\ r.interfaces \in Seq(Link)
      /\ r.yielded \in Seq(Packet)
  BY ReaderFields DEF Passes
<1>2. IsTable(f, r.interfaces, i)
  BY DEF ReaderInv
<1>3. IsTable(f, s.interfaces, s.offset)
  <2>1. CASE f[i].kind = "SHB"
    BY <1>1, <1>2, <2>1, TableAfter DEF Passes
  <2>2. CASE f[i].kind = "IDB" /\ f[i].valid
    BY <1>1, <1>2, <2>2, TableAfter DEF Passes
  <2>3. CASE f[i].kind # "SHB" /\ ~(f[i].kind = "IDB" /\ f[i].valid)
    BY <1>1, <1>2, <2>3, TableAfter DEF Passes
  <2> QED BY <2>1, <2>2, <2>3
<1>4. s.yielded = IF Accepted(f, i) THEN Append(r.yielded, packet) ELSE r.yielded
  BY <1>1, <1>2, TableDecides DEF Passes
<1>5. YieldedAccepted(f, r) /\ YieldedInOrder(r) /\ YieldedAll(f, r) /\ Passed(f, r)
  BY DEF ReaderInv
<1>6. YieldedAccepted(f, s) /\ YieldedInOrder(s) /\ YieldedAll(f, s)
  <2>1. CASE Accepted(f, i)
    <3> DEFINE n == Len(r.yielded)
    <3>1. n \in Nat
      BY <1>1, LenProperties
    <3>2. Attributed(f, packet)
      BY <1>1, <1>2, <2>1, TableAttributes
    <3>3. /\ Len(s.yielded) = n + 1
          /\ s.yielded[n + 1] = packet
          /\ \A p \in 1 .. n : s.yielded[p] = r.yielded[p]
      <4>1. packet \in Packet
        BY <1>1, <1>2, <2>1, ReaderFields, BlockFields, TableDecides, LinkIsKnown DEF Packet
      <4> HIDE DEF packet
      <4> QED BY <1>1, <1>4, <2>1, <4>1, AppendProperties
    <3>4. 1 .. Len(s.yielded) = (1 .. n) \cup {n + 1}
      BY <3>1, <3>3
    <3>5. packet.block = i
      OBVIOUS
    <3> HIDE DEF packet, n
    <3>6. YieldedAccepted(f, s)
      BY <1>1, <1>5, <2>1, <3>2, <3>3, <3>4, <3>5 DEF YieldedAccepted, n
    <3>7. YieldedInOrder(s)
      <4>1. \A p \in 1 .. n : s.yielded[p].block \in 1 .. i - 1
        BY <1>5, <3>3 DEF YieldedAccepted, n
      <4>2. \A p, q \in 1 .. n : p < q => s.yielded[p].block < s.yielded[q].block
        BY <1>5, <3>3 DEF YieldedInOrder, n
      <4>3. s.yielded[n + 1].block = i
        BY <3>3, <3>5
      <4>4. \A p \in 1 .. n : p \in Nat /\ p < n + 1 /\ ~(n + 1 < p)
        BY <3>1
      <4>5. ASSUME NEW p \in 1 .. Len(s.yielded), NEW q \in 1 .. Len(s.yielded), p < q
            PROVE  s.yielded[p].block < s.yielded[q].block
        <5>1. p \in 1 .. n
          BY <3>4, <4>4, <4>5
        <5>2. CASE q \in 1 .. n
          BY <4>2, <4>5, <5>1, <5>2
        <5>3. CASE q = n + 1
          BY <1>1, <4>1, <4>3, <5>1, <5>3
        <5> QED BY <3>4, <5>2, <5>3
      <4> QED BY <4>5 DEF YieldedInOrder
    <3>8. YieldedAll(f, s)
      <4>1. ASSUME NEW j \in 1 .. i - 1, Accepted(f, j)
            PROVE  \E p \in 1 .. Len(s.yielded) : s.yielded[p].block = j
        <5>1. PICK p \in 1 .. n : r.yielded[p].block = j
          BY <1>5, <4>1 DEF YieldedAll, n
        <5> QED BY <3>3, <3>4, <5>1
      <4>2. \E p \in 1 .. Len(s.yielded) : s.yielded[p].block = i
        BY <3>3, <3>4, <3>5
      <4> QED BY <1>1, <4>1, <4>2 DEF YieldedAll
    <3> QED BY <3>6, <3>7, <3>8
  <2>2. CASE ~Accepted(f, i)
    <3>1. s.yielded = r.yielded
      BY <1>4, <2>2
    <3>2. YieldedAccepted(f, s) /\ YieldedInOrder(s)
      BY <1>1, <1>5, <3>1 DEF YieldedAccepted, YieldedInOrder
    <3>3. YieldedAll(f, s)
      <4>1. \A j \in 1 .. i - 1 :
              Accepted(f, j) => \E p \in 1 .. Len(r.yielded) : r.yielded[p].block = j
        BY <1>5 DEF YieldedAll
      <4> QED BY <1>1, <2>2, <3>1, <4>1 DEF YieldedAll
    <3> QED BY <3>2, <3>3
  <2> QED BY <2>1, <2>2
<1>7. Passed(f, s)
  <2>1. f[1].kind = "SHB"
    <3>1. CASE i = 1
      BY <1>5, <3>1, ReaderFields DEF Passes, Passed
    <3>2. CASE i > 1
      BY <1>5, <3>2 DEF Passed
    <3> QED BY <1>1, <3>1, <3>2
  <2>2. s.offset =< Len(f) + 1 /\ s.offset > 1 /\ s.order
    BY <1>1 DEF Passes
  <2>3. \A j \in 1 .. s.offset - 1 : Passable(f[j])
    BY <1>1, <1>5 DEF Passes, Passed
  <2> QED BY <2>1, <2>2, <2>3, ReaderFields DEF Passed
<1>8. m = "strict" => NothingSkipped(f, s)
  <2> SUFFICES ASSUME m = "strict"
               PROVE  NothingSkipped(f, s)
    OBVIOUS
  <2>1. NothingSkipped(f, r)
    BY DEF ReaderInv
  <2>2. ~Malformed(f[i], r.interfaces)
    BY DEF Passes
  <2>3. /\ f[i].kind = "IDB" => f[i].valid
        /\ f[i].kind \in {"EPB", "SPB"} => Accepted(f, i)
    BY <1>1, <1>2, <2>2, TableDecides DEF Malformed
  <2> QED BY <1>1, <2>1, <2>3 DEF NothingSkipped
<1>9. Ending(f, m, s)
  BY DEF Ending, Passes
<1> QED BY <1>3, <1>6, <1>7, <1>8, <1>9 DEF ReaderInv

----------------------------------------------------------------------------
(* What the other reader has yielded beyond that is of blocks that the one   *)
(* behind has not come to.                                                   *)
LEMMA NextIsAhead ==
  ASSUME NEW f, NEW a \in Reader, NEW b \in Reader,
         YieldedAll(f, a), YieldedAccepted(f, b), YieldedInOrder(b),
         a.offset =< b.offset, Agree(a, b), Len(a.yielded) < Len(b.yielded)
  PROVE  /\ b.yielded[Len(a.yielded) + 1].block \in Nat
         /\ b.yielded[Len(a.yielded) + 1].block >= a.offset
<1> DEFINE l == Len(a.yielded)
           x == b.yielded[l + 1].block
<1>1. /\ a.offset \in Nat /\ b.offset \in Nat
      /\ l \in Nat /\ Len(b.yielded) \in Nat
  BY ReaderFields, LenProperties
<1>2. l + 1 \in 1 .. Len(b.yielded)
  BY <1>1
<1>3. x \in Nat \ {0} /\ Accepted(f, x)
  BY <1>1, <1>2 DEF YieldedAccepted
<1>4. ASSUME x < a.offset
      PROVE  FALSE
  <2>1. PICK p \in 1 .. l : a.yielded[p].block = x
    BY <1>1, <1>3, <1>4 DEF YieldedAll
  <2>2. p < l + 1 /\ p \in 1 .. Len(b.yielded)
    BY <1>1, <2>1
  <2>3. b.yielded[p].block < x
    BY <1>2, <2>2 DEF YieldedInOrder
  <2>4. b.yielded[p] = a.yielded[p]
    BY <2>1 DEF Agree
  <2> QED BY <1>3, <2>1, <2>3, <2>4
<1> QED BY <1>1, <1>3, <1>4

(* Readers that have come equally far have yielded the same.                 *)
LEMMA AgreeLevel ==
  ASSUME NEW f, NEW a \in Reader, NEW b \in Reader,
         YieldedAll(f, a), YieldedAccepted(f, b), YieldedInOrder(b),
         a.offset = b.offset, Agree(a, b)
  PROVE  a.yielded = b.yielded
<1>1. /\ a.offset \in Nat /\ Len(a.yielded) \in Nat /\ Len(b.yielded) \in Nat
      /\ a.yielded \in Seq(Packet) /\ b.yielded \in Seq(Packet)
  BY ReaderFields, LenProperties
<1>2. /\ Len(a.yielded) =< Len(b.yielded)
      /\ \A p \in 1 .. Len(a.yielded) : b.yielded[p] = a.yielded[p]
  BY <1>1 DEF Agree
<1>3. ASSUME Len(a.yielded) < Len(b.yielded)
      PROVE  FALSE
  <2>1. Len(a.yielded) + 1 \in 1 .. Len(b.yielded)
    BY <1>1, <1>3
  <2>2. b.yielded[Len(a.yielded) + 1].block < a.offset
    BY <1>1, <2>1 DEF YieldedAccepted
  <2>3. /\ b.yielded[Len(a.yielded) + 1].block \in Nat
        /\ b.yielded[Len(a.yielded) + 1].block >= a.offset
    BY <1>1, <1>3, NextIsAhead
  <2> QED BY <1>1, <2>2, <2>3
<1>4. Len(a.yielded) = Len(b.yielded)
  BY <1>1, <1>2, <1>3
<1> QED BY <1>1, <1>2, <1>4, SeqEqual

(* A step of the one behind.                                                 *)
LEMMA AgreeBehind ==
  ASSUME NEW f \in Seq(Block), NEW m \in Mode, NEW n \in Mode,
         NEW a \in Reader, NEW b \in Reader, NEW s \in Reader,
         ReaderInv(f, m, a), ReaderInv(f, m, s), ReaderInv(f, n, b),
         Agree(a, b), Passes(f, m, a, s)
  PROVE  Agree(s, b)
<1> DEFINE i == a.offset
           packet == [block |-> i, link |-> LinkOf(f[i], a.interfaces)]
           l == Len(a.yielded)
<1> SUFFICES ASSUME s.offset =< b.offset
             PROVE  /\ Len(s.yielded) =< Len(b.yielded)
                    /\ \A p \in 1 .. Len(s.yielded) : b.yielded[p] = s.yielded[p]
  BY DEF Agree
<1>1. /\ i \in 1 .. Len(f)
      /\ i \in Nat
      /\ b.offset \in Nat
      /\ s.offset = i + 1
      /\ i < b.offset
      /\ a.interfaces \in Seq(Link)
      /\ a.yielded \in Seq(Packet) /\ b.yielded \in Seq(Packet) /\ s.yielded \in Seq(Packet)
      /\ l \in Nat /\ Len(b.yielded) \in Nat
  <2>1. /\ i \in Nat \ {0} /\ b.offset \in Nat \ {0}
        /\ a.interfaces \in Seq(Link)
        /\ a.yielded \in Seq(Packet) /\ b.yielded \in Seq(Packet) /\ s.yielded \in Seq(Packet)
    BY ReaderFields
  <2>2. Len(f) \in Nat /\ l \in Nat /\ Len(b.yielded) \in Nat
    BY <2>1, LenProperties
  <2>3. i =< Len(f) /\ s.offset = i + 1
    BY DEF Passes
  <2> QED BY <2>1, <2>2, <2>3
<1>2. l =< Len(b.yielded) /\ \A p \in 1 .. l : b.yielded[p] = a.yielded[p]
  BY <1>1 DEF Agree
<1>3. IsTable(f, a.interfaces, i)
  BY DEF ReaderInv
<1>4. s.yielded = IF Accepted(f, i) THEN Append(a.yielded, packet) ELSE a.yielded
  BY <1>1, <1>3, TableDecides DEF Passes
<1>5. CASE ~Accepted(f, i)
  BY <1>2, <1>4, <1>5
<1>6. CASE Accepted(f, i)
  <2>1. PICK q \in 1 .. Len(b.yielded) : b.yielded[q].block = i
    <3>1. i \in 1 .. b.offset - 1
      BY <1>1
    <3> QED BY <1>6, <3>1 DEF ReaderInv, YieldedAll
  <2>2. packet \in Packet
    BY <1>1, <1>3, <1>6, ReaderFields, BlockFields, TableDecides, LinkIsKnown DEF Packet
  <2>3. Attributed(f, packet) /\ packet.block = i
    BY <1>1, <1>3, <1>6, TableAttributes
  <2> HIDE DEF packet
  <2>4. /\ Len(s.yielded) = l + 1
        /\ s.yielded[l + 1] = packet
        /\ \A p \in 1 .. l : s.yielded[p] = a.yielded[p]
    BY <1>1, <1>4, <1>6, <2>2, AppendProperties
  (* The other reader's packet of this block comes next.                     *)
  <2>5. q = l + 1
    <3>1. \A p \in 1 .. l : a.yielded[p].block \in 1 .. i - 1
      BY DEF ReaderInv, YieldedAccepted
    <3>2. ASSUME q =< l
          PROVE  FALSE
      <4>1. q \in 1 .. l
        BY <1>1, <2>1, <3>2, SMTT(40)
      <4>2. b.yielded[q] = a.yielded[q]
        BY <1>2, <4>1
      <4>3. a.yielded[q].block \in 1 .. i - 1
        BY <3>1, <4>1
      <4>4. i \in 1 .. i - 1
        BY <2>1, <4>2, <4>3
      <4> QED BY <1>1, <4>4
    <3>3. ASSUME q > l + 1
          PROVE  FALSE
      <4>1. l + 1 \in 1 .. Len(b.yielded)
        BY <1>1, <2>1, <3>3
      <4>2. b.yielded[l + 1].block \in Nat /\ b.yielded[l + 1].block >= i
        <5>1. YieldedAll(f, a) /\ YieldedAccepted(f, b) /\ YieldedInOrder(b)
          BY DEF ReaderInv
        <5>2. i =< b.offset /\ l < Len(b.yielded)
          BY <1>1, <4>1
        <5> QED BY <5>1, <5>2, NextIsAhead
      <4>3. b.yielded[l + 1].block < i
        BY <2>1, <3>3, <4>1 DEF ReaderInv, YieldedInOrder
      <4> QED BY <1>1, <4>2, <4>3
    <3>4. q \in Nat /\ l \in Nat
      BY <1>1, <2>1
    <3> HIDE DEF l
    <3> QED BY <3>2, <3>3, <3>4
  <2>6. b.yielded[l + 1] = packet
    <3>1. b.yielded[q] \in Packet
      BY <1>1, <2>1, ElementOfSeq
    <3>2. Attributed(f, b.yielded[q])
      BY <2>1 DEF ReaderInv, YieldedAccepted
    <3> QED BY <2>1, <2>2, <2>3, <2>5, <3>1, <3>2, AttributedOnce
  <2>7. \A p \in 1 .. l + 1 : b.yielded[p] = s.yielded[p]
    <3>1. 1 .. l + 1 = (1 .. l) \cup {l + 1}
      BY <1>1, SMTT(40)
    <3> QED BY <1>2, <2>4, <2>6, <3>1
  <2> QED BY <1>1, <2>1, <2>4, <2>5, <2>7
<1> QED BY <1>5, <1>6

(* A step of the one ahead.                                                  *)
LEMMA AgreeAhead ==
  ASSUME NEW f \in Seq(Block), NEW m \in Mode, NEW n \in Mode,
         NEW a \in Reader, NEW b \in Reader, NEW s \in Reader,
         ReaderInv(f, m, a), ReaderInv(f, m, s), ReaderInv(f, n, b),
         Agree(a, b), Agree(b, a), Passes(f, m, a, s)
  PROVE  Agree(b, s)
<1>1. /\ a.offset \in Nat /\ b.offset \in Nat /\ s.offset = a.offset + 1
      /\ a.yielded \in Seq(Packet)
      /\ Len(a.yielded) \in Nat /\ Len(b.yielded) \in Nat
  BY ReaderFields, LenProperties DEF Passes
<1>2. CASE b.offset =< a.offset
  <2>1. /\ Len(b.yielded) =< Len(a.yielded)
        /\ \A p \in 1 .. Len(b.yielded) : a.yielded[p] = b.yielded[p]
    BY <1>2 DEF Agree
  <2>2. /\ Len(a.yielded) =< Len(s.yielded)
        /\ \A p \in 1 .. Len(a.yielded) : s.yielded[p] = a.yielded[p]
    <3>1. CASE s.yielded = a.yielded
      BY <1>1, <3>1
    <3>2. CASE s.yielded # a.yielded
      <4> DEFINE packet == [block |-> a.offset,
                            link  |-> LinkOf(f[a.offset], a.interfaces)]
      <4>1. s.yielded = Append(a.yielded, packet)
        BY <3>2 DEF Passes
      <4>2. a.offset \in 1 .. Len(f) /\ f[a.offset] \in BlockType /\ a.interfaces \in Seq(Link)
        BY <1>1, ReaderFields, BlockFields DEF Passes
      <4>3. packet \in Packet
        BY <1>1, <3>2, <4>2, LinkIsKnown DEF Passes, Packet
      <4> HIDE DEF packet
      <4> QED BY <1>1, <4>1, <4>3, AppendProperties
    <3> QED BY <3>1, <3>2
  <2>3. Len(s.yielded) \in Nat
    BY ReaderFields, LenProperties
  <2> QED BY <1>1, <2>1, <2>2, <2>3 DEF Agree
<1>3. CASE b.offset > a.offset
  <2> SUFFICES ASSUME b.offset =< s.offset
               PROVE  Agree(b, s)
    BY DEF Agree
  <2>1. s.offset = b.offset
    BY <1>1, <1>3
  <2>2. Agree(s, b)
    BY AgreeBehind
  <2>3. s.yielded = b.yielded
    BY <2>1, <2>2, AgreeLevel DEF ReaderInv
  <2>4. Len(b.yielded) =< Len(b.yielded)
    BY <1>1
  <2> QED BY <2>3, <2>4 DEF Agree
<1> QED BY <1>1, <1>2, <1>3

LEMMA AgreeWithItself ==
  ASSUME NEW a \in Reader
  PROVE  Agree(a, a)
BY ReaderFields, LenProperties DEF Agree

----------------------------------------------------------------------------
(* The invariant holds of readers that have not read anything...             *)
LEMMA IInvInit == Init => IInv
<1> SUFFICES ASSUME Init
             PROVE  IInv
  OBVIOUS
<1>1. PICK size \in Nat : file \in [1 .. size -> Block]
  BY PcapngReaderAssumption DEF Init, File
<1>2. file \in Seq(Block)
  BY <1>1
<1>3. ASSUME NEW m \in Mode
      PROVE  /\ reader[m] = [status |-> "reading", offset |-> 1, order |-> FALSE,
                             interfaces |-> <<>>, yielded |-> <<>>]
             /\ reader[m] \in Reader
  BY EmptySeq DEF Init, Reader
<1>4. TypeOK
  BY <1>2, <1>3 DEF TypeOK, Init
<1>5. ASSUME NEW m \in Mode
      PROVE  ReaderInv(file, m, reader[m])
  <2> DEFINE r == reader[m]
  <2>1. /\ r.offset = 1 /\ r.order = FALSE /\ r.status = "reading"
        /\ r.interfaces = <<>> /\ r.yielded = <<>>
    BY <1>3
  <2>2. Len(<<>>) = 0 /\ 1 .. Len(<<>>) = {} /\ 1 .. 1 - 1 = {}
    BY EmptySeq
  <2>3. Known(file, 1) = {} /\ Cardinality({}) = 0
    BY <2>2, FS_EmptySet DEF Known
  <2> HIDE DEF r
  <2>4. IsTable(file, r.interfaces, r.offset)
    BY Zenon, <2>1, <2>2, <2>3 DEF IsTable
  <2>5. YieldedAccepted(file, r) /\ YieldedInOrder(r) /\ YieldedAll(file, r)
    BY Zenon, <2>1, <2>2 DEF YieldedAccepted, YieldedInOrder, YieldedAll
  <2>6. NothingSkipped(file, r)
    BY Zenon, <2>1, <2>2 DEF NothingSkipped
  <2>7. Passed(file, r)
    <3>1. Len(file) \in Nat
      BY <1>2, LenProperties
    <3>2. 1 =< Len(file) + 1 /\ ~(1 > 1) /\ 1 .. 1 - 1 = {}
      BY <3>1
    <3>3. r.offset =< Len(file) + 1 /\ ~(r.offset > 1) /\ ~r.order
          /\ 1 .. r.offset - 1 = {}
      BY Zenon, <2>1, <3>2
    <3>4. (r.offset > 1) = FALSE
      BY <2>1
    <3> QED BY Zenon, <2>1, <3>3, <3>4 DEF Passed
  <2>8. Ending(file, m, r)
    BY <2>1 DEF Ending
  <2> QED BY <2>4, <2>5, <2>6, <2>7, <2>8 DEF ReaderInv, r
<1>6. \A m, n \in Mode : Agree(reader[m], reader[n])
  BY <1>3, AgreeWithItself
<1> QED BY <1>4, <1>5, <1>6 DEF IInv

(* ... and is kept by every step.                                            *)
LEMMA IInvStep == IInv /\ [Next]_vars => IInv'
<1> SUFFICES ASSUME IInv, [Next]_vars
             PROVE  IInv'
  OBVIOUS
<1>1. CASE Next
  <2>1. PICK m \in Mode : ReadBlock(m)
    BY <1>1 DEF Next
  <2> DEFINE a == reader[m]
  <2>2. TypeOK /\ file \in Seq(Block) /\ reader \in [Mode -> Reader]
    BY DEF IInv, TypeOK
  <2>3. /\ \A n \in Mode : reader[n] \in Reader /\ ReaderInv(file, n, reader[n])
        /\ \A k, n \in Mode : Agree(reader[k], reader[n])
    BY <2>2 DEF IInv
  <2>4. PICK s \in Reader :
          /\ reader' = [reader EXCEPT ![m] = s]
          /\ file' = file
          /\ Ends(file, m, a, s) \/ Passes(file, m, a, s)
    BY <2>1, <2>2, <2>3, Steps DEF ReaderInv
  <2>5. reader'[m] = s /\ \A n \in Mode \ {m} : reader'[n] = reader[n]
    BY <2>2, <2>4
  <2>6. TypeOK'
    BY <2>2, <2>4 DEF TypeOK
  <2>7. ReaderInv(file, m, s)
    BY <2>2, <2>3, <2>4, EndsKeeps, PassesKeeps
  <2>8. ASSUME NEW n \in Mode
        PROVE  Agree(s, reader[n]) /\ Agree(reader[n], s)
    <3>1. CASE Ends(file, m, a, s)
      BY <2>3, <3>1 DEF Ends, Agree
    <3>2. CASE Passes(file, m, a, s)
      BY <2>2, <2>3, <2>7, <3>2, AgreeBehind, AgreeAhead
    <3> QED BY <2>4, <3>1, <3>2
  <2>9. \A n \in Mode : ReaderInv(file, n, reader'[n])
    BY <2>3, <2>5, <2>7
  <2>10. \A k, n \in Mode : Agree(reader'[k], reader'[n])
    BY <2>3, <2>5, <2>8, AgreeWithItself
  <2> QED BY <2>4, <2>6, <2>9, <2>10 DEF IInv
<1>2. CASE UNCHANGED vars
  BY <1>2 DEF IInv, TypeOK, vars
<1> QED BY <1>1, <1>2

(* Whatever the two readers have done, the invariant holds.                  *)
THEOREM IInvInvariant == Spec => []IInv
BY IInvInit, IInvStep, PTL DEF Spec

(* Types.                                                                    *)
THEOREM TypeInvariant == Spec => []TypeOK
<1>1. IInv => TypeOK
  BY DEF IInv
<1> QED BY <1>1, IInvInvariant, PTL

----------------------------------------------------------------------------
(* What the invariant says of the yielded packets, in the words of the       *)
(* properties.                                                               *)
LEMMA Facts ==
  ASSUME IInv, NEW m \in Mode
  PROVE  LET r == reader[m] IN
         /\ file \in Seq(Block)
         /\ r \in Reader
         /\ Len(file) \in Nat
         /\ r.offset \in Nat \ {0}
         /\ r.yielded \in Seq(Packet)
         /\ Len(r.yielded) \in Nat
         /\ DOMAIN r.yielded = 1 .. Len(r.yielded)
         /\ ReaderInv(file, m, r)
<1> DEFINE r == reader[m]
<1>1. file \in Seq(Block) /\ r \in Reader /\ ReaderInv(file, m, r)
  BY DEF IInv, TypeOK
<1>2. r.offset \in Nat \ {0} /\ r.yielded \in Seq(Packet)
  BY <1>1, ReaderFields
<1> QED BY <1>1, <1>2, LenProperties

LEMMA Modes == "strict" \in Mode /\ "lenient" \in Mode
BY DEF Mode

(* The interfaces of the section of a block that is not a section header.    *)
LEMMA SectionInterfaces ==
  ASSUME NEW i \in Nat \ {0}, file[i].kind # "SHB"
  PROVE  Known(file, i) = {j \in Section(i) : /\ j < i
                                             /\ file[j].kind = "IDB"
                                             /\ file[j].valid}
<1>1. ASSUME NEW j \in 1 .. i - 1
      PROVE  (\A k \in j + 1 .. i : file[k].kind # "SHB")
               <=> (\A k \in j + 1 .. i - 1 : file[k].kind # "SHB")
  <2>1. j + 1 .. i = (j + 1 .. i - 1) \cup {i}
    OBVIOUS
  <2> QED BY <2>1
<1>2. \A j \in 1 .. i : j < i <=> j \in 1 .. i - 1
  OBVIOUS
<1> QED BY <1>1, <1>2 DEF Known, Section

(* Where every interface description was readable, they are what is declared.*)
LEMMA KnownAreDeclared ==
  ASSUME NEW i \in Nat \ {0}, file[i].kind # "SHB",
         \A j \in 1 .. i - 1 : file[j].kind = "IDB" => file[j].valid
  PROVE  \A j, n : Declares(j, n, i) <=> j \in Known(file, i) /\ Number(file, j, i) = n
<1>1. Known(file, i) = {k \in Section(i) : k < i /\ file[k].kind = "IDB"}
  <2>1. \A j \in Section(i) : j < i => j \in 1 .. i - 1
    BY DEF Section
  <2> QED BY <2>1, SectionInterfaces
<1> QED BY <1>1 DEF Declares, Number, KnownBefore

(* The strict reader has read every block it has passed: none was malformed, *)
(* none was skipped.                                                         *)
THEOREM StrictPasses == Spec => []StrictSkipsNothing
<1>1. ASSUME IInv
      PROVE  StrictSkipsNothing
  <2> DEFINE r == reader["strict"]
  <2>1. /\ file \in Seq(Block) /\ r.offset \in Nat /\ Len(file) \in Nat
        /\ DOMAIN r.yielded = 1 .. Len(r.yielded)
        /\ Passed(file, r) /\ NothingSkipped(file, r) /\ YieldedAll(file, r)
    BY <1>1, Facts, Modes DEF ReaderInv
  <2>2. ASSUME NEW i \in 1 .. Len(file), i < r.offset
        PROVE  /\ file[i].length = "fits"
               /\ file[i].kind \in {"SHB", "IDB", "EPB", "SPB"} => file[i].valid
               /\ file[i].kind \in {"EPB", "SPB"} =>
                    \E p \in DOMAIN r.yielded : r.yielded[p].block = i
    <3>1. i \in 1 .. r.offset - 1
      BY <2>1, <2>2
    <3>2. Passable(file[i])
      BY <2>1, <3>1 DEF Passed
    <3>3. /\ file[i].kind = "IDB" => file[i].valid
          /\ file[i].kind \in {"EPB", "SPB"} => Accepted(file, i)
      BY <2>1, <3>1 DEF NothingSkipped
    <3>4. Accepted(file, i) => \E p \in DOMAIN r.yielded : r.yielded[p].block = i
      BY <2>1, <3>1 DEF YieldedAll
    <3> QED BY <3>2, <3>3, <3>4 DEF Passable, Accepted
  <2> QED BY <2>2 DEF StrictSkipsNothing
<1> QED BY <1>1, IInvInvariant, PTL

(* It yields every packet with the interface its section declares for it.    *)
THEOREM StrictAttributes == Spec => []StrictAttribution
<1>1. ASSUME IInv
      PROVE  StrictAttribution
  <2> DEFINE r == reader["strict"]
  <2>1. /\ r.offset \in Nat
        /\ DOMAIN r.yielded = 1 .. Len(r.yielded)
        /\ YieldedAccepted(file, r) /\ NothingSkipped(file, r)
    BY <1>1, Facts, Modes DEF ReaderInv
  <2>2. ASSUME NEW i \in DOMAIN r.yielded,
               NEW packet, packet = r.yielded[i]
        PROVE  \/ \E j \in 1 .. packet.block :
                    /\ Declares(j, InterfaceNumber(file[packet.block]), packet.block)
                    /\ packet.link = file[j].link
               \/ /\ file[packet.block].kind = "SPB"
                  /\ packet.link = NoLink
                  /\ \A j \in 1 .. packet.block : ~Declares(j, 0, packet.block)
    <3> DEFINE b == packet.block
    <3>1. /\ b \in 1 .. r.offset - 1
          /\ file[b].kind \in {"EPB", "SPB"}
          /\ Attributed(file, packet)
      BY <2>1, <2>2 DEF YieldedAccepted, Accepted
    <3>2. b \in Nat \ {0} /\ \A j \in 1 .. b - 1 : j \in 1 .. r.offset - 1
      BY <2>1, <3>1
    <3>3. \A j \in 1 .. b - 1 : file[j].kind = "IDB" => file[j].valid
      BY <2>1, <3>2 DEF NothingSkipped
    <3>4. \A j, n : Declares(j, n, b) <=> j \in Known(file, b) /\ Number(file, j, b) = n
      BY <3>1, <3>2, <3>3, KnownAreDeclared
    <3>5. \A j \in Known(file, b) : j \in 1 .. b
      BY <3>2 DEF Known
    <3> QED BY <3>1, <3>4, <3>5 DEF Attributed
  <2> QED BY <2>2 DEF StrictAttribution, InterfaceNumber
<1> QED BY <1>1, IInvInvariant, PTL

(* The lenient reader has yielded every packet it could have attributed.     *)
THEOREM LenientPasses == Spec => []LenientSkipsOnlyMalformed
<1>1. ASSUME IInv
      PROVE  LenientSkipsOnlyMalformed
  <2> DEFINE l == reader["lenient"]
  <2>1. /\ l.offset \in Nat /\ Len(file) \in Nat
        /\ DOMAIN l.yielded = 1 .. Len(l.yielded)
        /\ YieldedAll(file, l)
    BY <1>1, Facts, Modes DEF ReaderInv
  <2>2. ASSUME NEW i \in 1 .. Len(file),
               i < l.offset,
               file[i].kind \in {"EPB", "SPB"},
               file[i].valid,
               file[i].kind = "EPB" =>
                 Cardinality({j \in Section(i) : /\ j < i
                                                 /\ file[j].kind = "IDB"
                                                 /\ file[j].valid}) > file[i].iface
        PROVE  \E p \in DOMAIN l.yielded : l.yielded[p].block = i
    <3>1. i \in 1 .. l.offset - 1 /\ i \in Nat \ {0}
      BY <2>1, <2>2
    <3>2. Known(file, i) = {j \in Section(i) : /\ j < i
                                              /\ file[j].kind = "IDB"
                                              /\ file[j].valid}
      BY <2>2, <3>1, SectionInterfaces
    <3>3. Accepted(file, i)
      BY <2>2, <3>2 DEF Accepted
    <3> QED BY <2>1, <3>1, <3>3 DEF YieldedAll
  <2> QED BY <2>2 DEF LenientSkipsOnlyMalformed
<1> QED BY <1>1, IInvInvariant, PTL

(* Whichever reader is behind has yielded the beginning of what the other    *)
(* one has.                                                                  *)
THEOREM ModesTellOneStory == Spec => []ModesAgree
<1>1. ASSUME NEW a \in Reader, NEW b \in Reader, a.offset =< b.offset, Agree(a, b)
      PROVE  IsPrefix(a.yielded, b.yielded)
  <2> DEFINE l == Len(a.yielded)
  <2>1. /\ a.yielded \in Seq(Packet) /\ b.yielded \in Seq(Packet)
        /\ l \in Nat /\ Len(b.yielded) \in Nat
    BY ReaderFields, LenProperties
  <2>2. l =< Len(b.yielded) /\ \A p \in 1 .. l : b.yielded[p] = a.yielded[p]
    BY <1>1 DEF Agree
  <2>3. /\ SubSeq(a.yielded, 1, l) = [p \in 1 .. l |-> a.yielded[p]]
        /\ SubSeq(b.yielded, 1, l) = [p \in 1 .. l |-> b.yielded[p]]
    BY <2>1, <2>2
  <2>4. SubSeq(a.yielded, 1, l) = SubSeq(b.yielded, 1, l)
    BY <2>2, <2>3
  <2> QED BY <2>2, <2>4 DEF IsPrefix
<1>2. ASSUME IInv
      PROVE  ModesAgree
  <2> DEFINE s == reader["strict"]
             l == reader["lenient"]
  <2>1. s \in Reader /\ l \in Reader /\ s.offset \in Nat /\ l.offset \in Nat
    BY <1>2, Facts, Modes
  <2>2. Agree(s, l) /\ Agree(l, s)
    BY <1>2, Modes DEF IInv
  <2> QED BY <1>1, <2>1, <2>2 DEF ModesAgree
<1> QED BY <1>2, IInvInvariant, PTL

(* Where strict mode gets through a file, lenient mode does, with the same   *)
(* packets; where lenient mode raises, strict mode does.                     *)
THEOREM LenientAccepts == Spec => []LenientLosesNothing
<1>1. ASSUME IInv, Ended("strict"), Ended("lenient")
      PROVE  /\ reader["strict"].status = "done" =>
                  /\ reader["lenient"].status = "done"
                  /\ reader["lenient"].yielded = reader["strict"].yielded
             /\ reader["lenient"].status = "raised" => reader["strict"].status = "raised"
  <2> DEFINE s == reader["strict"]
             l == reader["lenient"]
  <2>1. /\ s \in Reader /\ l \in Reader
        /\ s.offset \in Nat \ {0} /\ l.offset \in Nat \ {0} /\ Len(file) \in Nat
        /\ ReaderInv(file, "strict", s) /\ ReaderInv(file, "lenient", l)
    BY <1>1, Facts, Modes
  <2>2. /\ s.status \in {"done", "raised"} /\ l.status \in {"done", "raised"}
    BY <1>1, <2>1, ReaderFields DEF Ended
  <2>3. Passed(file, s) /\ Passed(file, l) /\ Ending(file, "strict", s) /\ Ending(file, "lenient", l)
    BY <2>1 DEF ReaderInv
  <2>4. ASSUME s.status = "done"
        PROVE  l.status = "done" /\ l.yielded = s.yielded
    <3>1. file # <<>> /\ s.offset = Len(file) + 1 /\ Len(file) # 0
      <4>1. file # <<>> /\ s.offset > Len(file) /\ s.offset =< Len(file) + 1
        BY <2>3, <2>4 DEF Ending, Passed
      <4>2. Len(file) # 0
        BY <1>1, <4>1, Facts, Modes, EmptySeq
      <4> QED BY <2>1, <4>1, <4>2
    <3>2. file[1].kind = "SHB" /\ \A j \in 1 .. Len(file) : Passable(file[j])
      BY <2>1, <2>3, <3>1 DEF Passed
    <3>3. NoWayOn(file, l.offset)
      BY <2>2, <2>3 DEF Ending
    <3>4. l.offset > Len(file)
      BY <2>1, <3>2, <3>3 DEF NoWayOn
    <3>5. l.offset = s.offset
      BY <2>1, <2>3, <3>1, <3>4 DEF Passed
    <3>6. l.status = "done"
      BY <2>2, <2>3, <3>1, <3>4 DEF Ending
    <3>7. Agree(s, l)
      BY <1>1, Modes DEF IInv
    <3>8. s.yielded = l.yielded
      BY <2>1, <3>5, <3>7, AgreeLevel DEF ReaderInv
    <3> QED BY <3>6, <3>8
  <2> QED BY <2>2, <2>4
<1>2. IInv => LenientLosesNothing
  BY <1>1 DEF LenientLosesNothing
<1> QED BY <1>2, IInvInvariant, PTL

(* Each step of a reader ends it or brings it one block further, and never   *)
(* beyond the end of the file: with the fairness of Spec, this is why every  *)
(* file is read to an end.                                                   *)
StepsForward ==
  [][\A m \in Mode : reader'[m] # reader[m] =>
       /\ \/ reader'[m].status \in {"done", "raised"}
          \/ reader'[m].offset = reader[m].offset + 1
       /\ reader'[m].offset =< Len(file) + 1]_vars

(* No step leaves a reader where it was.                                     *)
THEOREM ReadersAdvance == Spec => StepsForward
<1>1. ASSUME IInv, IInv', [Next]_vars, NEW m \in Mode, reader'[m] # reader[m]
      PROVE  /\ \/ reader'[m].status \in {"done", "raised"}
                \/ reader'[m].offset = reader[m].offset + 1
             /\ reader'[m].offset =< Len(file) + 1
  <2>1. PICK n \in Mode : ReadBlock(n)
    BY <1>1 DEF Next, vars
  <2>2. TypeOK /\ reader \in [Mode -> Reader] /\ Passed(file, reader[n])
    BY <1>1 DEF IInv, TypeOK, ReaderInv
  <2>3. PICK s \in Reader :
          /\ reader' = [reader EXCEPT ![n] = s]
          /\ file' = file
          /\ Ends(file, n, reader[n], s) \/ Passes(file, n, reader[n], s)
    BY <2>1, <2>2, Steps
  <2>4. m = n /\ reader'[m] = s
    BY <1>1, <2>2, <2>3
  <2>5. s.offset =< Len(file) + 1
    BY <1>1, <2>3, <2>4 DEF IInv, ReaderInv, Passed
  <2> QED BY <2>3, <2>4, <2>5 DEF Ends, Passes
<1>2. IInv /\ IInv' /\ [Next]_vars =>
        [\A m \in Mode : reader'[m] # reader[m] =>
           /\ \/ reader'[m].status \in {"done", "raised"}
              \/ reader'[m].offset = reader[m].offset + 1
           /\ reader'[m].offset =< Len(file) + 1]_vars
  BY <1>1
<1> QED BY <1>2, IInvInvariant, PTL DEF Spec, StepsForward

=============================================================================
