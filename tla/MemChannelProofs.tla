-------------------------- MODULE MemChannelProofs --------------------------
(* Proofs about MemChannel, for blocks, records, buffers and transfers of any
   size. *)
EXTENDS MemChannel, TLAPS

(* Division with remainder, as TLA+ defines it. *)
LEMMA Division ==
    ASSUME NEW a \in Nat, NEW b \in Nat \ {0}
    PROVE  /\ a \div b \in Nat
           /\ (a % b) \in 0..b - 1
           /\ a = b * (a \div b) + (a % b)
  OBVIOUS

(* Products with a positive number are ordered as their other factors are. *)
LEMMA ProductOrder ==
    ASSUME NEW r \in Nat \ {0}, NEW a \in Int, NEW b \in Int
    PROVE  /\ r * a < r * b => a < b
           /\ r * a <= r * b => a <= b
  BY Z3

(* A multiple leaves no remainder. *)
LEMMA MultipleRemainder ==
    ASSUME NEW k \in Nat \ {0}, NEW m \in Nat
    PROVE  ((k * m) % k) = 0
<1>1. k * m \in Nat
  OBVIOUS
<1>2. ((k * m) % k) \in 0..k - 1 /\ (k * m) \div k \in Nat
      /\ k * m = k * ((k * m) \div k) + ((k * m) % k)
  BY <1>1, Division
<1> DEFINE d == (k * m) \div k
           r == (k * m) % k
<1>3. r = k * (m - d) /\ m - d \in Int
  BY <1>2, Z3
<1>4. k * (m - d) < k * 1 /\ k * (-1) < k * (m - d)
  BY <1>2, <1>3
<1>5. m - d < 1 /\ -1 < m - d
  BY <1>3, <1>4, ProductOrder
<1>6. m - d = 0
  BY <1>3, <1>5
<1>. QED
  BY <1>3, <1>6

(* A record is a whole number of blocks, at least two. *)
LEMMA RecordSize == Record \in Nat \ {0} /\ RECORDSIZE = BLOCKSIZE * Record
<1>1. /\ BLOCKSIZE \in Nat \ {0} /\ RECORDSIZE \in Nat \ {0}
      /\ (RECORDSIZE % BLOCKSIZE) = 0
  BY ChannelAssumption
<1>2. Record \in Nat /\ RECORDSIZE = BLOCKSIZE * Record + 0
  BY <1>1, Division DEF Record
<1>3. RECORDSIZE = BLOCKSIZE * Record
  BY <1>1, <1>2
<1>. QED
  BY <1>1, <1>2, <1>3

(* An archive is whole records: enough for its blocks and the two of zeros, and
   less than one record more. *)
LEMMA ArchiveSize ==
    ASSUME NEW blocks \in Nat
    PROVE  /\ ArchiveBytes(blocks) \in Nat
           /\ \E q \in Nat : ArchiveBytes(blocks) = RECORDSIZE * q
           /\ ArchiveBytes(blocks) >= (blocks + 2) * BLOCKSIZE
           /\ ArchiveBytes(blocks) < (blocks + 2) * BLOCKSIZE + RECORDSIZE
<1> DEFINE a == (blocks + 2) * BLOCKSIZE + RECORDSIZE - 1
           q == a \div RECORDSIZE
<1>1. BLOCKSIZE \in Nat /\ RECORDSIZE \in Nat \ {0}
  BY ChannelAssumption
<1>2. (blocks + 2) * BLOCKSIZE \in Nat
  BY <1>1
<1>3. a \in Nat
  BY <1>1, <1>2
<1>4. q \in Nat /\ (a % RECORDSIZE) \in 0..RECORDSIZE - 1
      /\ a = RECORDSIZE * q + (a % RECORDSIZE)
  BY <1>1, <1>3, Division
<1>5. ArchiveBytes(blocks) = RECORDSIZE * q
  BY DEF ArchiveBytes
<1>6. RECORDSIZE * q \in Nat
  BY <1>1, <1>4
<1> HIDE DEF q
<1>. QED
  BY <1>1, <1>2, <1>4, <1>5, <1>6

(* What is discarded completes the last record read. *)
LEMMA UnreadSize ==
    ASSUME NEW nread \in Nat
    PROVE  /\ Unread(nread) \in 0..RECORDSIZE - 1
           /\ \E m \in Nat : nread + Unread(nread) = RECORDSIZE * m
<1> DEFINE d == nread \div RECORDSIZE
           r == nread % RECORDSIZE
<1>1. RECORDSIZE \in Nat \ {0}
  BY ChannelAssumption
<1>2. d \in Nat /\ r \in 0..RECORDSIZE - 1 /\ nread = RECORDSIZE * d + r
  BY <1>1, Division
<1>3. CASE r = 0
  BY <1>1, <1>2, <1>3 DEF Unread
<1>4. CASE r # 0
  <2>1. Unread(nread) = RECORDSIZE - r
    BY <1>4 DEF Unread
  <2>2. nread + Unread(nread) = RECORDSIZE * (d + 1) /\ d + 1 \in Nat
    BY <1>1, <1>2, <2>1, Z3
  <2> HIDE DEF d, r
  <2>3. Unread(nread) \in 0..RECORDSIZE - 1
    BY <1>1, <1>2, <1>4, <2>1
  <2>. QED
    BY <2>2, <2>3
<1>. QED
  BY <1>3, <1>4

(* A reader that has seen the first block of zeros and discards the rest of its
   record stays inside the archive, and comes to its end, unless the archive's
   second block of zeros begins a record. *)
LEMMA DiscardEnds ==
    ASSUME NEW blocks \in Nat, NEW nread \in Nat,
           (blocks + 1) * BLOCKSIZE <= nread, nread <= ArchiveBytes(blocks)
    PROVE  /\ nread + Unread(nread) <= ArchiveBytes(blocks)
           /\ ~EndsShort(blocks) => nread + Unread(nread) = ArchiveBytes(blocks)
<1>1. BLOCKSIZE \in Nat \ {0} /\ RECORDSIZE \in Nat \ {0}
  BY ChannelAssumption
<1>2. PICK q \in Nat : ArchiveBytes(blocks) = RECORDSIZE * q
  BY ArchiveSize
<1>3. PICK m \in Nat : nread + Unread(nread) = RECORDSIZE * m
  BY UnreadSize
<1>4. Unread(nread) \in 0..RECORDSIZE - 1 /\ RECORDSIZE * m \in Nat /\ RECORDSIZE * q \in Nat
  BY <1>1, <1>2, <1>3, UnreadSize
<1>5. RECORDSIZE * m < RECORDSIZE * q + RECORDSIZE
  BY <1>1, <1>2, <1>3, <1>4
<1>6. RECORDSIZE * m < RECORDSIZE * (q + 1)
  BY <1>1, <1>4, <1>5
<1>7. m <= q
  BY <1>1, <1>6, ProductOrder
<1>8. RECORDSIZE * m <= RECORDSIZE * q
  BY <1>1, <1>7, Z3
<1>9. ASSUME m < q PROVE EndsShort(blocks)
  <2>1. RECORDSIZE * m + RECORDSIZE <= RECORDSIZE * q
    <3>1. q - (m + 1) \in Nat /\ RECORDSIZE * (q - (m + 1)) \in Nat
      BY <1>1, <1>9
    <3>2. RECORDSIZE * (q - (m + 1)) = RECORDSIZE * q - RECORDSIZE * m - RECORDSIZE
      BY <1>1, Z3
    <3>. QED
      BY <1>1, <1>4, <3>1, <3>2
  <2>2. (blocks + 2) * BLOCKSIZE \in Nat /\ (blocks + 1) * BLOCKSIZE \in Nat
    BY <1>1
  <2>3. RECORDSIZE * m < (blocks + 2) * BLOCKSIZE
    <3>1. RECORDSIZE * q < (blocks + 2) * BLOCKSIZE + RECORDSIZE
      BY <1>2, ArchiveSize
    <3>. QED
      BY <1>1, <1>4, <2>1, <2>2, <3>1
  <2>4. (blocks + 1) * BLOCKSIZE <= RECORDSIZE * m
    BY <1>3, <1>4, <2>2
  <2>5. Record \in Nat \ {0} /\ RECORDSIZE = BLOCKSIZE * Record
    BY RecordSize
  <2>6. RECORDSIZE * m = BLOCKSIZE * (Record * m) /\ Record * m \in Nat
    BY <1>1, <2>5, Z3
  <2>7. BLOCKSIZE * (Record * m) < BLOCKSIZE * (blocks + 2)
        /\ BLOCKSIZE * (blocks + 1) <= BLOCKSIZE * (Record * m)
    BY <1>1, <2>3, <2>4, <2>6
  <2>8. Record * m < blocks + 2 /\ blocks + 1 <= Record * m
    BY <1>1, <2>6, <2>7, ProductOrder
  <2>9. blocks + 1 = Record * m
    BY <2>6, <2>8
  <2>. QED
    BY <2>5, <2>9, MultipleRemainder DEF EndsShort
<1>. QED
  BY <1>2, <1>3, <1>4, <1>7, <1>8, <1>9

-----------------------------------------------------------------------------
(* Every step keeps the types, and the socket within its room. *)
LEMMA TypeStep ==
    ASSUME TypeOK, ChannelInv, [Next]_vars
    PROVE  TypeOK'
<1> USE ChannelAssumption DEF TypeOK, Sending, srcVars, Pending, UpTo
<1>1. CASE StartAcceptImages
  <2>1. PICK blocks \in Archives :
           /\ tar' = [st |-> "reading", from |-> sent, blocks |-> blocks,
                      nread |-> 0, rest |-> 0]
           /\ left' = ArchiveBytes(blocks)
    BY <1>1 DEF StartAcceptImages
  <2>2. blocks \in Nat /\ ArchiveBytes(blocks) \in Nat
    BY <2>1, ArchiveSize DEF Archives
  <2>. QED
    BY <1>1, <2>1, <2>2 DEF StartAcceptImages
<1>2. CASE Write
  BY <1>2 DEF Write
<1>3. CASE ArchiveWritten
  BY <1>3 DEF ArchiveWritten
<1>4. CASE StopAcceptImages
  BY <1>4 DEF StopAcceptImages
<1>5. CASE StartIter
  BY <1>5 DEF StartIter
<1>6. CASE DumpReturns
  BY <1>6 DEF DumpReturns, ChannelInv, ServerInStream
<1>7. CASE LastDumpDone
  BY <1>7 DEF LastDumpDone
<1>8. CASE GivesUp
  BY <1>8 DEF GivesUp
<1>9. CASE UntarReads
  BY <1>9 DEF UntarReads, Recv, Counted
<1>10. CASE UntarExtracted
  <2>1. Unread(tar.nread) \in Nat
    BY UnreadSize
  <2>2. tar' \in [st : {"none", "reading", "discarding", "done", "failed"},
                  from : Nat, blocks : Nat, nread : Nat, rest : Nat]
    BY <1>10, <2>1 DEF UntarExtracted
  <2>. QED
    BY <1>10, <2>2 DEF UntarExtracted
<1>11. CASE UntarDiscards
  <2>1. PICK n \in 1..(IF tar.rest <= sent - taken THEN tar.rest ELSE sent - taken) :
           /\ taken' = taken + n
           /\ tar' = [tar EXCEPT !.nread = tar.nread + n, !.rest = tar.rest - n,
                                 !.st = IF n = tar.rest THEN "done" ELSE "discarding"]
    BY <1>11 DEF UntarDiscards, Recv, Counted
  <2>2. n \in Nat /\ n <= tar.rest /\ n <= sent - taken
    BY <2>1
  <2>3. UNCHANGED <<pc, cpu, dumps, left, sent, server>>
    BY <1>11 DEF UntarDiscards, Recv
  <2>4. tar.nread + n \in Nat /\ tar.rest - n \in Nat
    BY <2>2
  <2>5. tar' \in [st : {"none", "reading", "discarding", "done", "failed"},
                  from : Nat, blocks : Nat, nread : Nat, rest : Nat]
    BY <2>1, <2>4
  <2>6. taken' \in Nat /\ sent - taken' \in 0..Room
    BY <2>1, <2>2
  <2>. QED
    BY <2>3, <2>5, <2>6
<1>12. CASE UntarReadsEOF
  BY <1>12 DEF UntarReadsEOF
<1>13. CASE UntarFails
  BY <1>13 DEF UntarFails
<1>14. CASE ServerReads
  BY <1>14 DEF ServerReads, Recv
<1>15. CASE ServerReadsEOF
  BY <1>15 DEF ServerReadsEOF
<1>16. CASE UNCHANGED vars
  BY <1>16 DEF vars
<1>. QED
  BY <1>1, <1>2, <1>3, <1>4, <1>5, <1>6, <1>7, <1>8, <1>9, <1>10, <1>11, <1>12, <1>13,
     <1>14, <1>15, <1>16
     DEF Next, SourceStep, UntarStep, ServerStep

(* Every step keeps each reader at its own bytes. *)
LEMMA ChannelStep ==
    ASSUME TypeOK, ChannelInv, [Next]_vars
    PROVE  ChannelInv'
<1>0. TypeOK'
  BY TypeStep
<1>a. ArchiveBytes(tar.blocks) \in Nat
  BY ArchiveSize DEF TypeOK
<1> USE <1>0, <1>a, ChannelAssumption DEF TypeOK, ChannelInv, QuietBetween, ArchiveInStream, UntarInStream,
       ServerInStream, Transfer, UntarActive, Sending, srcVars, Pending, UpTo
<1>1. CASE StartAcceptImages
  <2>1. PICK blocks \in Archives :
           /\ tar' = [st |-> "reading", from |-> sent, blocks |-> blocks,
                      nread |-> 0, rest |-> 0]
           /\ left' = ArchiveBytes(blocks)
    BY <1>1 DEF StartAcceptImages
  <2>2. ArchiveBytes(blocks) \in Nat
    BY <2>1, ArchiveSize DEF Archives
  <2>3. pc = "cpu_accept" => blocks = CpuBlocks
    BY <2>1 DEF Archives
  <2>4. taken = sent /\ server.left = 0
    BY <1>1 DEF StartAcceptImages
  <2>5. pc' = (IF pc = "cpu_accept" THEN "cpu_send" ELSE "img_send")
        /\ UNCHANGED <<sent, taken, server>>
    BY <1>1 DEF StartAcceptImages
  <2>. QED
    BY <2>1, <2>2, <2>3, <2>4, <2>5
<1>2. CASE Write
  BY <1>2 DEF Write
<1>3. CASE ArchiveWritten
  BY <1>3 DEF ArchiveWritten
<1>4. CASE StopAcceptImages
  <2>1. pc' = "iter_start" => pc = "cpu_stop" /\ tar.st = "done"
    BY <1>4 DEF StopAcceptImages, ThreadEnded
  <2>2. pc' = "iter_start" => taken = sent /\ left = 0 /\ server.left = 0
    <3>1. ~EndsShort(CpuBlocks)
      OBVIOUS
    <3>2. pc = "cpu_stop" => tar.blocks = CpuBlocks
      OBVIOUS
    <3>. QED
      BY <2>1, <3>1, <3>2
  <2>3. pc' \in {"iter_start", "ended"} /\ ~UntarActive
        /\ UNCHANGED <<left, sent, taken, tar, server>>
    BY <1>4 DEF StopAcceptImages, ThreadEnded
  <2>4. pc \notin {"dump"}
    BY <1>4 DEF StopAcceptImages
  <2>. QED
    BY <2>1, <2>2, <2>3, <2>4
<1>5. CASE StartIter
  BY <1>5 DEF StartIter
<1>6. CASE DumpReturns
  BY <1>6 DEF DumpReturns, ChannelInv, ServerInStream
<1>7. CASE LastDumpDone
  BY <1>7 DEF LastDumpDone
<1>8. CASE GivesUp
  BY <1>8 DEF GivesUp
<1>9. CASE UntarReads
  BY <1>9 DEF UntarReads, Recv, Counted
<1>10. CASE UntarExtracted
  <2>1. tar.st = "reading" /\ pc' = pc /\ UNCHANGED <<left, sent, taken, server>>
    BY <1>10 DEF UntarExtracted
  <2>2. tar.nread <= ArchiveBytes(tar.blocks)
    BY <2>1
  <2>3. (tar.blocks + 1) * BLOCKSIZE <= tar.nread
    BY <1>10 DEF UntarExtracted, Wanted
  <2>4. /\ tar.nread + Unread(tar.nread) <= ArchiveBytes(tar.blocks)
        /\ ~EndsShort(tar.blocks) => tar.nread + Unread(tar.nread) = ArchiveBytes(tar.blocks)
    BY <2>2, <2>3, DiscardEnds
  <2>5. /\ tar'.nread = tar.nread /\ tar'.blocks = tar.blocks /\ tar'.from = tar.from
        /\ tar'.rest = Unread(tar.nread)
        /\ tar'.st = IF Unread(tar.nread) = 0 THEN "done" ELSE "discarding"
    BY <1>10 DEF UntarExtracted
  <2>6. Unread(tar.nread) = 0 =>
          (~EndsShort(tar.blocks) => tar.nread = ArchiveBytes(tar.blocks))
    BY <2>4
  <2>. QED
    BY <2>1, <2>4, <2>5, <2>6
<1>11. CASE UntarDiscards
  BY <1>11 DEF UntarDiscards, Recv, Counted
<1>12. CASE UntarReadsEOF
  BY <1>12 DEF UntarReadsEOF
<1>13. CASE UntarFails
  BY <1>13 DEF UntarFails
<1>14. CASE ServerReads
  BY <1>14 DEF ServerReads, Recv
<1>15. CASE ServerReadsEOF
  BY <1>15 DEF ServerReadsEOF
<1>16. CASE UNCHANGED vars
  BY <1>16 DEF vars
<1>. QED
  BY <1>1, <1>2, <1>3, <1>4, <1>5, <1>6, <1>7, <1>8, <1>9, <1>10, <1>11, <1>12, <1>13,
     <1>14, <1>15, <1>16
     DEF Next, SourceStep, UntarStep, ServerStep

-----------------------------------------------------------------------------
(* A migration begins with an empty socket. *)
LEMMA ChannelInit == Init => TypeOK /\ ChannelInv
  BY ChannelAssumption DEF Init, TypeOK, Sending, ChannelInv, QuietBetween, ArchiveInStream,
     UntarInStream, ServerInStream, Transfer, UntarActive, Pending

(* The inductive invariant, with the types: where in the stream source, untar
   thread and page server are, for archives, records and buffers of any size. *)
THEOREM ChannelInvariant == Spec => [](TypeOK /\ ChannelInv)
  BY ChannelInit, TypeStep, ChannelStep, PTL DEF Spec

(* Each reader of the memory socket gets the bytes written for it: no step of the
   other side, no failed thread and no early end mixes archives and pages. *)
THEOREM ChannelOwnBytes == Spec => []OwnBytes
<1>1. TypeOK /\ ChannelInv => OwnBytes
  <2>. SUFFICES ASSUME TypeOK, ChannelInv PROVE OwnBytes
    OBVIOUS
  <2>1. ArchiveBytes(tar.blocks) \in Nat
    BY ArchiveSize DEF TypeOK
  <2>. QED
    BY <2>1, ChannelAssumption DEF TypeOK, ChannelInv, UntarInStream, ServerInStream, OwnBytes, UntarActive
<1>. QED
  BY <1>1, ChannelInvariant, PTL

(* discard_unread_input leaves the socket empty behind an archive, unless the
   archive's second block of zeros begins a record. *)
THEOREM ChannelDrained == Spec => []DrainedUnlessShort
<1>1. TypeOK /\ ChannelInv => DrainedUnlessShort
  BY DEF TypeOK, ChannelInv, ArchiveInStream, DrainedUnlessShort, Drained, Pending, Transfer
<1>. QED
  BY <1>1, ChannelInvariant, PTL
=============================================================================
