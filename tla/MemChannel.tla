----------------------------- MODULE MemChannel -----------------------------
(***************************************************************************)
(* The memory socket of a live migration: one TCP connection that carries, *)
(* one after the other, the archive of cpuinfo.img, the pages of every     *)
(* dump, and the archive of the images.  Nothing in the stream says where  *)
(* one ends and the next begins; it is the order of the calls that keeps   *)
(* the readers on the target apart, and tarfile_fileobj_wrap (util.py)     *)
(* that is to leave the socket empty behind an archive.                    *)
(*                                                                         *)
(* Bytes are counted, not represented: "sent" is how many were written to  *)
(* the socket since it was opened and "taken" how many were read from it.  *)
(* A call of the source is one step with what its handler does; the calls  *)
(* themselves are the subject of RpcLink.                                  *)
(***************************************************************************)
EXTENDS Integers

CONSTANTS
    BLOCKSIZE,    \* tarfile's unit of headers and padding
    RECORDSIZE,   \* tarfile's unit of writing, reading and padding an archive
    Room,         \* bytes the socket's buffers hold
    CpuBlocks,    \* blocks of the archive of cpuinfo.img, without its end
    ImgBlocks,    \* blocks the archive of the images may have, likewise
    PageBytes,    \* bytes a dump may send to the page server
    MaxDumps      \* dumps with a page server in one migration

Record == RECORDSIZE \div BLOCKSIZE

(* An archive leaves one block of its last record to the two blocks of zeros
   that end it: the second one takes a record of its own. *)
EndsShort(blocks) == (blocks + 1) % Record = 0

(* cpuinfo.img is one file, much smaller than a record, and a record fits in
   the buffers. *)
ASSUME ChannelAssumption ==
    /\ BLOCKSIZE \in Nat \ {0} /\ RECORDSIZE \in Nat \ {0}
    /\ RECORDSIZE % BLOCKSIZE = 0 /\ RECORDSIZE >= 2 * BLOCKSIZE
    /\ Room \in Nat /\ Room >= RECORDSIZE
    /\ CpuBlocks \in Nat \ {0} /\ ~EndsShort(CpuBlocks)
    /\ ImgBlocks \subseteq Nat \ {0}
    /\ PageBytes \subseteq Nat \ {0}
    /\ MaxDumps \in Nat

VARIABLES
    pc,       \* where the source stands, with the names of LiveMigration
    cpu,      \* the CPU is checked; constant
    dumps,    \* dumps with a page server still to do; docker has none
    left,     \* bytes of the current transfer not yet written
    sent,
    taken,
    tar,      \* the untar thread: its archive and where it begins, __nread, and
              \* what discard_unread_input asked for and has not got
    server    \* the page server: what it still expects, and the end of that

srcVars == <<pc, cpu, dumps>>
vars == <<srcVars, left, sent, taken, tar, server>>

Sending == {"cpu_send", "dump", "img_send"}

TypeOK ==
    /\ pc \in {"cpu_accept", "cpu_stop", "iter_start", "img_accept", "img_stop", "ended"}
              \cup Sending
    /\ cpu \in BOOLEAN
    /\ dumps \in 0..MaxDumps
    /\ {left, sent, taken} \subseteq Nat
    /\ sent - taken \in 0..Room
    /\ tar \in [st : {"none", "reading", "discarding", "done", "failed"},
                from : Nat, blocks : Nat, nread : Nat, rest : Nat]
    /\ server \in [left : Nat, to : Nat]

Init ==
    /\ cpu \in BOOLEAN
    /\ dumps \in 0..MaxDumps
    /\ pc = IF cpu THEN "cpu_accept" ELSE "iter_start"
    /\ left = 0 /\ sent = 0 /\ taken = 0
    /\ tar = [st |-> "none", from |-> 0, blocks |-> 0, nread |-> 0, rest |-> 0]
    /\ server = [left |-> 0, to |-> 0]

UpTo(m, n) == 1..(IF m <= n THEN m ELSE n)

Pending == sent - taken

-----------------------------------------------------------------------------
(* The source *)

(* tarfile ends an archive with two blocks of zeros and fills the record. *)
ArchiveBytes(blocks) ==
    RECORDSIZE * (((blocks + 2) * BLOCKSIZE + RECORDSIZE - 1) \div RECORDSIZE)

Archives == IF pc = "cpu_accept" THEN {CpuBlocks} ELSE ImgBlocks

(* The call starts the untar thread, then the archive is written. *)
StartAcceptImages ==
    /\ pc \in {"cpu_accept", "img_accept"}
    /\ \E blocks \in Archives :
          /\ tar' = [st |-> "reading", from |-> sent, blocks |-> blocks,
                     nread |-> 0, rest |-> 0]
          /\ left' = ArchiveBytes(blocks)
    /\ pc' = IF pc = "cpu_accept" THEN "cpu_send" ELSE "img_send"
    /\ UNCHANGED <<cpu, dumps, sent, taken, server>>

(* sendall, or CRIU's page client: the socket takes as much as it has room for. *)
Write ==
    /\ pc \in Sending
    /\ \E n \in UpTo(left, Room - Pending) : sent' = sent + n /\ left' = left - n
    /\ UNCHANGED <<srcVars, taken, tar, server>>

ArchiveWritten ==
    /\ pc \in {"cpu_send", "img_send"} /\ left = 0
    /\ pc' = IF pc = "cpu_send" THEN "cpu_stop" ELSE "img_stop"
    /\ UNCHANGED <<cpu, dumps, left, sent, taken, tar, server>>

ThreadEndedBug == TRUE

ThreadEnded == tar.st \in {"done", "failed"}

(* join(); then the target checks the CPU, or restores, and its answer may end
   the migration.  Without the complete cpuinfo.img the check fails; a thread that
   dies behind it, among the zeros, has met an error of the socket itself. *)
StopAcceptImages ==
    /\ pc \in {"cpu_stop", "img_stop"}
    /\ ThreadEnded
    /\ \/ pc = "cpu_stop" /\ tar.st # "failed" /\ pc' = "iter_start"
       \/ pc' = "ended"
    /\ UNCHANGED <<cpu, dumps, left, sent, taken, tar, server>>

(* The call starts a page server for the dump that follows. *)
StartIter ==
    /\ pc = "iter_start" /\ dumps > 0
    /\ \E bytes \in PageBytes :
          left' = bytes /\ server' = [left |-> bytes, to |-> sent + bytes]
    /\ pc' = "dump"
    /\ UNCHANGED <<cpu, dumps, sent, taken, tar>>

(* CRIU waits for the page server to confirm that it has everything. *)
DumpReturns ==
    /\ pc = "dump" /\ left = 0 /\ server.left = 0
    /\ dumps' = dumps - 1
    /\ pc' = "iter_start"
    /\ UNCHANGED <<cpu, left, sent, taken, tar, server>>

LastDumpDone ==
    /\ pc = "iter_start" /\ dumps = 0
    /\ pc' = "img_accept"
    /\ UNCHANGED <<cpu, dumps, left, sent, taken, tar, server>>

(* Any step of the migration fails, or p.haul is killed: no more is written,
   and the socket is closed. *)
GivesUp ==
    /\ pc # "ended"
    /\ pc' = "ended"
    /\ UNCHANGED <<cpu, dumps, left, sent, taken, tar, server>>

SourceStep ==
    \/ StartAcceptImages \/ Write \/ ArchiveWritten \/ StopAcceptImages
    \/ StartIter \/ DumpReturns \/ LastDumpDone

-----------------------------------------------------------------------------
(* The untar thread.  tarfile reads up to a record at a time as long as it
   lacks bytes of the archive, and takes the first block of zeros for the end. *)

Wanted == (tar.blocks + 1) * BLOCKSIZE

Counted(n) == tar.nread + n

Recv(n) ==
    /\ taken' = taken + n
    /\ UNCHANGED <<srcVars, left, sent>>

UntarReads ==
    /\ tar.st = "reading" /\ tar.nread < Wanted
    /\ \E n \in UpTo(RECORDSIZE, Pending) :
          Recv(n) /\ tar' = [tar EXCEPT !.nread = Counted(n)]
    /\ UNCHANGED server

UnreadAlwaysBug(nread) == RECORDSIZE - (nread % RECORDSIZE)

UnreadReadBug(nread) == nread % RECORDSIZE

(* What discard_unread_input still has to read. *)
Unread(nread) ==
    IF nread % RECORDSIZE = 0 THEN 0 ELSE RECORDSIZE - (nread % RECORDSIZE)

UntarExtracted ==
    /\ tar.st = "reading" /\ tar.nread >= Wanted
    /\ tar' = [tar EXCEPT !.rest = Unread(tar.nread),
                          !.st = IF Unread(tar.nread) = 0 THEN "done" ELSE "discarding"]
    /\ UNCHANGED <<srcVars, left, sent, taken, server>>

(* recv with MSG_WAITALL takes what arrives until it has all it asked for. *)
UntarDiscards ==
    /\ tar.st = "discarding"
    /\ \E n \in UpTo(tar.rest, Pending) :
          /\ Recv(n)
          /\ tar' = [tar EXCEPT !.nread = Counted(n), !.rest = tar.rest - n,
                                !.st = IF n = tar.rest THEN "done" ELSE "discarding"]
    /\ UNCHANGED server

(* The socket is closed: tarfile finds a truncated archive, and a recv that
   waits for all returns with less. *)
UntarReadsEOF ==
    /\ pc = "ended" /\ Pending = 0
    /\ \/ tar.st = "reading" /\ tar.nread < Wanted /\ tar' = [tar EXCEPT !.st = "failed"]
       \/ tar.st = "discarding" /\ tar' = [tar EXCEPT !.st = "done"]
    /\ UNCHANGED <<srcVars, left, sent, taken, server>>

(* tarfile or the socket raises, and the thread ends with a log message. *)
UntarFails ==
    /\ tar.st \in {"reading", "discarding"}
    /\ tar' = [tar EXCEPT !.st = "failed"]
    /\ UNCHANGED <<srcVars, left, sent, taken, server>>

UntarStep == UntarReads \/ UntarExtracted \/ UntarDiscards \/ UntarReadsEOF

-----------------------------------------------------------------------------
(* CRIU's page server, which knows from the stream how much is to come *)

ServerReads ==
    /\ \E n \in UpTo(server.left, Pending) :
          Recv(n) /\ server' = [server EXCEPT !.left = server.left - n]
    /\ UNCHANGED tar

ServerReadsEOF ==
    /\ pc = "ended" /\ Pending = 0 /\ server.left > 0
    /\ server' = [server EXCEPT !.left = 0]
    /\ UNCHANGED <<srcVars, left, sent, taken, tar>>

ServerStep == ServerReads \/ ServerReadsEOF

-----------------------------------------------------------------------------
Next == SourceStep \/ GivesUp \/ UntarStep \/ UntarFails \/ ServerStep

Spec == Init /\ [][Next]_vars

(* Every process goes on while it can; failures are never due. *)
FairSpec == Spec /\ WF_vars(SourceStep) /\ WF_vars(UntarStep) /\ WF_vars(ServerStep)

-----------------------------------------------------------------------------
(* Properties *)

UntarActive == tar.st \in {"reading", "discarding"}

(* Every reader gets the bytes that were written for it and no others: the
   untar thread has read exactly those taken from the socket since its archive
   began, and a page server's missing bytes are the ones before its dump's end
   (images.py:43-51, 177-189, service.py:71-95, criu_req.py:62, 101).  The type
   of the counts, which the socket's room bounds, is part of it. *)
OwnBytes ==
    /\ TypeOK
    /\ UntarActive =>
          /\ server.left = 0
          /\ taken = tar.from + tar.nread
          /\ tar.nread <= ArchiveBytes(tar.blocks)
    /\ server.left > 0 /\ pc # "ended" => taken + server.left = server.to

(* "Read aligning manually and discard" (util.py:36): when an archive has been
   unpacked and the source has written all of it, the socket is empty. *)
Drained == pc \in {"cpu_stop", "img_stop"} /\ tar.st = "done" => Pending = 0

(* So it is, but for archives whose second block of zeros begins a record. *)
DrainedUnlessShort == ~EndsShort(tar.blocks) => Drained

(* What the source began to send is taken, and the thread it then waits for
   ends; if the thread has died, more than the socket holds blocks it for good
   (images.py:146-175, 187-189). *)
Delivered ==
    \A p \in Sending \cup {"cpu_stop", "img_stop"} :
        pc = p ~> pc # p \/ (p # "dump" /\ tar.st = "failed" /\ Pending = Room)

-----------------------------------------------------------------------------
(* The inductive invariant behind OwnBytes and DrainedUnlessShort *)

Transfer == {"cpu_send", "cpu_stop", "img_send", "img_stop"}

(* Between two transfers the socket is empty and nobody reads from it. *)
QuietBetween ==
    pc \in {"cpu_accept", "iter_start", "img_accept"} =>
        Pending = 0 /\ left = 0 /\ server.left = 0 /\ ~UntarActive

(* What is written and what is still to come make up the archive, and a thread
   that ended in order has taken all of it, if it does not end short. *)
ArchiveInStream ==
    pc \in Transfer =>
        /\ server.left = 0
        /\ sent + left = tar.from + ArchiveBytes(tar.blocks)
        /\ pc \in {"cpu_stop", "img_stop"} => left = 0
        /\ pc \in {"cpu_send", "cpu_stop"} => tar.blocks = CpuBlocks
        /\ tar.st = "done" /\ ~EndsShort(tar.blocks) => taken = sent + left

(* The untar thread has read its archive from the beginning, also when the source
   has given up; what it discards ends with a record. *)
UntarInStream ==
    /\ UntarActive =>
          /\ pc \in Transfer \cup {"ended"}
          /\ server.left = 0
          /\ taken = tar.from + tar.nread
          /\ sent + left = tar.from + ArchiveBytes(tar.blocks)
    /\ tar.st = "discarding" =>
          /\ tar.nread + tar.rest <= ArchiveBytes(tar.blocks)
          /\ ~EndsShort(tar.blocks) => tar.nread + tar.rest = ArchiveBytes(tar.blocks)

(* The page server misses what has not been read of its dump. *)
ServerInStream ==
    /\ pc = "dump" => ~UntarActive /\ taken + server.left = sent + left
    /\ server.left > 0 => pc \in {"dump", "ended"} /\ taken + server.left = server.to
    /\ pc = "dump" => server.to = sent + left /\ dumps > 0

ChannelInv == QuietBetween /\ ArchiveInStream /\ UntarInStream /\ ServerInStream
=============================================================================
