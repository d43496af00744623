---------------------------- MODULE MCMemChannel ----------------------------
(* MemChannel with records of four blocks of two bytes: archives that leave
   none to three blocks of their last record to its end, over one to three
   records, through a socket that holds one record and a byte: the archive of
   cpuinfo.img fits, two records do not. *)
EXTENDS MemChannel

MCImgBlocks == 1..7

MCPageBytes == {1, 5}
=============================================================================
