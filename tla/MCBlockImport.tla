--------------------------- MODULE MCBlockImport ---------------------------
(***************************************************************************)
(* A scaled-down bootstrap.dat for BlockImport: a 2-byte message start     *)
(* (MESSAGE_START_SIZE is 4), a 1-byte nSize (4 bytes in the code), blocks *)
(* of 1 to 3 bytes and a 5-byte read buffer, so that records straddle      *)
(* buffer boundaries and the "nRead <= 8" cut-off falls inside the file.   *)
(***************************************************************************)
EXTENDS BlockImport

MCMessageStart == <<7, 8>>

(* Block 6 carries the message-start bytes inside its own encoding, as a   *)
(* block whose transactions happen to contain them does.                   *)
MCBlockBody == [b \in {4, 5, 6} |-> CASE b = 4 -> <<4>>
                                      [] b = 5 -> <<5, 0>>
                                      [] b = 6 -> <<6, 7, 8>>]

Record(b) == [bytes |-> MCMessageStart \o <<Len(MCBlockBody[b])>> \o MCBlockBody[b],
              rec   |-> b]

Junk(s) == [bytes |-> s, rec |-> NoRecord]

MCChunks ==
  {Record(b) : b \in {4, 5, 6}}
  \cup { Junk(<<0>>),            (* a stray byte                            *)
         Junk(<<7>>),            (* a lone first message-start byte         *)
         Junk(<<1>>),            (* a byte that reads as a valid nSize      *)
         Junk(<<7, 8, 4>>),      (* a header whose nSize is over the limit  *)
         Junk(<<7, 8, 2, 5>>) }  (* a record cut short                      *)
(* One -loadblock file: a record of an invalid block before one of a block *)
(* that bootstrap.dat may also hold.                                       *)
MCLoadBlockFiles == << <<Record(5), Record(6)>> >>

(* No -loadblock option. *)
MCNoLoadBlockFiles == << >>
=============================================================================
