---------------------------- MODULE BlockImport ----------------------------
(***************************************************************************)
(* ThreadImport and LoadExternalBlockFile (src/src/init.cpp:417-526): the  *)
(* import of $DATADIR/bootstrap.dat, then of each -loadblock file, files   *)
(* of records                                                              *)
(*     message-start bytes, nSize, serialized block (nSize bytes)          *)
(* scanned with a fixed-size buffer that resynchronises on the network's   *)
(* message-start bytes, each block handed to ProcessBlock.                 *)
(*                                                                         *)
(* Positions are 0-based file offsets, as nPos is; Byte(p) is the byte at  *)
(* offset p.  nPos is an unsigned int of PosBits bits.                     *)
(*                                                                         *)
(* Fault model: a shutdown interrupts the import thread at one of the two  *)
(* interruption points of the scan; boost::thread_interrupted is not a     *)
(* std::exception, so it leaves LoadExternalBlockFile and ThreadImport     *)
(* without the rename, and the next start of the node imports the same     *)
(* bootstrap.dat again from offset 0.  Blocks accepted before are in the   *)
(* block index on disk and stay known.                                     *)
(***************************************************************************)
EXTENDS Integers, Sequences, FiniteSets, FiniteSetsExt, SequencesExt

CONSTANTS
  MessageStart,  (* Params().MessageStart(), MESSAGE_START_SIZE bytes       *)
  BufSize,       (* sizeof(pchData), 65536 in the code                      *)
  ReadFloor,     (* the "nRead <= 8" cut-off: message start plus nSize      *)
  SizeBytes,     (* sizeof(nSize), 4 in the code                            *)
  MaxBlockSize,  (* MAX_BLOCK_SIZE                                          *)
  PosBits,       (* width of unsigned int nPos, 32 in the code              *)
  Blocks,        (* block identities; a block's encoding starts with it     *)
  BlockBody,     (* [Blocks -> Seq(bytes)]: serialized block                *)
  Invalid,       (* blocks ProcessBlock rejects on their own merits         *)
  Preloaded,     (* blocks already in the block index (the genesis block)   *)
  Chunks,        (* pieces a file is made of: [bytes, rec]                  *)
  MaxChunks,     (* at most this many pieces per file                       *)
  NoRecord,      (* rec of a piece that is not a whole record               *)
  MaxStarts,     (* node starts                                             *)
  LoadBlockFiles (* the -loadblock files, each a sequence of pieces         *)

MSS == Len(MessageStart)

ASSUME
  /\ MSS >= 1 /\ SizeBytes >= 1
  /\ ReadFloor >= MSS + SizeBytes - 1
  /\ BufSize > ReadFloor
  /\ MaxStarts >= 1
  /\ LoadBlockFiles \in Seq(Seq(Chunks))
  /\ Invalid \subseteq Blocks /\ Preloaded \subseteq Blocks
  /\ \A b \in Blocks : Len(BlockBody[b]) \in 1..MaxBlockSize /\ BlockBody[b][1] = b

(* std::numeric_limits<uint32_t>::max(), the "no more data" sentinel.      *)
MaxPos == 2^PosBits - 1

(* unsigned int arithmetic.  The wrap needs a file as long as nPos can     *)
(* address (4 GiB in the code); the runs keep PosBits above every file     *)
(* length, so it is kept for fidelity and not reached.                     *)
U(x) == x % 2^PosBits

VARIABLES
  bootstrap, (* the pieces bootstrap.dat is made of (never changes)        *)
  current,   (* the file ThreadImport is at: 0 is bootstrap.dat, i the     *)
             (* i-th -loadblock file, Len(LoadBlockFiles)+1 past the last  *)
  chunks,    (* the pieces of the file being read                          *)
  file,      (* its bytes                                                  *)
  nPos,      (* scan position                                              *)
  pc,        (* "scan": inner do-loop; "record": read nSize and the block; *)
             (* "done": LoadExternalBlockFile returned; "stopped": the     *)
             (* thread was interrupted and the process has ended           *)
  threw,     (* a std::exception was caught, ending the load               *)
  known,     (* blocks ProcessBlock has accepted                           *)
  renamed,   (* bootstrap.dat renamed to bootstrap.dat.old                  *)
  starts,    (* node starts so far                                         *)
  fImporting (* the global flag CImportingNow sets for the duration of a   *)
             (* load                                                       *)

vars == <<bootstrap, current, chunks, file, nPos, pc, threw, known, renamed,
          starts, fImporting>>

Files == Len(LoadBlockFiles)

Byte(p) == file[p + 1]

FileLen == Len(file)

(* Blocks written as whole, well-formed records into the file.             *)
RecordBlocks(cs) == {cs[i].rec : i \in DOMAIN cs} \ {NoRecord}

Bytes(cs) == FlattenSeq([i \in DOMAIN cs |-> cs[i].bytes])

TypeOK ==
  /\ bootstrap \in Seq(Chunks)
  /\ current \in 0..Files + 1
  /\ chunks \in Seq(Chunks)
  /\ nPos \in 0..MaxPos
  /\ pc \in {"scan", "record", "done", "stopped"}
  /\ threw \in BOOLEAN
  /\ known \subseteq Blocks
  /\ renamed \in BOOLEAN
  /\ starts \in 1..MaxStarts
  /\ fImporting \in BOOLEAN

-----------------------------------------------------------------------------
(* Serialization helpers.                                                  *)

(* blkdat >> nSize: little-endian unsigned int at offset p.               *)
RECURSIVE LittleEndian(_, _)
LittleEndian(p, n) ==
  IF n = 0 THEN 0 ELSE Byte(p) + 256 * LittleEndian(p + 1, n - 1)

(* Outcomes of a deserialization that yields no block of Blocks (block    *)
(* identities are bytes, so these are negative).                           *)
Throw == -1
Garbage == -2

(* blkdat >> block at offset q: the block whose encoding is there, else    *)
(* arbitrary bytes, which either make the deserializer throw or decode to  *)
(* some block that is not valid; at end of file it throws.                 *)
Decode(q) ==
  LET at == {b \in Blocks : /\ q + Len(BlockBody[b]) <= FileLen
                            /\ SubSeq(file, q + 1, q + Len(BlockBody[b])) = BlockBody[b]}
  IN  IF at # {} THEN at
      ELSE IF q >= FileLen THEN {Throw}
      ELSE {Throw, Garbage}

(* ProcessBlock: accepts a block it does not have yet and that is valid;   *)
(* "already have block" is a rejection like any other.                     *)
Accepts_NoCheck(b) == b \notin known /\ b \notin Invalid
Accepts(b) == b \in Blocks /\ b \notin known /\ b \notin Invalid

-----------------------------------------------------------------------------
(* One pass of the inner do-loop, init.cpp:430-451: fseek to nPos, fread   *)
(* up to BufSize bytes, memchr for the first message-start byte among the  *)
(* first nRead+1-MSS bytes, memcmp the whole message start there.          *)

BytesRead == IF nPos >= FileLen THEN 0 ELSE Min({BufSize, FileLen - nPos})

(* memchr(pchData, MessageStart()[0], nRead+1-MESSAGE_START_SIZE): the    *)
(* buffer offsets searched.                                                *)
SearchWindow_Short == 0..(BytesRead - MSS - 1)
SearchWindow == 0..(BytesRead - MSS)

FirstByteHits == {i \in SearchWindow : Byte(nPos + i) = MessageStart[1]}

(* nPos += (nFind - pchData) + 1 past a first byte not followed by the     *)
(* rest of the message start.                                              *)
PastFalseStart_NoStep(i) == U(nPos + i)
PastFalseStart(i) == U(nPos + i + 1)

MatchesAt(p) == SubSeq(file, p + 1, p + MSS) = MessageStart

ScanStep ==
  /\ pc = "scan"
  /\ IF BytesRead <= ReadFloor
     THEN /\ nPos' = MaxPos
          /\ pc' = "done"
     ELSE IF FirstByteHits = {}
     THEN /\ nPos' = U(nPos + BufSize - MSS + 1)
          /\ pc' = "scan"
     ELSE LET i == Min(FirstByteHits) IN
          IF MatchesAt(nPos + i)
          THEN /\ nPos' = U(nPos + i + MSS)
               /\ pc' = IF nPos' = MaxPos THEN "done" ELSE "record"
          ELSE /\ nPos' = PastFalseStart(i)
               /\ pc' = "scan"
  /\ UNCHANGED <<bootstrap, current, chunks, file, threw, known, renamed, starts,
                 fImporting>>

(* The rest of the outer loop, init.cpp:454-467: read nSize; if it is in    *)
(* range, deserialize a block and call ProcessBlock; only an accepted      *)
(* block moves nPos past the record.  A short read throws, and the catch   *)
(* at init.cpp:470 ends the whole load.                                    *)
(* nPos += 4 + nSize past an accepted record.                             *)
PastRecord(p, nSize) == U(p + SizeBytes + nSize)

ReadRecord ==
  /\ pc = "record"
  /\ IF nPos + SizeBytes > FileLen
     THEN /\ threw' = TRUE
          /\ pc' = "done"
          /\ UNCHANGED <<nPos, known>>
     ELSE LET nSize == LittleEndian(nPos, SizeBytes) IN
          IF nSize > 0 /\ nSize <= MaxBlockSize
          THEN \E d \in Decode(nPos + SizeBytes) :
                 IF d = Throw
                 THEN /\ threw' = TRUE
                      /\ pc' = "done"
                      /\ UNCHANGED <<nPos, known>>
                 ELSE /\ IF Accepts(d)
                         THEN /\ known' = known \cup {d}
                              /\ nPos' = PastRecord(nPos, nSize)
                         ELSE UNCHANGED <<known, nPos>>
                      /\ pc' = IF nPos' = MaxPos THEN "done" ELSE "scan"
                      /\ UNCHANGED threw
          ELSE /\ pc' = "scan"
               /\ UNCHANGED <<nPos, known, threw>>
  /\ UNCHANGED <<bootstrap, current, chunks, file, renamed, starts,
                 fImporting>>

(* fopen of a file and CImportingNow before LoadExternalBlockFile, which   *)
(* starts at nPos = 0.  The previous file's CImportingNow is destroyed at  *)
(* the end of its scope first, so the constructor's assert that no other   *)
(* load has the flag holds, and is not modelled.  Every fopen is taken to  *)
(* succeed: a missing or unreadable file (blkdat.good() false) only skips  *)
(* its load.                                                               *)
OpenFile(cs) ==
  /\ chunks' = cs
  /\ file' = Bytes(cs)
  /\ nPos' = 0
  /\ pc' = "scan"
  /\ threw' = FALSE
  /\ fImporting' = TRUE

(* ThreadImport after LoadExternalBlockFile returns, init.cpp:507-524:     *)
(* whatever it loaded, bootstrap.dat is renamed to bootstrap.dat.old; the  *)
(* CImportingNow goes out of scope; the loop opens the next -loadblock     *)
(* file, and after the last one the thread returns.                        *)
EndLoad ==
  /\ pc = "done"
  /\ current <= Files
  /\ renamed' = (renamed \/ current = 0)
  /\ current' = current + 1
  /\ IF current' <= Files
     THEN OpenFile(LoadBlockFiles[current'])
     ELSE /\ fImporting' = FALSE
          /\ UNCHANGED <<chunks, file, nPos, pc, threw>>
  /\ UNCHANGED <<bootstrap, known, starts>>

(* boost::this_thread::interruption_point() at the top of the outer loop   *)
(* (init.cpp:427) and after each pass of the do-loop that does not break   *)
(* (init.cpp:450): every "scan" state is at one of them.  The exception    *)
(* passes the catch (std::exception&) at init.cpp:470 and ThreadImport's   *)
(* RenameOver, and the thread ends; Shutdown() then ends the process.      *)
(* Mutation: the interrupted thread still renames bootstrap.dat.           *)
Interrupt_Rename ==
  /\ pc = "scan"
  /\ starts < MaxStarts
  /\ pc' = "stopped"
  /\ fImporting' = FALSE
  /\ renamed' = (renamed \/ current = 0)
  /\ UNCHANGED <<bootstrap, current, chunks, file, nPos, threw, known, starts>>

Interrupt ==
  /\ pc = "scan"
  /\ starts < MaxStarts
  /\ pc' = "stopped"
  /\ fImporting' = FALSE
  /\ UNCHANGED <<bootstrap, current, chunks, file, nPos, threw, known, renamed, starts>>

(* The next start, with the same -loadblock options: ThreadImport imports  *)
(* bootstrap.dat again if it is still there, else goes straight to the     *)
(* -loadblock files; the accepted blocks are in the block index.           *)
Restart ==
  /\ pc = "stopped"
  /\ starts' = starts + 1
  /\ current' = IF renamed THEN 1 ELSE 0
  /\ OpenFile(IF renamed THEN LoadBlockFiles[1] ELSE bootstrap)
  /\ UNCHANGED <<bootstrap, known, renamed>>

-----------------------------------------------------------------------------
Init ==
  /\ bootstrap \in BoundedSeq(Chunks, MaxChunks)
  /\ current = 0
  /\ chunks = bootstrap
  /\ file = Bytes(bootstrap)
  /\ nPos = 0
  /\ pc = "scan"
  /\ threw = FALSE
  /\ known = Preloaded
  /\ renamed = FALSE
  /\ starts = 1
  /\ fImporting = TRUE

(* ThreadImport has returned, or the node is down and not started again.   *)
Returned == current > Files \/ pc = "stopped"

Finished == Returned /\ UNCHANGED vars

Next == ScanStep \/ ReadRecord \/ EndLoad \/ Interrupt \/ Restart \/ Finished

(* The import thread runs to completion when not interrupted.  Neither the *)
(* interruption nor a new start is assumed to happen.                      *)
Spec == Init /\ [][Next]_vars /\ WF_vars(ScanStep \/ ReadRecord \/ EndLoad)

-----------------------------------------------------------------------------
(* Properties.                                                             *)

(* Blocks of a file's records that ProcessBlock would take.                *)
Wanted(cs) == RecordBlocks(cs) \ Invalid

(* A load that LoadExternalBlockFile ends without an exception has fed     *)
(* every whole record's block to ProcessBlock: the memchr window, the      *)
(* not-found advance of sizeof(pchData)-MESSAGE_START_SIZE+1 and the jump  *)
(* of 4+nSize past an accepted record never skip the start of a record,    *)
(* wherever the 64 KiB reads split the file.                               *)
ImportComplete == (pc = "done" /\ ~threw) => Wanted(chunks) \subseteq known

(* ThreadImport returns, every load of bootstrap.dat and of the -loadblock *)
(* files having returned, unless a shutdown interrupts it.                 *)
ImportTerminates == <>Returned

(* bootstrap.dat is only retired to bootstrap.dat.old once each record in  *)
(* it has been fed to ProcessBlock (spec section 6); ThreadImport renames  *)
(* it whatever LoadExternalBlockFile did.                                  *)
BootstrapRetiredOnlyWhenImported == renamed => Wanted(bootstrap) \subseteq known

(* ImportSpec for bootstrap.dat under the refinement mapping: nPos is the  *)
(* read position while bootstrap.dat is read, its rename retires it, and   *)
(* the -loadblock files are a source of blocks once it is retired.         *)
(* The load of bootstrap.dat has returned.                                 *)
BootstrapEnded == renamed \/ (current = 0 /\ pc = "done")

Abstract == INSTANCE ImportSpec
              WITH file <- Bytes(bootstrap),
                   pos <- IF BootstrapEnded THEN 0 ELSE nPos,
                   retired <- renamed,
                   open <- renamed \/ pc # "stopped",
                   ended <- BootstrapEnded

(* LoadExternalBlockFile and ThreadImport implement ImportSpec: every block *)
(* handed to ProcessBlock and accepted lies after the last one in the file, *)
(* is valid and new, and the message-start search, the nSize field and the *)
(* rejected records only move nPos forward or leave it; the file is        *)
(* renamed only after its load has returned, unless the node stops first, *)
(* and then the next start reads it from the front again.                  *)
ImportRefinesSpec == Abstract!Spec

=============================================================================
