----------------------------- MODULE ImportSpec -----------------------------
(***************************************************************************)
(* What the import of an external block file promises (spec section 6,     *)
(* "local block import from file"), without the buffer, the message-start  *)
(* search or the record layout: the file is read front to back; a block is *)
(* taken only if its serialization lies at or after the read position, it  *)
(* is valid and not known yet, and reading resumes after it; reading ends  *)
(* (at the end of the data, or on an error) before the file is retired,    *)
(* and after that blocks are learnt elsewhere.  A                          *)
(* process that stops before the file is retired leaves it in place, and  *)
(* the next start reads it again from the front.                           *)
(***************************************************************************)
EXTENDS Integers, Sequences

CONSTANTS Blocks, BlockBody, Invalid, Preloaded

VARIABLES
  file,     (* the file's bytes                                            *)
  pos,      (* read position                                               *)
  known,    (* blocks taken, and those known before                        *)
  retired,  (* the file has been set aside                                 *)
  open,     (* a running process is reading the file                       *)
  ended     (* the reading of the file has ended                           *)

vars == <<file, pos, known, retired, open, ended>>

(* The serialization of block b lies at offset p.                          *)
BodyAt(p, b) ==
  /\ p + Len(BlockBody[b]) <= Len(file)
  /\ SubSeq(file, p + 1, p + Len(BlockBody[b])) = BlockBody[b]

Init ==
  /\ file \in Seq(Nat)
  /\ pos = 0
  /\ known = Preloaded
  /\ retired = FALSE
  /\ open = TRUE
  /\ ended = FALSE

Take ==
  /\ open /\ ~retired /\ ~ended
  /\ \E p \in pos..Len(file), b \in Blocks \ (known \cup Invalid) :
       /\ BodyAt(p, b)
       /\ known' = known \cup {b}
       /\ pos' > p
  /\ UNCHANGED <<file, retired, open, ended>>

Advance ==
  /\ open /\ ~retired /\ ~ended
  /\ pos' > pos
  /\ UNCHANGED <<file, known, retired, open, ended>>

(* Reading stops, at the end of the data or on an error; the position is  *)
(* no longer used.                                                         *)
End ==
  /\ open /\ ~retired /\ ~ended
  /\ ended' = TRUE
  /\ pos' = 0
  /\ UNCHANGED <<file, known, retired, open>>

(* A file whose reading has ended is set aside and closed.                 *)
Retire ==
  /\ ended /\ ~retired
  /\ retired' = TRUE
  /\ UNCHANGED <<file, pos, known, open, ended>>

(* Once the file is retired, valid new blocks come from other sources.     *)
Learn ==
  /\ retired
  /\ \E b \in Blocks \ (known \cup Invalid) : known' = known \cup {b}
  /\ UNCHANGED <<file, pos, retired, open, ended>>

(* The process stops while reading; what it has taken stays known.         *)
Close ==
  /\ open /\ ~retired /\ ~ended
  /\ open' = FALSE
  /\ UNCHANGED <<file, pos, known, retired, ended>>

(* A new process finds the file still there and reads it from the front.   *)
Reopen ==
  /\ ~open
  /\ open' = TRUE
  /\ pos' = 0
  /\ UNCHANGED <<file, known, retired, ended>>

Next == Take \/ Advance \/ End \/ Retire \/ Learn \/ Close \/ Reopen

(* A reader that is not stopped comes to the end and retires the file.     *)
Spec == Init /\ [][Next]_vars /\ WF_vars(End) /\ WF_vars(Retire)

=============================================================================
