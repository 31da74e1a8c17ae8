------------------------------- MODULE AnnexB -------------------------------
(***************************************************************************)
(* iter_nals (h264.py): the NAL units between the start codes of a buffer, *)
(* which is a sequence of bytes.  Positions count from 0, as in the code.  *)
(***************************************************************************)
EXTENDS Integers, Sequences, FiniteSetsExt

VARIABLES
  code,   \* i: where the start code of the next NAL unit is, -1 if there is none
  nals    \* the NAL units yielded so far

splitVars == <<code, nals>>

StartCodeAt(buf, i) == buf[i + 1] = 0 /\ buf[i + 2] = 0 /\ buf[i + 3] = 1

\* buf.find(_START3, from)
FindCode(buf, from) ==
  LET at == {i \in from .. Len(buf) - 3 : StartCodeAt(buf, i)}
  IN  IF at = {} THEN -1 ELSE Min(at)

\* faulty variant: every start code is taken for a 3-byte one
Unstripped(buf, start, next) == next

\* without the zeros that belong to the next start code
Stripped(buf, start, next) ==
  Max({start} \cup {e \in start + 1 .. next : buf[e] # 0})

\* what precedes the first start code is skipped
Split(buf) == code' = FindCode(buf, 0) /\ nals' = <<>>

\* a turn of the loop: the last NAL unit keeps whatever follows it, an empty one
\* is left out
SplitNext(buf) ==
  /\ code # -1
  /\ LET start == code + 3
         next == FindCode(buf, start)
         end == IF next = -1 THEN Len(buf) ELSE Stripped(buf, start, next)
     IN  /\ code' = next
         /\ nals' = IF end > start THEN Append(nals, SubSeq(buf, start + 1, end)) ELSE nals

SplitInit == code = -1 /\ nals = <<>>
=============================================================================
