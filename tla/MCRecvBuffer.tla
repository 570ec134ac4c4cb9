--------------------------- MODULE MCRecvBuffer ---------------------------
(***************************************************************************)
(* RecvBuffer on streams of up to MaxMsgs messages whose sizes and defects *)
(* are all the combinations below.  With ConstLen = 2 and MinLen = 5 there *)
(* are leftovers of every kind: inside the constant part of a head (1, 2), *)
(* beyond it (3, 4), and of a head and more (5 and up).                    *)
(***************************************************************************)
EXTENDS RecvBuffer

CONSTANT MaxMsgs

\* Sizes: the least one, one more, the whole buffer.
MCSizes == {MinLen, MinLen + 1, BufSize}

\* A message is good, or damaged, or its length field is out of bounds or
\* within them and wrong.
MCDefects == {"good", "damaged", "short", "long", "wrong"}

MCField(size, defect) ==
    CASE defect = "short" -> MinLen - 1
      [] defect = "long" -> BufSize + 1
      [] defect = "wrong" -> MinLen + 2
      [] OTHER -> size

\* The peer's stream of the given messages; only the last may be defective,
\* the connection does not survive a defect.
MCStream(sizes, defect) ==
    LET n == Len(sizes)
        Before[i \in 1 .. n + 1] == IF i = 1 THEN 0 ELSE Before[i - 1] + sizes[i - 1]
    IN  [last  |-> n,
         start |-> Before,
         field |-> [i \in 1 .. n |-> IF i = n THEN MCField(sizes[i], defect) ELSE sizes[i]],
         good  |-> IF defect = "good" THEN 1 .. n ELSE 1 .. n - 1]

MCStreams ==
    {MCStream(sizes, defect) :
        sizes \in UNION {[1 .. n -> MCSizes] : n \in 1 .. MaxMsgs}, defect \in MCDefects}

=============================================================================
