----------------------------- MODULE ByteBuffer -----------------------------
(***************************************************************************)
(* What bytearray.h promises of a ByteArray: one contiguous run of bytes   *)
(* with a position, read and overwritten from there, which grows at its    *)
(* end.  Nothing is said of nodes, or of how much is reserved.  ByteArray  *)
(* is shown to implement it.                                               *)
(***************************************************************************)
EXTENDS Integers, Sequences

CONSTANTS
    Byte,
    Thrown      \* std::out_of_range

VARIABLES
    content,    \* the bytes of the array
    position,
    moved       \* what the last call took from its caller or delivered

bufferVars == <<content, position, moved>>

Init == content = <<>> /\ position = 0 /\ moved = <<>>

\* The caller's bytes replace those at the position, or are appended.
Put ==
    /\ moved' \in Seq(Byte)
    /\ LET end == position + Len(moved')
       IN  /\ content' = SubSeq(content, 1, position) \o moved' \o SubSeq(content, end + 1, Len(content))
           /\ position' = end

\* The next bytes are delivered.
Get ==
    /\ position' \in position .. Len(content)
    /\ moved' = SubSeq(content, position + 1, position')
    /\ UNCHANGED content

\* All the bytes from the position on are delivered and stay.
Peek ==
    /\ moved' = SubSeq(content, position + 1, Len(content))
    /\ UNCHANGED <<content, position>>

\* A call asks for more than there is; its first parts may have been consumed.
Fail ==
    /\ moved' = Thrown
    /\ position' \in position .. Len(content)
    /\ UNCHANGED content

\* Beyond the end, the bytes up to the new position are unspecified.
Seek ==
    /\ position' \in Nat
    /\ IF position' <= Len(content)
         THEN content' = content
         ELSE Len(content') = position' /\ SubSeq(content', 1, Len(content)) = content
    /\ moved' = <<>>

Clear == content' = <<>> /\ position' = 0 /\ moved' = <<>>

Next == Put \/ Get \/ Peek \/ Fail \/ Seek \/ Clear

Spec == Init /\ [][Next]_bufferVars
=============================================================================
