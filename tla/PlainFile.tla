----------------------------- MODULE PlainFile ------------------------------
(***************************************************************************)
(* What a CompressedFile promises its user: a file of bytes, written from  *)
(* its start and later read, with a position, as if nothing were packed.   *)
(***************************************************************************)
EXTENDS Integers, SequencesExt

CONSTANTS Bytes,
          NewLine,
          Writes,   \* what can be written at once
          Reads,    \* how many bytes a read can ask for
          Offsets   \* where a seek can go

VARIABLES content,   \* the bytes of the file
          position,  \* how many of them the next call passes over
          mode,      \* "w", "r", or "closed"
          sealed,    \* flushed by its writer, who can write nothing more
          brittle,   \* opened for reading in a state in which a call may raise
          call,      \* the last call, with its arguments
          result,    \* what the last call that reads returned
          broken     \* a call raised; of an object like that nothing is promised

vars == <<content, position, mode, sealed, brittle, call, result, broken>>

Init ==
    /\ content = << >> /\ position = 0
    /\ mode = "w" /\ sealed = FALSE /\ brittle = FALSE
    /\ call = <<"open">> /\ result = << >> /\ broken = FALSE

-----------------------------------------------------------------------------
(* Writing *)

Write(data) ==
    /\ mode = "w" /\ ~sealed
    /\ call' = <<"write", data>>
    /\ content' = content \o data
    /\ position' = position + Len(data)
    /\ UNCHANGED <<mode, sealed, brittle, result, broken>>

Flush ==
    /\ mode = "w" /\ ~sealed
    /\ sealed' = TRUE
    /\ UNCHANGED <<content, position, mode, brittle, call, result, broken>>

\* To close a file that is written flushes it.
Close ==
    /\ \/ mode = "w" /\ ~sealed /\ sealed' = TRUE
       \/ mode = "r" /\ UNCHANGED sealed
    /\ mode' = "closed" /\ brittle' = FALSE
    /\ UNCHANGED <<content, position, call, result, broken>>

\* A file is flushed once: what its writer calls after that raises.
Refuse ==
    /\ mode = "w" /\ sealed
    /\ broken' = TRUE
    /\ UNCHANGED <<content, mode, sealed, brittle, result>>

\* The file is opened again; its writer may have died before its last bytes, and
\* someone else may have put another file behind it.
Open ==
    /\ mode' = "r" /\ sealed' = FALSE /\ brittle' \in BOOLEAN
    /\ call' = <<"open">>
    /\ position' = 0 /\ result' = << >> /\ broken' = FALSE
    /\ IsPrefix(content, content') \/ IsPrefix(content', content)

-----------------------------------------------------------------------------
(* Reading *)

Rest == SubSeq(content, position + 1, Len(content))

NextLine ==
    LET ends == {i \in DOMAIN Rest : Rest[i] = NewLine}
    IN  IF ends = {} THEN Rest ELSE SubSeq(Rest, 1, Min(ends))

Return(data) ==
    /\ mode = "r"
    /\ result' = data
    /\ position' = position + Len(data)
    /\ UNCHANGED <<content, mode, sealed, brittle, broken>>

Read(n) ==
    /\ call' = <<"read", n>>
    /\ Return(SubSeq(Rest, 1, Min({n, Len(Rest)})))

Readline == call' = <<"readline">> /\ Return(NextLine)

Origin(whence) ==
    CASE whence = "set" -> 0 [] whence = "cur" -> position [] whence = "end" -> Len(content)

\* An offset out of the file is adjusted to its start or its end.
Seek(offset, whence) ==
    /\ mode = "r"
    /\ call' = <<"seek", offset, whence>>
    /\ position' = Max({0, Min({Origin(whence) + offset, Len(content)})})
    /\ UNCHANGED <<content, mode, sealed, brittle, result, broken>>

\* A call on a brittle file raises.
Break ==
    /\ mode = "r" /\ brittle
    /\ broken' = TRUE
    /\ UNCHANGED <<content, mode, sealed, brittle, result>>

Next ==
    \/ ~broken /\ \/ \E data \in Writes : Write(data)
                  \/ Flush
                  \/ Close
                  \/ Refuse
                  \/ \E n \in Reads : Read(n)
                  \/ Readline
                  \/ \E offset \in Offsets, whence \in {"set", "cur", "end"} :
                       Seek(offset, whence)
                  \/ Break
    \/ Open

Spec == Init /\ [][Next]_vars
=============================================================================
