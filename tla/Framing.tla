------------------------------- MODULE Framing -------------------------------
(***************************************************************************)
(* Messages on a stream (crates/huly/src/message.rs): write_async frames   *)
(* them, read_async takes them apart, in as many pieces as the transport   *)
(* delivers.  The stream is in order and may end at any byte.              *)
(*                                                                         *)
(* The wire is a sequence of units: a tag (8 bytes), a format, a kind and  *)
(* a length (2 bytes) are one each; a payload or a hash is its bytes.      *)
(***************************************************************************)
EXTENDS Integers, SequencesExt, FiniteSetsExt

CONSTANTS
  Messages,    \* what may be written
  MaxMessages,
  LengthMod,   \* 2^16: the length is written `as u16'
  HashSize     \* 32
ASSUME FramingAssumption ==
  /\ LengthMod \in Nat /\ LengthMod > 0 /\ HashSize \in Nat

VARIABLES
  sent,      \* ghost: the messages written, the last one in part perhaps
  cut,       \* the last one is there in part only
  wire,      \* what was written and not yet read
  closed,    \* nothing more comes
  reader,    \* "header", "length", "body", "hash"; "eof" when it gave up
  header,    \* the header read
  remaining, \* of the payload
  buffer,    \* of the payload
  received   \* the messages read
frameVars == <<sent, cut, wire, closed, reader, header, remaining, buffer, received>>

Inline == 0
Blob   == 255
HeaderUnits == 3

FrameInit ==
  /\ sent = << >> /\ cut = FALSE /\ wire = << >> /\ closed = FALSE
  /\ reader = "header" /\ header = << >> /\ remaining = 0 /\ buffer = << >>
  /\ received = << >>

Message(tag, format, kind, data) == [tag |-> tag, format |-> format, kind |-> kind, data |-> data]

(* The data of a message is inline, of any length, or the hash of a blob.  *)
ASSUME MessagesAssumption ==
  \A m \in Messages :
    /\ m \in [tag : Nat, format : Nat, kind : {Inline, Blob}, data : Seq(Nat)]
    /\ m.kind = Blob => Len(m.data) = HashSize

(* write_async *)
Framed(m) ==
  IF m.kind = Inline THEN <<m.tag, m.format, Inline, Len(m.data) % LengthMod>> \o m.data
  ELSE <<m.tag, m.format, Blob>> \o m.data

Write(m) ==
  /\ ~closed /\ Len(sent) < MaxMessages
  /\ sent' = Append(sent, m)
  /\ wire' = wire \o Framed(m)
  /\ UNCHANGED <<cut, closed, reader, header, remaining, buffer, received>>

Finish ==
  /\ ~closed
  /\ closed' = TRUE
  /\ UNCHANGED <<sent, cut, wire, reader, header, remaining, buffer, received>>

(* The connection is lost in the middle of a message. *)
Lose(m) ==
  /\ ~closed /\ Len(sent) < MaxMessages
  /\ sent' = Append(sent, m)
  /\ cut' = TRUE /\ closed' = TRUE
  /\ \E n \in 0..Len(Framed(m)) - 1 : wire' = wire \o SubSeq(Framed(m), 1, n)
  /\ UNCHANGED <<reader, header, remaining, buffer, received>>

-----------------------------------------------------------------------------
Taken(n) == SubSeq(wire, 1, n)
Left(n)  == SubSeq(wire, n + 1, Len(wire))

Receives(m) ==
  /\ received' = Append(received, m)
  /\ reader' = "header" /\ header' = << >> /\ remaining' = 0 /\ buffer' = << >>

EndsEarly ==
  /\ reader' = "eof"
  /\ UNCHANGED <<wire, header, remaining, buffer, received>>

(* read_exact waits for all it wants, or for the end of the stream. *)
Short(n) == closed /\ Len(wire) < n

ReadHeader ==
  /\ reader = "header"
  /\ \/ /\ Short(HeaderUnits) /\ EndsEarly
     \/ /\ Len(wire) >= HeaderUnits
        /\ header' = Taken(HeaderUnits) /\ wire' = Left(HeaderUnits)
        /\ reader' = IF wire[HeaderUnits] = Inline THEN "length" ELSE "hash"
        /\ UNCHANGED <<remaining, buffer, received>>
  /\ UNCHANGED <<sent, cut, closed>>

(* The length is no more than MAX_MESSAGE_SIZE, whatever was written: the  *)
(* test for it never fails.  An empty payload needs no read. *)
ReadLength ==
  /\ reader = "length"
  /\ \/ /\ Short(1) /\ EndsEarly
     \/ /\ Len(wire) >= 1
        /\ wire' = Left(1)
        /\ IF wire[1] = 0 THEN Receives(Message(header[1], header[2], Inline, << >>))
           ELSE /\ reader' = "body" /\ remaining' = wire[1] /\ buffer' = << >>
                /\ UNCHANGED <<header, received>>
  /\ UNCHANGED <<sent, cut, closed>>

(* Mutant: the buffer is not bounded by what remains of the message. *)
ReadBody_Unbounded ==
  /\ reader = "body"
  /\ \/ /\ Short(1) /\ EndsEarly
     \/ \E n \in 1..Len(wire) :
          /\ wire' = Left(n)
          /\ IF n >= remaining THEN Receives(Message(header[1], header[2], Inline, buffer \o Taken(n)))
             ELSE /\ buffer' = buffer \o Taken(n) /\ remaining' = remaining - n
                  /\ UNCHANGED <<reader, header, received>>
  /\ UNCHANGED <<sent, cut, closed>>

(* read_buf takes what has come, as far as the buffer has room: it was     *)
(* made for the payload alone. *)
ReadBody ==
  /\ reader = "body"
  /\ \/ /\ Short(1) /\ EndsEarly
     \/ \E n \in 1..Min({remaining, Len(wire)}) :
          /\ wire' = Left(n)
          /\ IF n = remaining THEN Receives(Message(header[1], header[2], Inline, buffer \o Taken(n)))
             ELSE /\ buffer' = buffer \o Taken(n) /\ remaining' = remaining - n
                  /\ UNCHANGED <<reader, header, received>>
  /\ UNCHANGED <<sent, cut, closed>>

ReadHash ==
  /\ reader = "hash"
  /\ \/ /\ Short(HashSize) /\ EndsEarly
     \/ /\ Len(wire) >= HashSize
        /\ wire' = Left(HashSize)
        /\ Receives(Message(header[1], header[2], Blob, Taken(HashSize)))
  /\ UNCHANGED <<sent, cut, closed>>

(* The caller drops the stream after an error. *)
Over == reader = "eof"
Dropped ==
  /\ Over
  /\ UNCHANGED frameVars

FrameNext ==
  \/ \E m \in Messages : Write(m) \/ Lose(m)
  \/ Finish
  \/ ReadHeader \/ ReadLength \/ ReadBody \/ ReadHash
  \/ Dropped

FrameSpec == FrameInit /\ [][FrameNext]_frameVars

-----------------------------------------------------------------------------
(* A payload of 2^16 bytes or more is framed with the length of another.   *)
TooLong(m) == m.kind = Inline /\ Len(m.data) >= LengthMod
InStep == SelectInSeq(sent, TooLong) - 1   \* messages before the first such one; -1: none is

(* Messages are received as they were sent, in order, none invented and    *)
(* none in part, up to the first that is too long for its length field:    *)
(* that one, and what follows it, may be received as anything.             *)
ReceivedAsSent ==
  LET safe == IF InStep = -1 THEN Len(sent) - (IF cut THEN 1 ELSE 0) ELSE InStep
      seen == Min({safe, Len(received)})
  IN  /\ SubSeq(received, 1, seen) = SubSeq(sent, 1, seen)
      /\ InStep = -1 => Len(received) =< safe
      /\ Over => Len(received) >= safe
=============================================================================
