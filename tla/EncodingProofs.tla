--------------------------- MODULE EncodingProofs ---------------------------
(***************************************************************************)
(* Proofs about what is written as bytes and read back: the framing of     *)
(* messages (Framing), for any messages, any number of them and any width  *)
(* of the length field; the values of serialize.rs (BinaryFormat), for any *)
(* values and any writer; and, with their literal widths, the varints of   *)
(* rebel/src/encoding.rs (BinaryFormat) and the boxed words of rebeldb     *)
(* and rebeldb-core, which nothing else uses and which are defined here.   *)
(*                                                                         *)
(* Of the framing: ReceivedAsSent is not inductive, it says nothing of the *)
(* bytes still on the wire.  FrameInv adds how they lie there, frame after *)
(* frame from where the reader stands, as long as no message was too long  *)
(* for its length: from there on the reader may find frames anywhere.      *)
(*                                                                         *)
(* Of the values: LoadsWhatWasSaved says nothing of the bytes to come      *)
(* either.  StreamInvariant adds the marks the serializer's visits left on *)
(* the stream.  The deserializer is always at one of them, and what it has *)
(* yet to read there is what the serializer had yet to visit.              *)
(***************************************************************************)
EXTENDS Framing, BinaryFormat, SequenceTheorems, WellFoundedInduction, TLAPS

-----------------------------------------------------------------------------
(* The framing: the inductive invariant.                                   *)

(* The messages that can be received as they were sent: all of it was      *)
(* written, and no message up to it is too long.                           *)
Clear(i) == i \in 0 .. Len(sent) /\ \A j \in 1 .. i : ~TooLong(sent[j])
CutAt    == IF cut THEN Len(sent) ELSE 0
Good(i)  == i \in 1 .. Len(sent) /\ Clear(i) /\ i # CutAt

FrameTypeOK ==
  /\ sent \in Seq(Messages) /\ wire \in Seq(Nat)
  /\ cut \in BOOLEAN /\ closed \in BOOLEAN
  /\ cut => closed /\ sent # << >>
  /\ reader \in {"header", "length", "body", "hash", "eof"}
  /\ header \in Seq(Nat) /\ remaining \in Nat /\ buffer \in Seq(Nat)
  /\ reader \in {"length", "body", "hash"} => Len(header) = HeaderUnits
  /\ received \in Seq([tag : Nat, format : Nat, kind : {Inline, Blob}, data : Seq(Nat)])

(* Where the messages that are not yet received end on the wire: e[i] is   *)
(* the place of the last unit of message i, and e[r] the place before the  *)
(* first unit of the message that is being read, at 0 or to the left of    *)
(* what is left of the wire.  Message c is there in part only.             *)
LayOut(e, w, s, c, r) ==
  /\ r \in 0 .. Len(s) /\ c \in {0, Len(s)}
  /\ e \in [r .. Len(s) -> Int]
  /\ e[Len(s)] = Len(w)
  /\ \A i \in r .. Len(s) : e[i] =< Len(w)
  /\ \A i \in r + 1 .. Len(s) :
       /\ IF i = c
            THEN e[i - 1] =< e[i] /\ e[i] < e[i - 1] + Len(Framed(s[i]))
            ELSE e[i] = e[i - 1] + Len(Framed(s[i]))
       /\ \A p \in 1 .. Len(w) :
            e[i - 1] < p /\ p =< e[i] => w[p] = Framed(s[i])[p - e[i - 1]]

(* What is written of the message m after s: all of it, or part of it, and *)
(* then it is the message c. *)
Opens(x, m, c, s) ==
  /\ IF c = 0 THEN Len(x) = Len(Framed(m)) ELSE c = Len(s) + 1 /\ Len(x) < Len(Framed(m))
  /\ \A j \in 1 .. Len(x) : x[j] = Framed(m)[j]

(* What a reader in state k, with the header h, the buffer b and q units   *)
(* of the payload to come, has taken of the message m, whose first unit    *)
(* is the one after place.                                                 *)
Reads(k, h, q, b, place, m) ==
  CASE k = "header" -> place = 0
    [] k = "length" -> m.kind = Inline /\ place = -3 /\ h[1] = m.tag /\ h[2] = m.format
    [] k = "hash"   -> m.kind = Blob /\ place = -3 /\ h[1] = m.tag /\ h[2] = m.format
    [] k = "body"   ->
         /\ m.kind = Inline /\ place = -(4 + Len(b))
         /\ h[1] = m.tag /\ h[2] = m.format
         /\ q > 0 /\ q + Len(b) = Len(m.data)
         /\ \A j \in 1 .. Len(b) : b[j] = m.data[j]
    [] OTHER -> FALSE

(* The reader is at the message r + 1, and what is left of the wire is     *)
(* what is left of it, and the messages after it.                          *)
Fits(e, w, s, c, k, h, q, b, r) ==
  /\ LayOut(e, w, s, c, r)
  /\ k # "header" => r < Len(s)
  /\ Reads(k, h, q, b, e[r], s[r + 1])

Aligned == \E e : Fits(e, wire, sent, CutAt, reader, header, remaining, buffer, Len(received))

(* The reader is not yet at a message that is too long, or just before it. *)
InReach ==
  LET r == Len(received)
  IN  Clear(r) /\ (reader # "header" /\ r < Len(sent) => ~TooLong(sent[r + 1]))

FrameInv ==
  /\ FrameTypeOK
  /\ \A i \in 1 .. Len(received) : Good(i) => received[i] = sent[i]
  /\ Clear(Len(sent)) => Len(received) =< Len(sent) - (IF cut THEN 1 ELSE 0)
  /\ reader # "eof" /\ InReach => Aligned
  /\ Over => closed /\ \A i \in 1 .. Len(sent) : Good(i) => i =< Len(received)

-----------------------------------------------------------------------------
(* The framing: what is on the wire.                                       *)

(* A length that is written in the length field, and read back. *)
LEMMA Modulo ==
  ASSUME NEW n \in Nat
  PROVE  n % LengthMod \in Nat /\ (n < LengthMod => n % LengthMod = n)
  BY FramingAssumption

(* The units of a framed message. *)
LEMMA FramedUnits ==
  ASSUME NEW m \in Messages
  PROVE  /\ m \in [tag : Nat, format : Nat, kind : {Inline, Blob}, data : Seq(Nat)]
         /\ Framed(m) \in Seq(Nat)
         /\ Len(Framed(m)) = IF m.kind = Inline THEN 4 + Len(m.data) ELSE 3 + HashSize
         /\ Framed(m)[1] = m.tag /\ Framed(m)[2] = m.format /\ Framed(m)[3] = m.kind
         /\ m.kind = Inline =>
              /\ Framed(m)[4] = Len(m.data) % LengthMod
              /\ \A j \in 1 .. Len(m.data) : Framed(m)[4 + j] = m.data[j]
         /\ m.kind = Blob =>
              /\ Len(m.data) = HashSize
              /\ \A j \in 1 .. HashSize : Framed(m)[3 + j] = m.data[j]
  <1>1. /\ m \in [tag : Nat, format : Nat, kind : {Inline, Blob}, data : Seq(Nat)]
        /\ m.kind = Blob => Len(m.data) = HashSize
        /\ Inline \in Nat /\ Blob \in Nat /\ Inline # Blob
        /\ Len(m.data) % LengthMod \in Nat
    <2>1. m.data \in Seq(Nat) /\ Len(m.data) \in Nat
      BY MessagesAssumption, LenProperties
    <2>2. Inline \in Nat /\ Blob \in Nat /\ Inline # Blob
      BY DEF Inline, Blob
    <2>3. QED
      BY <2>1, <2>2, MessagesAssumption, Modulo
  <1>2. CASE m.kind = Inline
    <2>1. PICK h : h = <<m.tag, m.format, Inline, Len(m.data) % LengthMod>>
      OBVIOUS
    <2>2. h \in Seq(Nat) /\ Len(h) = 4 /\ Framed(m) = h \o m.data
      BY <1>1, <1>2, <2>1 DEF Framed
    <2>3. /\ Framed(m) \in Seq(Nat) /\ Len(Framed(m)) = 4 + Len(m.data)
          /\ \A i \in 1 .. 4 + Len(m.data) : Framed(m)[i] = IF i =< 4 THEN h[i] ELSE m.data[i - 4]
      <3>1. /\ h \o m.data \in Seq(Nat) /\ Len(h \o m.data) = Len(h) + Len(m.data)
            /\ \A i \in 1 .. Len(h) + Len(m.data) :
                 (h \o m.data)[i] = IF i =< Len(h) THEN h[i] ELSE m.data[i - Len(h)]
        BY <1>1, <2>2, ConcatProperties
      <3>2. QED
        BY <2>2, <3>1
    <2>4. Len(m.data) \in Nat
      BY <1>1, LenProperties
    <2>5. \A j \in 1 .. Len(m.data) : Framed(m)[4 + j] = m.data[j]
      BY <2>3, <2>4
    <2>6. /\ Framed(m)[1] = h[1] /\ Framed(m)[2] = h[2] /\ Framed(m)[3] = h[3] /\ Framed(m)[4] = h[4]
      BY <2>3, <2>4
    <2>7. QED
      BY <1>1, <1>2, <2>1, <2>3, <2>5, <2>6
  <1>3. CASE m.kind = Blob
    <2>1. PICK h : h = <<m.tag, m.format, Blob>>
      OBVIOUS
    <2>2. h \in Seq(Nat) /\ Len(h) = 3 /\ Framed(m) = h \o m.data
      BY <1>1, <1>3, <2>1 DEF Framed
    <2>3. /\ Framed(m) \in Seq(Nat) /\ Len(Framed(m)) = 3 + HashSize
          /\ \A i \in 1 .. 3 + HashSize : Framed(m)[i] = IF i =< 3 THEN h[i] ELSE m.data[i - 3]
      <3>1. /\ h \o m.data \in Seq(Nat) /\ Len(h \o m.data) = Len(h) + Len(m.data)
            /\ \A i \in 1 .. Len(h) + Len(m.data) :
                 (h \o m.data)[i] = IF i =< Len(h) THEN h[i] ELSE m.data[i - Len(h)]
        BY <1>1, <2>2, ConcatProperties
      <3>2. QED
        BY <1>1, <1>3, <2>2, <3>1
    <2>4. \A j \in 1 .. HashSize : Framed(m)[3 + j] = m.data[j]
      BY <2>3, FramingAssumption
    <2>5. Framed(m)[1] = h[1] /\ Framed(m)[2] = h[2] /\ Framed(m)[3] = h[3]
      BY <2>3, FramingAssumption
    <2>6. QED
      BY <1>1, <1>3, <2>1, <2>3, <2>4, <2>5
  <1>4. QED
    BY <1>1, <1>2, <1>3

(* Taking units from the wire, the end of a message or of several included. *)
LEMMA LayOutTaken ==
  ASSUME NEW e, NEW w \in Seq(Nat), NEW s \in Seq(Messages), NEW c, NEW r \in Nat,
         LayOut(e, w, s, c, r), NEW n \in 0 .. Len(w), NEW q \in r .. Len(s)
  PROVE  \E f : /\ LayOut(f, SubSeq(w, n + 1, Len(w)), s, c, q)
                /\ \A i \in q .. Len(s) : f[i] = e[i] - n
  <1>1. PICK v : v = SubSeq(w, n + 1, Len(w))
    OBVIOUS
  <1>2. Len(w) \in Nat /\ Len(s) \in Nat
    BY LenProperties
  <1>3. Len(v) = Len(w) - n /\ \A p \in 1 .. Len(w) - n : v[p] = w[p + n]
    <2>1. \A i \in n + 1 .. Len(w) : w[i] \in Nat
      BY <1>2, ElementOfSeq
    <2>2. /\ Len(v) = IF n + 1 =< Len(w) THEN Len(w) - (n + 1) + 1 ELSE 0
          /\ \A i \in 1 .. Len(w) - (n + 1) + 1 : v[i] = w[(n + 1) + i - 1]
      BY <1>1, <1>2, <2>1, SubSeqProperties
    <2>3. QED
      BY <1>2, <2>2
  <1>4. PICK f : f = [i \in q .. Len(s) |-> e[i] - n]
    OBVIOUS
  <1>5. r \in Nat /\ q \in Nat /\ q =< Len(s) /\ r =< q /\ e \in [r .. Len(s) -> Int]
    BY <1>2 DEF LayOut
  <1>6. \A i \in q .. Len(s) : f[i] = e[i] - n /\ e[i] \in Int
    <2>1. \A i \in q .. Len(s) : f[i] = e[i] - n
      BY <1>4
    <2>2. \A i \in q .. Len(s) : i \in r .. Len(s)
      BY <1>2, <1>5
    <2>3. \A i \in r .. Len(s) : e[i] \in Int
      BY <1>5
    <2>4. QED
      BY <2>1, <2>2, <2>3
  <1>7. f \in [q .. Len(s) -> Int]
    BY <1>2, <1>4, <1>5
  <1>8. f[Len(s)] = Len(v) /\ \A i \in q .. Len(s) : f[i] =< Len(v)
    <2>1. e[Len(s)] = Len(w) /\ \A i \in r .. Len(s) : e[i] =< Len(w)
      BY DEF LayOut
    <2>2. Len(s) \in q .. Len(s) /\ \A i \in q .. Len(s) : i \in r .. Len(s)
      BY <1>2, <1>5
    <2>3. n \in Int /\ Len(w) \in Int /\ Len(v) = Len(w) - n
      BY <1>2, <1>3
    <2>4. f[Len(s)] = Len(v)
      BY <1>6, <2>1, <2>2, <2>3
    <2>5. ASSUME NEW i \in q .. Len(s) PROVE f[i] =< Len(v)
      <3>1. f[i] = e[i] - n /\ e[i] \in Int /\ e[i] =< Len(w)
        BY <1>6, <2>1, <2>2
      <3>2. QED
        BY <2>3, <3>1
    <2>6. QED
      BY <2>4, <2>5
  <1>9. ASSUME NEW i \in q + 1 .. Len(s)
        PROVE  /\ IF i = c
                    THEN f[i - 1] =< f[i] /\ f[i] < f[i - 1] + Len(Framed(s[i]))
                    ELSE f[i] = f[i - 1] + Len(Framed(s[i]))
               /\ \A p \in 1 .. Len(v) :
                    f[i - 1] < p /\ p =< f[i] => v[p] = Framed(s[i])[p - f[i - 1]]
    <2>1. /\ i \in r + 1 .. Len(s) /\ i \in q .. Len(s) /\ i - 1 \in q .. Len(s)
      BY <1>2, <1>5
    <2>2. /\ f[i] = e[i] - n /\ f[i - 1] = e[i - 1] - n /\ e[i] \in Int /\ e[i - 1] \in Int
      BY <1>6, <2>1
    <2>3. s[i] \in Messages
      BY <2>1, <1>5, <1>2, ElementOfSeq
    <2>4. Len(Framed(s[i])) \in Nat
      BY <2>3, FramedUnits, LenProperties
    <2>5. /\ IF i = c
               THEN e[i - 1] =< e[i] /\ e[i] < e[i - 1] + Len(Framed(s[i]))
               ELSE e[i] = e[i - 1] + Len(Framed(s[i]))
          /\ \A p \in 1 .. Len(w) :
               e[i - 1] < p /\ p =< e[i] => w[p] = Framed(s[i])[p - e[i - 1]]
      BY <2>1 DEF LayOut
    <2>6. ASSUME NEW p \in 1 .. Len(v), f[i - 1] < p, p =< f[i]
          PROVE  v[p] = Framed(s[i])[p - f[i - 1]]
      <3>1. p + n \in 1 .. Len(w) /\ e[i - 1] < p + n /\ p + n =< e[i] /\ v[p] = w[p + n]
        <4>1. p \in Int /\ p >= 1 /\ p =< Len(w) - n /\ n \in Nat
          BY <1>2, <1>3
        <4>2. e[i - 1] - n < p /\ p =< e[i] - n
          BY <2>2, <2>6
        <4>3. v[p] = w[p + n]
          BY <1>3, <4>1
        <4>4. p + n \in 1 .. Len(w)
          BY <1>2, <4>1
        <4>5. e[i - 1] < p + n /\ p + n =< e[i]
          BY <2>2, <4>1, <4>2, SMTT(30)
        <4>6. QED
          BY <4>3, <4>4, <4>5
      <3>2. (p + n) - e[i - 1] = p - f[i - 1]
        BY <1>2, <1>3, <2>2, SMTT(30)
      <3>3. QED
        BY <2>5, <3>1, <3>2
    <2>7. QED
      BY <2>2, <2>4, <2>5, <2>6, <1>2, SMTT(30)
  <1>10. LayOut(f, v, s, c, q)
    BY <1>2, <1>5, <1>7, <1>8, <1>9 DEF LayOut
  <1>11. QED
    BY <1>1, <1>6, <1>10

(* Writing a message, or the beginning of the last one. *)
LEMMA LayOutWritten ==
  ASSUME NEW e, NEW w \in Seq(Nat), NEW s \in Seq(Messages), NEW z, NEW r,
         LayOut(e, w, s, z, r), z = 0, NEW m \in Messages, NEW x \in Seq(Nat), NEW c,
         Opens(x, m, c, s)
  PROVE  \E f : /\ LayOut(f, w \o x, Append(s, m), c, r)
                /\ \A i \in r .. Len(s) : f[i] = e[i]
  <1>0. /\ IF c = 0 THEN Len(x) = Len(Framed(m)) ELSE c = Len(s) + 1 /\ Len(x) < Len(Framed(m))
        /\ c = 0 \/ c = Len(s) + 1
        /\ \A j \in 1 .. Len(x) : x[j] = Framed(m)[j]
    BY DEF Opens
  <1>1. PICK v : v = w \o x
    OBVIOUS
  <1>2. PICK t : t = Append(s, m)
    OBVIOUS
  <1>3. Len(w) \in Nat /\ Len(s) \in Nat /\ Len(x) \in Nat /\ Len(Framed(m)) \in Nat
    BY FramedUnits, LenProperties
  <1>4. /\ Len(v) = Len(w) + Len(x)
        /\ \A p \in 1 .. Len(w) + Len(x) : v[p] = IF p =< Len(w) THEN w[p] ELSE x[p - Len(w)]
    BY <1>1, ConcatProperties
  <1>5. /\ t \in Seq(Messages) /\ Len(t) = Len(s) + 1
        /\ \A i \in 1 .. Len(s) : t[i] = s[i]
        /\ t[Len(s) + 1] = m
    BY <1>2, AppendProperties
  <1>6. PICK f : f = [i \in r .. Len(s) + 1 |-> IF i = Len(s) + 1 THEN Len(w) + Len(x) ELSE e[i]]
    OBVIOUS
  <1>7. /\ r \in Nat /\ r =< Len(s) /\ e \in [r .. Len(s) -> Int]
        /\ e[Len(s)] = Len(w) /\ \A i \in r .. Len(s) : e[i] =< Len(w)
    BY <1>3 DEF LayOut
  <1>8. /\ f[Len(s) + 1] = Len(w) + Len(x)
        /\ \A i \in r .. Len(s) : f[i] = e[i] /\ e[i] \in Int
    <2>1. Len(s) + 1 \in r .. Len(s) + 1
      BY <1>3, <1>7
    <2>2. \A i \in r .. Len(s) : i \in r .. Len(s) + 1 /\ i # Len(s) + 1
      BY <1>3, <1>7
    <2>3. \A i \in r .. Len(s) : e[i] \in Int
      BY <1>7
    <2>4. QED
      BY <1>6, <2>1, <2>2, <2>3
  <1>9. f \in [r .. Len(t) -> Int]
    <2>1. ASSUME NEW i \in r .. Len(s) + 1 PROVE f[i] \in Int
      <3>1. CASE i = Len(s) + 1
        BY <1>3, <1>8, <3>1
      <3>2. CASE i # Len(s) + 1
        <4>1. i \in r .. Len(s)
          BY <1>3, <1>7, <3>2
        <4>2. QED
          BY <1>8, <4>1
      <3>3. QED
        BY <3>1, <3>2
    <2>2. QED
      BY <1>5, <1>6, <2>1
  <1>10. f[Len(t)] = Len(v)
    BY <1>4, <1>5, <1>8
  <1>11. ASSUME NEW i \in r .. Len(t) PROVE f[i] =< Len(v)
    <2>1. CASE i = Len(s) + 1
      BY <1>3, <1>4, <1>8, <2>1
    <2>2. CASE i # Len(s) + 1
      <3>1. i \in r .. Len(s)
        BY <1>3, <1>5, <1>7, <2>2
      <3>2. f[i] = e[i] /\ e[i] \in Int /\ e[i] =< Len(w)
        BY <1>7, <1>8, <3>1
      <3>3. QED
        BY <1>3, <1>4, <3>2
    <2>3. QED
      BY <2>1, <2>2
  <1>12. ASSUME NEW i \in r + 1 .. Len(t)
         PROVE  /\ IF i = c
                     THEN f[i - 1] =< f[i] /\ f[i] < f[i - 1] + Len(Framed(t[i]))
                     ELSE f[i] = f[i - 1] + Len(Framed(t[i]))
                /\ \A p \in 1 .. Len(v) :
                     f[i - 1] < p /\ p =< f[i] => v[p] = Framed(t[i])[p - f[i - 1]]
    <2>1. CASE i = Len(s) + 1
      <3>1. t[i] = m /\ f[i] = Len(w) + Len(x) /\ f[i - 1] = Len(w) /\ i = Len(t)
        <4>1. i - 1 = Len(s) /\ Len(s) \in r .. Len(s)
          BY <1>3, <1>7, <2>1
        <4>2. QED
          BY <1>5, <1>7, <1>8, <2>1, <4>1
      <3>2. ASSUME NEW p \in 1 .. Len(v), f[i - 1] < p, p =< f[i]
            PROVE  v[p] = Framed(t[i])[p - f[i - 1]]
        <4>1. p \in 1 .. Len(w) + Len(x) /\ ~(p =< Len(w)) /\ p - Len(w) \in 1 .. Len(x)
          BY <1>3, <1>4, <3>1, <3>2
        <4>2. v[p] = x[p - Len(w)]
          BY <1>4, <4>1
        <4>3. QED
          BY <1>0, <3>1, <4>1, <4>2
      <3>3. IF i = c
              THEN f[i - 1] =< f[i] /\ f[i] < f[i - 1] + Len(Framed(t[i]))
              ELSE f[i] = f[i - 1] + Len(Framed(t[i]))
        <4>1. CASE c # 0
          <5>1. c = i
            BY <1>0, <2>1, <4>1
          <5>2. QED
            BY <1>0, <1>3, <3>1, <4>1, <5>1
        <4>2. CASE c = 0
          <5>1. c # i
            BY <1>3, <2>1, <4>2
          <5>2. QED
            BY <1>0, <1>3, <3>1, <4>2, <5>1
        <4>3. QED
          BY <4>1, <4>2
      <3>4. QED
        BY <3>2, <3>3
    <2>2. CASE i # Len(s) + 1
      <3>1. i \in r + 1 .. Len(s) /\ i \in r .. Len(s) /\ i - 1 \in r .. Len(s) /\ i \in 1 .. Len(s)
        BY <1>3, <1>5, <1>7, <2>2
      <3>2. t[i] = s[i] /\ f[i] = e[i] /\ f[i - 1] = e[i - 1] /\ e[i] \in Int /\ e[i] =< Len(w)
        BY <1>5, <1>7, <1>8, <3>1
      <3>3. /\ e[i] = e[i - 1] + Len(Framed(s[i]))
            /\ \A p \in 1 .. Len(w) :
                 e[i - 1] < p /\ p =< e[i] => w[p] = Framed(s[i])[p - e[i - 1]]
        BY <3>1 DEF LayOut
      <3>4. i # c
        BY <1>0, <1>3, <2>2, <3>1
      <3>5. ASSUME NEW p \in 1 .. Len(v), f[i - 1] < p, p =< f[i]
            PROVE  v[p] = Framed(t[i])[p - f[i - 1]]
        <4>1. p \in 1 .. Len(w) /\ p \in 1 .. Len(w) + Len(x) /\ p =< Len(w)
          BY <1>3, <1>4, <3>2, <3>5
        <4>2. v[p] = w[p]
          BY <1>4, <4>1
        <4>3. QED
          BY <3>2, <3>3, <3>5, <4>1, <4>2
      <3>6. QED
        BY <3>2, <3>3, <3>4, <3>5
    <2>3. QED
      BY <2>1, <2>2
  <1>13. LayOut(f, v, t, c, r)
    BY <1>0, <1>3, <1>5, <1>7, <1>9, <1>10, <1>11, <1>12 DEF LayOut
  <1>14. QED
    BY <1>1, <1>2, <1>8, <1>13

(* The units at the head of the wire are those of the message being read,  *)
(* as far as it reaches; and all of it is there only if all of it was      *)
(* written.                                                                *)
LEMMA Ahead ==
  ASSUME NEW e, NEW w \in Seq(Nat), NEW s \in Seq(Messages), NEW c, NEW r \in Nat,
         LayOut(e, w, s, c, r), r < Len(s), NEW n \in 0 .. Len(w),
         e[r] =< 0, n =< e[r] + Len(Framed(s[r + 1]))
  PROVE  /\ e[r] \in Int /\ e[r + 1] \in Int
         /\ \A p \in 1 .. n : w[p] = Framed(s[r + 1])[p - e[r]]
         /\ n = e[r] + Len(Framed(s[r + 1])) => e[r + 1] = n /\ r + 1 # c
  <1>1. /\ r \in Nat /\ Len(s) \in Nat /\ Len(w) \in Nat
        /\ r \in r .. Len(s) /\ r + 1 \in r .. Len(s) /\ r + 1 \in r + 1 .. Len(s)
        /\ r + 1 \in 1 .. Len(s) /\ (r + 1) - 1 = r
    BY LenProperties DEF LayOut
  <1>2. s[r + 1] \in Messages /\ Len(Framed(s[r + 1])) \in Nat
    BY <1>1, ElementOfSeq, FramedUnits, LenProperties
  <1>3. e[r] \in Int /\ e[r + 1] \in Int /\ e[r + 1] =< Len(w) /\ e[Len(s)] = Len(w)
    BY <1>1 DEF LayOut
  <1>4. /\ IF r + 1 = c
             THEN e[r] =< e[r + 1] /\ e[r + 1] < e[r] + Len(Framed(s[r + 1]))
             ELSE e[r + 1] = e[r] + Len(Framed(s[r + 1]))
        /\ \A p \in 1 .. Len(w) :
             e[r] < p /\ p =< e[r + 1] => w[p] = Framed(s[r + 1])[p - e[r]]
    <2>1. \A i \in r + 1 .. Len(s) :
            /\ IF i = c
                 THEN e[i - 1] =< e[i] /\ e[i] < e[i - 1] + Len(Framed(s[i]))
                 ELSE e[i] = e[i - 1] + Len(Framed(s[i]))
            /\ \A p \in 1 .. Len(w) :
                 e[i - 1] < p /\ p =< e[i] => w[p] = Framed(s[i])[p - e[i - 1]]
      BY DEF LayOut
    <2>2. QED
      BY <1>1, <2>1
  <1>5. c \in {0, Len(s)}
    BY DEF LayOut
  <1>6. n =< e[r + 1] /\ (n = e[r] + Len(Framed(s[r + 1])) => e[r + 1] = n /\ r + 1 # c)
    <2>1. CASE r + 1 = c
      BY <1>1, <1>2, <1>3, <1>4, <1>5, <2>1
    <2>2. CASE r + 1 # c
      BY <1>1, <1>2, <1>3, <1>4, <1>5, <2>2
    <2>3. QED
      BY <2>1, <2>2
  <1>7. ASSUME NEW p \in 1 .. n PROVE w[p] = Framed(s[r + 1])[p - e[r]]
    <2>1. n \in Int /\ n =< Len(w) /\ n =< e[r + 1] /\ e[r] =< 0
      BY <1>1, <1>6
    <2>2. p \in Int /\ 1 =< p /\ p =< n /\ e[r] \in Int /\ e[r + 1] \in Int /\ Len(w) \in Nat
      BY <1>1, <1>3, <2>1
    <2>3. p \in 1 .. Len(w) /\ e[r] < p /\ p =< e[r + 1]
      BY <2>1, <2>2, SMTT(30)
    <2>4. QED
      BY <1>4, <2>3
  <1>8. QED
    BY <1>3, <1>6, <1>7

(* All that is left of a message is at the head of the wire: the next one  *)
(* follows. *)
LEMMA AllAhead ==
  ASSUME NEW e, NEW w \in Seq(Nat), NEW s \in Seq(Messages), NEW c, NEW r \in Nat,
         LayOut(e, w, s, c, r), r < Len(s), NEW n \in 0 .. Len(w),
         e[r] =< 0, n = e[r] + Len(Framed(s[r + 1]))
  PROVE  /\ r + 1 # c
         /\ \E f : LayOut(f, SubSeq(w, n + 1, Len(w)), s, c, r + 1) /\ f[r + 1] = 0
  <1>1. n =< e[r] + Len(Framed(s[r + 1]))
    <2>1. n \in Int
      BY LenProperties
    <2>2. QED
      BY <2>1
  <1>2. e[r + 1] = n /\ e[r + 1] \in Int /\ r + 1 # c
    <2>1. /\ e[r + 1] \in Int
          /\ n = e[r] + Len(Framed(s[r + 1])) => e[r + 1] = n /\ r + 1 # c
      BY <1>1, Ahead
    <2>2. QED
      BY <2>1
  <1>3. PICK q \in Nat : q = r + 1
    OBVIOUS
  <1>4. q \in r .. Len(s) /\ q \in q .. Len(s)
    BY <1>3, LenProperties DEF LayOut
  <1>5. PICK f : /\ LayOut(f, SubSeq(w, n + 1, Len(w)), s, c, q)
                 /\ \A i \in q .. Len(s) : f[i] = e[i] - n
    BY <1>4, LayOutTaken, SMTT(60)
  <1>6. f[q] = 0
    BY <1>2, <1>3, <1>4, <1>5
  <1>7. QED
    BY <1>2, <1>3, <1>5, <1>6

-----------------------------------------------------------------------------
(* The framing: the steps.                                                 *)

(* The sizes of the queues. *)
LEMMA Sizes ==
  ASSUME FrameTypeOK
  PROVE  /\ Len(sent) \in Nat /\ Len(wire) \in Nat /\ Len(received) \in Nat
         /\ Len(header) \in Nat /\ Len(buffer) \in Nat /\ remaining \in Nat
         /\ \A i \in 1 .. Len(sent) : sent[i] \in Messages
         /\ \A i \in 1 .. Len(wire) : wire[i] \in Nat
  <1>1. sent \in Seq(Messages) /\ wire \in Seq(Nat) /\ header \in Seq(Nat) /\ buffer \in Seq(Nat)
        /\ received \in Seq([tag : Nat, format : Nat, kind : {Inline, Blob}, data : Seq(Nat)])
        /\ remaining \in Nat
    BY DEF FrameTypeOK
  <1>2. /\ Len(sent) \in Nat /\ Len(wire) \in Nat /\ Len(received) \in Nat
        /\ Len(header) \in Nat /\ Len(buffer) \in Nat
    BY <1>1, LenProperties
  <1>3. \A i \in 1 .. Len(sent) : sent[i] \in Messages
    BY <1>1, ElementOfSeq
  <1>4. \A i \in 1 .. Len(wire) : wire[i] \in Nat
    BY <1>1, ElementOfSeq
  <1>5. QED
    BY <1>1, <1>2, <1>3, <1>4

(* What is being read does not depend on what is written after it. *)
LEMMA FitsWritten ==
  ASSUME NEW e, NEW w \in Seq(Nat), NEW s \in Seq(Messages), NEW z, NEW k, NEW h, NEW q, NEW b, NEW r,
         Fits(e, w, s, z, k, h, q, b, r), z = 0,
         NEW m \in Messages, NEW x \in Seq(Nat), NEW c,
         Opens(x, m, c, s)
  PROVE  \E f : Fits(f, w \o x, Append(s, m), c, k, h, q, b, r)
  <1>1. /\ LayOut(e, w, s, z, r)
        /\ k # "header" => r < Len(s)
        /\ Reads(k, h, q, b, e[r], s[r + 1])
    BY DEF Fits
  <1>2. PICK f : /\ LayOut(f, w \o x, Append(s, m), c, r)
                 /\ \A i \in r .. Len(s) : f[i] = e[i]
    BY <1>1, LayOutWritten
  <1>3. /\ Len(s) \in Nat /\ r \in Nat /\ r =< Len(s) /\ f[r] = e[r]
        /\ Len(Append(s, m)) = Len(s) + 1
        /\ \A i \in 1 .. Len(s) : Append(s, m)[i] = s[i]
    BY <1>1, <1>2, LenProperties, AppendProperties DEF LayOut
  <1>4. k # "header" => r < Len(Append(s, m))
    BY <1>1, <1>3
  <1>5. Reads(k, h, q, b, f[r], Append(s, m)[r + 1])
    <2>1. CASE k = "header"
      BY <1>1, <1>3, <2>1 DEF Reads
    <2>2. CASE k # "header"
      BY <1>1, <1>3, <2>2
    <2>3. QED
      BY <2>1, <2>2
  <1>6. QED
    BY <1>2, <1>4, <1>5 DEF Fits

(* Writing, all of a message or, with the end of the stream, a part of it. *)
LEMMA WritesKeep ==
  ASSUME FrameInv, ~closed, NEW m \in Messages, NEW x \in Seq(Nat), NEW c,
         Opens(x, m, c, sent),
         sent' = Append(sent, m), wire' = wire \o x, cut' = (c # 0),
         closed' \in BOOLEAN, c # 0 => closed',
         UNCHANGED <<reader, header, remaining, buffer, received>>
  PROVE  FrameInv'
  <1>1. ~cut /\ CutAt = 0 /\ reader # "eof"
    BY DEF FrameInv, FrameTypeOK, Over, CutAt
  <1>2. PICK n \in Nat : n = Len(sent)
    BY Sizes DEF FrameInv
  <1>3. PICK r \in Nat : r = Len(received)
    BY Sizes DEF FrameInv
  <1>4. /\ sent' \in Seq(Messages) /\ Len(sent') = n + 1 /\ sent' # << >>
        /\ \A i \in 1 .. n : sent'[i] = sent[i]
        /\ sent'[n + 1] = m
    <2>1. sent \in Seq(Messages)
      BY DEF FrameInv, FrameTypeOK
    <2>2. /\ Append(sent, m) \in Seq(Messages) /\ Len(Append(sent, m)) = n + 1 /\ Append(sent, m) # << >>
          /\ \A i \in 1 .. n : Append(sent, m)[i] = sent[i]
          /\ Append(sent, m)[n + 1] = m
      BY <1>2, <2>1, AppendProperties
    <2>3. QED
      BY <2>2
  <1>5. FrameTypeOK'
    <2>1. wire' \in Seq(Nat)
      BY ConcatProperties DEF FrameInv, FrameTypeOK
    <2>2. QED
      BY <1>4, <2>1 DEF FrameInv, FrameTypeOK
  <1>6. ASSUME NEW i \in 0 .. n PROVE Clear(i)' <=> Clear(i)
    <2>1. Clear(i)' <=> \A j \in 1 .. i : ~TooLong(sent'[j])
      <3>1. i \in 0 .. Len(sent')
        BY <1>2, <1>4
      <3>2. QED
        BY <3>1 DEF Clear, TooLong
    <2>2. Clear(i) <=> \A j \in 1 .. i : ~TooLong(sent[j])
      BY <1>2 DEF Clear
    <2>3. \A j \in 1 .. i : sent'[j] = sent[j]
      BY <1>4
    <2>4. QED
      BY <2>1, <2>2, <2>3
  <1>7. Clear(n + 1)' => Clear(n) /\ r =< n
    <2>1. Clear(n + 1)' => Clear(n)'
      BY <1>4 DEF Clear
    <2>2. Clear(n) => r =< n
      BY <1>1, <1>2, <1>3 DEF FrameInv
    <2>3. QED
      BY <1>6, <2>1, <2>2
  <1>8. ASSUME NEW i \in 1 .. r, Good(i)' PROVE received'[i] = sent'[i]
    <2>1. i \in 1 .. n + 1 /\ Clear(i)' /\ i # n + 1
      BY <1>3, <1>4, <1>7, <1>8 DEF Good
    <2>2. i \in 1 .. n /\ i \in 0 .. n
      BY <2>1
    <2>3. Good(i)
      BY <1>1, <1>2, <1>6, <2>1, <2>2 DEF Good
    <2>4. QED
      BY <1>3, <1>4, <2>2, <2>3 DEF FrameInv
  <1>9. Clear(n + 1)' => r =< n + 1 - (IF cut' THEN 1 ELSE 0)
    BY <1>7
  <1>10. ASSUME InReach' PROVE Aligned'
    <2>1. Clear(r)' /\ (reader # "header" /\ r < n + 1 => ~TooLong(sent'[r + 1]))
      BY <1>3, <1>4, <1>10 DEF InReach, TooLong
    <2>2. r =< n /\ r \in 0 .. n
      <3>1. r =< n + 1
        BY <1>4, <2>1 DEF Clear
      <3>2. QED
        BY <1>7, <2>1, <3>1
    <2>3. InReach
      <3>1. Clear(r)
        BY <1>6, <2>1, <2>2
      <3>2. ASSUME reader # "header", r < n PROVE ~TooLong(sent[r + 1])
        BY <1>4, <2>1, <3>2
      <3>3. QED
        BY <1>2, <1>3, <3>1, <3>2 DEF InReach
    <2>4. PICK e : Fits(e, wire, sent, CutAt, reader, header, remaining, buffer, r)
      BY <1>1, <1>3, <2>3 DEF FrameInv, Aligned
    <2>5. PICK f : Fits(f, wire \o x, Append(sent, m), c, reader, header, remaining, buffer, r)
      <3>1. wire \in Seq(Nat) /\ sent \in Seq(Messages)
        BY DEF FrameInv, FrameTypeOK
      <3>2. QED
        BY <1>1, <2>4, <3>1, FitsWritten
    <2>6. CutAt' = c
      <3>1. c = 0 \/ c = n + 1
        BY <1>2 DEF Opens
      <3>2. CutAt' = IF c # 0 THEN n + 1 ELSE 0
        BY <1>4 DEF CutAt
      <3>3. QED
        BY <3>1, <3>2
    <2>7. QED
      BY <1>3, <2>5, <2>6 DEF Aligned
  <1>11. Len(received)' = r /\ Len(sent)' = n + 1 /\ ~Over'
    BY <1>1, <1>3, <1>4 DEF Over
  <1>12. \A i \in 1 .. Len(received)' : Good(i)' => received'[i] = sent'[i]
    BY <1>8, <1>11
  <1>13. Clear(Len(sent))' => Len(received)' =< Len(sent)' - (IF cut' THEN 1 ELSE 0)
    <2>1. Clear(Len(sent))' <=> Clear(n + 1)'
      BY <1>4 DEF Clear
    <2>2. QED
      BY <1>9, <1>11, <2>1
  <1>14. QED
    BY <1>5, <1>10, <1>11, <1>12, <1>13 DEF FrameInv

(* What is clear, good and in reach depends on what was written alone, and *)
(* on where the reader is.                                                 *)
LEMMA SameSent ==
  ASSUME UNCHANGED <<sent, cut>>
  PROVE  /\ \A i : Clear(i)' <=> Clear(i)
         /\ \A i : Good(i)' <=> Good(i)
         /\ CutAt' = CutAt
  BY DEF Clear, Good, TooLong, CutAt

(* In reach, what is left of the wire fits what is left to receive. *)
LEMMA ReachFits ==
  ASSUME FrameInv, reader # "eof", InReach
  PROVE  \E e : /\ Fits(e, wire, sent, CutAt, reader, header, remaining, buffer, Len(received))
                /\ LayOut(e, wire, sent, CutAt, Len(received))
                /\ reader # "header" => Len(received) < Len(sent)
                /\ Reads(reader, header, remaining, buffer, e[Len(received)], sent[Len(received) + 1])
  BY DEF FrameInv, Aligned, Fits

(* The end of the stream, with nothing else, and no step at all. *)
LEMMA StreamKeeps ==
  ASSUME FrameInv, UNCHANGED <<sent, cut, wire, reader, header, remaining, buffer, received>>,
         closed' \in BOOLEAN, closed => closed'
  PROVE  FrameInv'
  <1>1. FrameTypeOK'
    BY DEF FrameInv, FrameTypeOK
  <1>2. /\ \A i : Clear(i)' <=> Clear(i)
        /\ \A i : Good(i)' <=> Good(i)
        /\ CutAt' = CutAt
    BY SameSent
  <1>3. InReach' <=> InReach
    BY <1>2 DEF InReach, TooLong
  <1>4. Aligned' <=> Aligned
    BY <1>2 DEF Aligned
  <1>5. Over' <=> Over
    BY DEF Over
  <1>6. QED
    BY <1>1, <1>2, <1>3, <1>4, <1>5 DEF FrameInv

(* The step takes n units more of the message that is being read, if it is *)
(* in reach.                                                               *)
GoesOn(n) ==
  \A e : /\ InReach
         /\ LayOut(e, wire, sent, CutAt, Len(received))
         /\ reader # "header" => Len(received) < Len(sent)
         /\ Reads(reader, header, remaining, buffer, e[Len(received)], sent[Len(received) + 1])
         /\ Len(received) < Len(sent) => ~TooLong(sent[Len(received) + 1])
         => /\ Len(received) < Len(sent)
            /\ Reads(reader', header', remaining', buffer', e[Len(received)] - n,
                     sent[Len(received) + 1])

(* Reading on within a message. *)
LEMMA ReadOnKeeps ==
  ASSUME FrameInv, reader # "eof", FrameTypeOK', UNCHANGED <<sent, cut, closed, received>>,
         reader' \in {"length", "hash", "body"},
         NEW n \in 0 .. Len(wire), wire' = Left(n),
         GoesOn(n)
  PROVE  FrameInv'
  <1>1. PICK r \in Nat : r = Len(received)
    BY Sizes DEF FrameInv
  <1>2. /\ \A i : Clear(i)' <=> Clear(i)
        /\ \A i : Good(i)' <=> Good(i)
        /\ CutAt' = CutAt
    BY SameSent
  <1>3. ASSUME InReach' PROVE Aligned'
    <2>1. Clear(r) /\ (r < Len(sent) => ~TooLong(sent[r + 1]))
      BY <1>1, <1>2, <1>3 DEF InReach, TooLong
    <2>2. InReach
      BY <1>1, <2>1 DEF InReach
    <2>3. PICK e : /\ LayOut(e, wire, sent, CutAt, r)
                   /\ reader # "header" => r < Len(sent)
                   /\ Reads(reader, header, remaining, buffer, e[r], sent[r + 1])
      BY <1>1, <2>2, ReachFits
    <2>4. r < Len(sent) /\ Reads(reader', header', remaining', buffer', e[r] - n, sent[r + 1])
      BY <1>1, <2>1, <2>2, <2>3 DEF GoesOn
    <2>5. sent \in Seq(Messages) /\ wire \in Seq(Nat) /\ Len(sent) \in Nat /\ r \in r .. Len(sent)
      BY <1>1, <2>4, Sizes DEF FrameInv, FrameTypeOK
    <2>6. PICK f : /\ LayOut(f, SubSeq(wire, n + 1, Len(wire)), sent, CutAt, r)
                   /\ \A i \in r .. Len(sent) : f[i] = e[i] - n
      BY <2>3, <2>5, LayOutTaken
    <2>7. f[r] = e[r] - n
      BY <2>5, <2>6
    <2>8. Fits(f, wire', sent, CutAt, reader', header', remaining', buffer', r)
      BY <2>4, <2>6, <2>7 DEF Fits, Left
    <2>9. QED
      BY <1>1, <1>2, <2>8 DEF Aligned
  <1>4. Len(received)' = Len(received) /\ Len(sent)' = Len(sent) /\ ~Over'
    BY DEF Over
  <1>5. QED
    BY <1>2, <1>3, <1>4 DEF FrameInv

(* The next n units of the wire are the rest of the message that is being  *)
(* read, if it is in reach, and it is msg.                                 *)
Completes(n, msg) ==
  \A e : /\ InReach
         /\ LayOut(e, wire, sent, CutAt, Len(received))
         /\ Len(received) < Len(sent)
         /\ Reads(reader, header, remaining, buffer, e[Len(received)], sent[Len(received) + 1])
         => /\ e[Len(received)] =< 0
            /\ n = e[Len(received)] + Len(Framed(sent[Len(received) + 1]))
            /\ msg = sent[Len(received) + 1]

(* The message that was being read is received. *)
LEMMA ReceiveKeeps ==
  ASSUME FrameInv, reader \notin {"eof", "header"}, UNCHANGED <<sent, cut, closed>>,
         NEW msg \in [tag : Nat, format : Nat, kind : {Inline, Blob}, data : Seq(Nat)],
         Receives(msg),
         NEW n \in 0 .. Len(wire), wire' = Left(n),
         Completes(n, msg)
  PROVE  FrameInv'
  <1>1. PICK r \in Nat : r = Len(received)
    BY Sizes DEF FrameInv
  <1>2. PICK N \in Nat : N = Len(sent)
    BY Sizes DEF FrameInv
  <1>3. /\ \A i : Clear(i)' <=> Clear(i)
        /\ \A i : Good(i)' <=> Good(i)
        /\ CutAt' = CutAt
    BY SameSent
  <1>4. /\ received' \in Seq([tag : Nat, format : Nat, kind : {Inline, Blob}, data : Seq(Nat)])
        /\ Len(received') = r + 1 /\ received'[r + 1] = msg
        /\ \A i \in 1 .. r : received'[i] = received[i]
    <2>1. received \in Seq([tag : Nat, format : Nat, kind : {Inline, Blob}, data : Seq(Nat)])
      BY DEF FrameInv, FrameTypeOK
    <2>2. received' = Append(received, msg)
      BY DEF Receives
    <2>3. /\ Append(received, msg) \in Seq([tag : Nat, format : Nat, kind : {Inline, Blob}, data : Seq(Nat)])
          /\ Len(Append(received, msg)) = r + 1 /\ Append(received, msg)[r + 1] = msg
          /\ \A i \in 1 .. r : Append(received, msg)[i] = received[i]
      BY <1>1, <2>1, AppendProperties
    <2>4. QED
      BY <2>2, <2>3
  <1>5. reader' = "header" /\ header' = << >> /\ remaining' = 0 /\ buffer' = << >>
    BY DEF Receives
  <1>6. sent \in Seq(Messages) /\ wire \in Seq(Nat)
    BY DEF FrameInv, FrameTypeOK
  <1>7. FrameTypeOK'
    <2>1. wire' \in Seq(Nat)
      <3>1. Len(wire) \in Nat /\ \A i \in n + 1 .. Len(wire) : wire[i] \in Nat
        BY <1>6, LenProperties, ElementOfSeq
      <3>2. SubSeq(wire, n + 1, Len(wire)) \in Seq(Nat)
        BY <1>6, <3>1, SubSeqProperties
      <3>3. QED
        BY <3>2 DEF Left
    <2>2. header' \in Seq(Nat) /\ buffer' \in Seq(Nat) /\ remaining' \in Nat
      BY <1>5
    <2>3. QED
      BY <1>4, <1>5, <2>1, <2>2 DEF FrameInv, FrameTypeOK
  <1>8. ASSUME Clear(r), r < N => ~TooLong(sent[r + 1])
        PROVE  /\ r < N /\ msg = sent[r + 1] /\ r + 1 # CutAt
               /\ \E f : LayOut(f, wire', sent, CutAt, r + 1) /\ f[r + 1] = 0
    <2>1. InReach
      BY <1>1, <1>2, <1>8 DEF InReach
    <2>2. PICK e : /\ LayOut(e, wire, sent, CutAt, r)
                   /\ r < N
                   /\ Reads(reader, header, remaining, buffer, e[r], sent[r + 1])
      BY <1>1, <1>2, <2>1, ReachFits
    <2>3. e[r] =< 0 /\ n = e[r] + Len(Framed(sent[r + 1])) /\ msg = sent[r + 1]
      BY <1>1, <1>2, <2>1, <2>2 DEF Completes
    <2>4. LayOut(e, wire, sent, CutAt, r) /\ r < Len(sent)
      BY <1>2, <2>2
    <2>5. /\ r + 1 # CutAt
          /\ \E f : LayOut(f, SubSeq(wire, n + 1, Len(wire)), sent, CutAt, r + 1) /\ f[r + 1] = 0
      BY <1>6, <2>3, <2>4, AllAhead
    <2>6. QED
      BY <2>2, <2>3, <2>5 DEF Left
  <1>9. ASSUME NEW i \in 1 .. r + 1, Good(i) PROVE received'[i] = sent[i]
    <2>1. CASE i = r + 1
      <3>1. Clear(r) /\ (r < N => ~TooLong(sent[r + 1]))
        BY <1>2, <1>9, <2>1 DEF Good, Clear
      <3>2. QED
        BY <1>4, <1>8, <2>1, <3>1
    <2>2. CASE i # r + 1
      <3>1. i \in 1 .. r
        BY <2>2
      <3>2. received[i] = sent[i]
        BY <1>1, <1>9, <3>1 DEF FrameInv
      <3>3. QED
        BY <1>4, <3>1, <3>2
    <2>3. QED
      BY <2>1, <2>2
  <1>10. ASSUME Clear(N) PROVE r + 1 =< N - (IF cut THEN 1 ELSE 0)
    <2>1. r =< N
      BY <1>1, <1>2, <1>10 DEF FrameInv
    <2>2. Clear(r) /\ (r < N => ~TooLong(sent[r + 1]))
      BY <1>2, <1>10, <2>1 DEF Clear
    <2>3. QED
      BY <1>2, <1>8, <2>2 DEF CutAt
  <1>11. ASSUME InReach' PROVE Aligned'
    <2>1. Clear(r + 1)
      BY <1>3, <1>4, <1>11 DEF InReach
    <2>2. Clear(r) /\ (r < N => ~TooLong(sent[r + 1]))
      <3>1. r + 1 =< N /\ \A j \in 1 .. r + 1 : ~TooLong(sent[j])
        BY <1>2, <2>1 DEF Clear
      <3>2. r \in 0 .. Len(sent) /\ r + 1 \in 1 .. r + 1 /\ \A j \in 1 .. r : j \in 1 .. r + 1
        BY <1>2, <3>1
      <3>3. QED
        BY <3>1, <3>2 DEF Clear
    <2>3. PICK f : LayOut(f, wire', sent, CutAt, r + 1) /\ f[r + 1] = 0
      BY <1>8, <2>2
    <2>4. Fits(f, wire', sent, CutAt, "header", header', remaining', buffer', r + 1)
      BY <2>3 DEF Fits, Reads
    <2>5. QED
      BY <1>3, <1>4, <1>5, <2>4 DEF Aligned
  <1>12. Len(received)' = r + 1 /\ Len(sent)' = N /\ ~Over'
    BY <1>2, <1>4, <1>5 DEF Over
  <1>13. \A i \in 1 .. r + 1 : Good(i)' => received'[i] = sent'[i]
    BY <1>3, <1>9
  <1>14. Clear(N)' => r + 1 =< N - (IF cut' THEN 1 ELSE 0)
    BY <1>3, <1>10
  <1>15. QED
    BY <1>7, <1>11, <1>12, <1>13, <1>14 DEF FrameInv

(* Less is left of the wire than of the message that is being read, if it  *)
(* is in reach.                                                            *)
StopsShort ==
  \A e : /\ InReach
         /\ LayOut(e, wire, sent, CutAt, Len(received))
         /\ Len(received) < Len(sent)
         /\ Reads(reader, header, remaining, buffer, e[Len(received)], sent[Len(received) + 1])
         => Len(wire) < e[Len(received)] + Len(Framed(sent[Len(received) + 1]))

(* The stream ends where there is no whole message. *)
LEMMA EndsEarlyKeeps ==
  ASSUME FrameInv, reader # "eof", closed, EndsEarly, UNCHANGED <<sent, cut, closed>>,
         StopsShort
  PROVE  FrameInv'
  <1>1. PICK r \in Nat : r = Len(received)
    BY Sizes DEF FrameInv
  <1>2. PICK N \in Nat : N = Len(sent)
    BY Sizes DEF FrameInv
  <1>3. /\ \A i : Clear(i)' <=> Clear(i)
        /\ \A i : Good(i)' <=> Good(i)
        /\ CutAt' = CutAt
    BY SameSent
  <1>4. reader' = "eof" /\ UNCHANGED <<wire, header, remaining, buffer, received>>
    BY DEF EndsEarly
  <1>5. FrameTypeOK'
    BY <1>4 DEF FrameInv, FrameTypeOK
  <1>6. ASSUME NEW i \in 1 .. N, Good(i), ~(i =< r) PROVE FALSE
    <2>1. /\ r + 1 \in 1 .. N /\ r < N /\ Clear(r) /\ ~TooLong(sent[r + 1])
          /\ r + 1 # CutAt
      <3>1. r + 1 # CutAt
        BY <1>2, <1>6 DEF Good, CutAt
      <3>2. QED
        BY <1>2, <1>6, <3>1 DEF Good, Clear
    <2>2. InReach
      BY <1>1, <1>2, <2>1 DEF InReach
    <2>3. PICK e : /\ LayOut(e, wire, sent, CutAt, r)
                   /\ Reads(reader, header, remaining, buffer, e[r], sent[r + 1])
      BY <1>1, <2>2, ReachFits
    <2>4. Len(wire) < e[r] + Len(Framed(sent[r + 1]))
      BY <1>1, <1>2, <2>1, <2>2, <2>3 DEF StopsShort
    <2>5. \A j \in r + 1 .. N : j # CutAt => e[j] = e[j - 1] + Len(Framed(sent[j]))
      BY <1>2, <2>3 DEF LayOut
    <2>6. e[r + 1] = e[r] + Len(Framed(sent[r + 1]))
      <3>1. r + 1 \in r + 1 .. N /\ (r + 1) - 1 = r
        BY <2>1
      <3>2. QED
        BY <2>1, <2>5, <3>1
    <2>7. e[r + 1] \in Int /\ e[r + 1] =< Len(wire) /\ Len(wire) \in Nat
      <3>1. r + 1 \in r .. Len(sent)
        BY <1>2, <2>1
      <3>2. QED
        BY <2>3, <3>1, Sizes DEF LayOut, FrameInv
    <2>8. QED
      BY <2>4, <2>6, <2>7
  <1>7. Len(received)' = Len(received) /\ Len(sent)' = Len(sent)
    BY <1>4
  <1>8. closed' /\ \A i \in 1 .. Len(sent) : Good(i)' => i =< Len(received)
    BY <1>1, <1>2, <1>3, <1>6, Sizes DEF FrameInv
  <1>9. QED
    BY <1>3, <1>4, <1>5, <1>7, <1>8 DEF FrameInv

(* The message that is being read. *)
LEMMA AtHand ==
  ASSUME FrameTypeOK, NEW e, NEW r \in Nat, LayOut(e, wire, sent, CutAt, r), r < Len(sent)
  PROVE  sent[r + 1] \in Messages /\ e[r] \in Int /\ Len(Framed(sent[r + 1])) \in Nat
  <1>1. Len(sent) \in Nat /\ r \in r .. Len(sent) /\ r + 1 \in 1 .. Len(sent)
    BY Sizes
  <1>2. sent[r + 1] \in Messages
    BY <1>1, Sizes
  <1>3. e[r] \in Int
    BY <1>1 DEF LayOut
  <1>4. QED
    BY <1>2, <1>3, FramedUnits, LenProperties

(* The next n units of the wire are the next ones of that message. *)
LEMMA HeadUnits ==
  ASSUME FrameTypeOK, NEW e, NEW r \in Nat, LayOut(e, wire, sent, CutAt, r), r < Len(sent),
         e[r] =< 0, NEW n \in 0 .. Len(wire), n =< e[r] + Len(Framed(sent[r + 1]))
  PROVE  \A p \in 1 .. n : wire[p] = Framed(sent[r + 1])[p - e[r]]
  <1>1. sent \in Seq(Messages) /\ wire \in Seq(Nat)
    BY DEF FrameTypeOK
  <1>2. QED
    BY <1>1, Ahead

(* What is taken from the wire, and what is left of it. *)
LEMMA TakenUnits ==
  ASSUME FrameTypeOK, NEW n \in 0 .. Len(wire)
  PROVE  /\ Taken(n) \in Seq(Nat) /\ Len(Taken(n)) = n
         /\ \A p \in 1 .. n : Taken(n)[p] = wire[p]
         /\ Left(n) \in Seq(Nat)
  <1>1. Len(wire) \in Nat /\ n \in Nat /\ n =< Len(wire) /\ \A i \in 1 .. Len(wire) : wire[i] \in Nat
    BY Sizes
  <1>2. /\ SubSeq(wire, 1, n) \in Seq(Nat)
        /\ Len(SubSeq(wire, 1, n)) = IF 1 =< n THEN n - 1 + 1 ELSE 0
        /\ \A i \in 1 .. n - 1 + 1 : SubSeq(wire, 1, n)[i] = wire[1 + i - 1]
    <2>1. \A i \in 1 .. n : wire[i] \in Nat
      BY <1>1
    <2>2. QED
      BY <1>1, <2>1, SubSeqProperties
  <1>3. SubSeq(wire, n + 1, Len(wire)) \in Seq(Nat)
    <2>1. \A i \in n + 1 .. Len(wire) : wire[i] \in Nat
      BY <1>1
    <2>2. QED
      BY <1>1, <2>1, SubSeqProperties
  <1>4. QED
    BY <1>1, <1>2, <1>3 DEF Taken, Left

(* The tag and the format in the header that was read. *)
LEMMA HeaderFields ==
  ASSUME FrameTypeOK, reader \in {"length", "body", "hash"}
  PROVE  header[1] \in Nat /\ header[2] \in Nat
  <1>1. header \in Seq(Nat) /\ Len(header) = 3
    BY DEF FrameTypeOK, HeaderUnits
  <1>2. \A i \in 1 .. 3 : header[i] \in Nat
    BY <1>1, ElementOfSeq
  <1>3. QED
    BY <1>2

(* The smaller of two numbers. *)
LEMMA MinOfTwo ==
  ASSUME NEW a \in Nat, NEW b \in Nat
  PROVE  Min({a, b}) = IF a =< b THEN a ELSE b
  <1>1. \E x \in {a, b} : \A y \in {a, b} : x =< y
    OBVIOUS
  <1>2. Min({a, b}) \in {a, b} /\ \A y \in {a, b} : Min({a, b}) =< y
    BY <1>1 DEF Min
  <1>3. QED
    BY <1>2

(* The header of a message. *)
LEMMA ReadHeaderKeeps ==
  ASSUME FrameInv, ReadHeader
  PROVE  FrameInv'
  <1>1. reader = "header" /\ FrameTypeOK /\ UNCHANGED <<sent, cut, closed>> /\ HeaderUnits = 3
    BY DEF ReadHeader, FrameInv, HeaderUnits
  <1>2. PICK r \in Nat : r = Len(received)
    BY <1>1, Sizes
  <1>3. ASSUME NEW e, LayOut(e, wire, sent, CutAt, r), r < Len(sent),
               Reads(reader, header, remaining, buffer, e[r], sent[r + 1])
        PROVE  /\ sent[r + 1] \in Messages /\ e[r] = 0
               /\ Len(Framed(sent[r + 1])) \in Nat /\ 3 =< Len(Framed(sent[r + 1]))
    <2>1. sent[r + 1] \in Messages /\ e[r] = 0
      BY <1>1, <1>3, AtHand DEF Reads
    <2>2. PICK m \in Messages : m = sent[r + 1]
      BY <2>1
    <2>3. Len(Framed(m)) = (IF m.kind = Inline THEN 4 + Len(m.data) ELSE 3 + HashSize) /\ Len(m.data) \in Nat
      BY FramedUnits, LenProperties
    <2>4. QED
      BY <2>1, <2>2, <2>3, FramingAssumption
  <1>4. CASE Short(HeaderUnits) /\ EndsEarly
    <2>1. Len(wire) < 3 /\ Len(wire) \in Nat /\ closed /\ EndsEarly
      BY <1>1, <1>4, Sizes DEF Short
    <2>2. StopsShort
      <3>1. ASSUME NEW e, LayOut(e, wire, sent, CutAt, r), r < Len(sent),
                   Reads(reader, header, remaining, buffer, e[r], sent[r + 1])
            PROVE  Len(wire) < e[r] + Len(Framed(sent[r + 1]))
        BY <1>3, <2>1, <3>1
      <3>2. QED
        BY <1>2, <3>1 DEF StopsShort
    <2>3. QED
      BY <1>1, <2>1, <2>2, EndsEarlyKeeps
  <1>5. CASE /\ Len(wire) >= HeaderUnits
             /\ header' = Taken(HeaderUnits) /\ wire' = Left(HeaderUnits)
             /\ reader' = IF wire[HeaderUnits] = Inline THEN "length" ELSE "hash"
             /\ UNCHANGED <<remaining, buffer, received>>
    <2>1. /\ 3 \in 0 .. Len(wire) /\ header' = Taken(3) /\ wire' = Left(3)
          /\ reader' = IF wire[3] = Inline THEN "length" ELSE "hash"
          /\ UNCHANGED <<remaining, buffer, received>>
      BY <1>1, <1>5, Sizes
    <2>2. /\ header' \in Seq(Nat) /\ Len(header') = 3 /\ wire' \in Seq(Nat)
          /\ \A p \in 1 .. 3 : header'[p] = wire[p]
      BY <1>1, <2>1, TakenUnits
    <2>3. FrameTypeOK'
      BY <1>1, <2>1, <2>2 DEF FrameTypeOK, HeaderUnits
    <2>4. GoesOn(3)
      <3>1. ASSUME NEW e, LayOut(e, wire, sent, CutAt, r),
                   Reads(reader, header, remaining, buffer, e[r], sent[r + 1])
            PROVE  /\ r < Len(sent)
                   /\ Reads(reader', header', remaining', buffer', e[r] - 3, sent[r + 1])
        <4>1. e[r] = 0
          BY <1>1, <3>1 DEF Reads
        <4>2. r < Len(sent)
          <5>1. r =< Len(sent) /\ Len(sent) \in Nat /\ e[Len(sent)] = Len(wire) /\ Len(wire) >= 3 /\ Len(wire) \in Nat
            BY <1>1, <2>1, <3>1, Sizes DEF LayOut
          <5>2. r # Len(sent)
            BY <4>1, <5>1
          <5>3. QED
            BY <5>1, <5>2
        <4>3. PICK m \in Messages : m = sent[r + 1]
          BY <1>3, <3>1, <4>2
        <4>4. e[r] =< 0 /\ 3 =< e[r] + Len(Framed(sent[r + 1]))
          BY <1>3, <3>1, <4>1, <4>2
        <4>5. \A p \in 1 .. 3 : wire[p] = Framed(sent[r + 1])[p - e[r]]
          BY <1>1, <2>1, <3>1, <4>2, <4>4, HeadUnits
        <4>6. wire[1] = Framed(m)[1] /\ wire[2] = Framed(m)[2] /\ wire[3] = Framed(m)[3]
          BY <4>1, <4>3, <4>5
        <4>7. wire[1] = m.tag /\ wire[2] = m.format /\ wire[3] = m.kind /\ m.kind \in {Inline, Blob}
          BY <4>6, FramedUnits
        <4>8. header'[1] = m.tag /\ header'[2] = m.format
          BY <2>2, <4>7
        <4>9. QED
          BY <2>1, <4>1, <4>2, <4>3, <4>7, <4>8 DEF Reads
      <3>2. QED
        BY <1>2, <3>1 DEF GoesOn
    <2>5. reader' \in {"length", "hash", "body"} /\ UNCHANGED received
      BY <2>1
    <2>6. QED
      BY <1>1, <2>1, <2>3, <2>4, <2>5, ReadOnKeeps
  <1>6. QED
    BY <1>4, <1>5 DEF ReadHeader

(* The length of an inline message, and the whole of an empty one. *)
LEMMA ReadLengthKeeps ==
  ASSUME FrameInv, ReadLength
  PROVE  FrameInv'
  <1>1. reader = "length" /\ FrameTypeOK /\ UNCHANGED <<sent, cut, closed>> /\ Len(header) = 3
    BY DEF ReadLength, FrameInv, FrameTypeOK, HeaderUnits
  <1>2. PICK r \in Nat : r = Len(received)
    BY <1>1, Sizes
  <1>3. ASSUME NEW e, LayOut(e, wire, sent, CutAt, r), r < Len(sent),
               Reads(reader, header, remaining, buffer, e[r], sent[r + 1])
        PROVE  /\ sent[r + 1] \in Messages /\ e[r] = -3
               /\ sent[r + 1].kind = Inline
               /\ header[1] = sent[r + 1].tag /\ header[2] = sent[r + 1].format
               /\ Len(sent[r + 1].data) \in Nat
               /\ Len(Framed(sent[r + 1])) = 4 + Len(sent[r + 1].data)
    <2>1. /\ e[r] = -3 /\ sent[r + 1].kind = Inline
          /\ header[1] = sent[r + 1].tag /\ header[2] = sent[r + 1].format
      BY <1>1, <1>3 DEF Reads
    <2>2. sent[r + 1] \in Messages
      BY <1>1, <1>3, AtHand
    <2>3. PICK m \in Messages : m = sent[r + 1]
      BY <2>2
    <2>4. Len(Framed(m)) = (IF m.kind = Inline THEN 4 + Len(m.data) ELSE 3 + HashSize) /\ Len(m.data) \in Nat
      BY FramedUnits, LenProperties
    <2>5. QED
      BY <2>1, <2>2, <2>3, <2>4
  <1>4. ASSUME NEW e, LayOut(e, wire, sent, CutAt, r), r < Len(sent), Len(wire) >= 1,
               Reads(reader, header, remaining, buffer, e[r], sent[r + 1]), ~TooLong(sent[r + 1])
        PROVE  wire[1] = Len(sent[r + 1].data)
    <2>1. PICK m \in Messages : m = sent[r + 1]
      BY <1>3, <1>4
    <2>2. /\ e[r] = -3 /\ m.kind = Inline /\ Len(m.data) \in Nat
          /\ Len(Framed(sent[r + 1])) = 4 + Len(sent[r + 1].data) /\ Len(sent[r + 1].data) \in Nat
      BY <1>3, <1>4, <2>1
    <2>3. 1 \in 0 .. Len(wire) /\ e[r] =< 0 /\ 1 =< e[r] + Len(Framed(sent[r + 1]))
      BY <1>1, <1>4, <2>2, Sizes
    <2>4. \A p \in 1 .. 1 : wire[p] = Framed(sent[r + 1])[p - e[r]]
      BY <1>1, <1>4, <2>3, HeadUnits
    <2>5. wire[1] = Framed(m)[4]
      BY <2>1, <2>2, <2>4
    <2>6. Framed(m)[4] = Len(m.data) % LengthMod
      BY <2>2, FramedUnits
    <2>7. Len(m.data) < LengthMod
      BY <1>4, <2>1, <2>2, FramingAssumption DEF TooLong
    <2>8. QED
      BY <2>1, <2>2, <2>5, <2>6, <2>7, Modulo
  <1>5. CASE Short(1) /\ EndsEarly
    <2>1. Len(wire) < 1 /\ Len(wire) \in Nat /\ closed /\ EndsEarly
      BY <1>1, <1>5, Sizes DEF Short
    <2>2. StopsShort
      <3>1. ASSUME NEW e, LayOut(e, wire, sent, CutAt, r), r < Len(sent),
                   Reads(reader, header, remaining, buffer, e[r], sent[r + 1])
            PROVE  Len(wire) < e[r] + Len(Framed(sent[r + 1]))
        BY <1>3, <2>1, <3>1
      <3>2. QED
        BY <1>2, <3>1 DEF StopsShort
    <2>3. QED
      BY <1>1, <2>1, <2>2, EndsEarlyKeeps
  <1>6. ASSUME Len(wire) >= 1, wire' = Left(1), wire[1] = 0,
               Receives(Message(header[1], header[2], Inline, << >>))
        PROVE  FrameInv'
    <2>1. PICK msg : msg = Message(header[1], header[2], Inline, << >>)
      OBVIOUS
    <2>2. msg \in [tag : Nat, format : Nat, kind : {Inline, Blob}, data : Seq(Nat)]
      <3>1. header[1] \in Nat /\ header[2] \in Nat
        BY <1>1, HeaderFields
      <3>2. << >> \in Seq(Nat)
        OBVIOUS
      <3>3. QED
        BY <2>1, <3>1, <3>2 DEF Message
    <2>3. 1 \in 0 .. Len(wire)
      BY <1>1, <1>6, Sizes
    <2>4. Completes(1, msg)
      <3>1. ASSUME NEW e, InReach, LayOut(e, wire, sent, CutAt, r), r < Len(sent),
                   Reads(reader, header, remaining, buffer, e[r], sent[r + 1])
            PROVE  e[r] =< 0 /\ 1 = e[r] + Len(Framed(sent[r + 1])) /\ msg = sent[r + 1]
        <4>1. ~TooLong(sent[r + 1])
          BY <1>1, <1>2, <3>1 DEF InReach
        <4>2. Len(sent[r + 1].data) = 0
          BY <1>4, <1>6, <3>1, <4>1
        <4>3. /\ e[r] = -3 /\ Len(Framed(sent[r + 1])) = 4 + Len(sent[r + 1].data)
          BY <1>3, <3>1
        <4>4. PICK m \in Messages : m = sent[r + 1]
          BY <1>3, <3>1
        <4>5. m.kind = Inline /\ header[1] = m.tag /\ header[2] = m.format /\ m.data \in Seq(Nat)
              /\ m \in [tag : Nat, format : Nat, kind : {Inline, Blob}, data : Seq(Nat)]
          BY <1>3, <3>1, <4>4, FramedUnits
        <4>6. m.data = << >>
          BY <4>2, <4>4, <4>5, EmptySeq
        <4>7. msg = m
          BY <2>1, <4>5, <4>6 DEF Message
        <4>8. QED
          BY <4>2, <4>3, <4>4, <4>7
      <3>2. QED
        BY <1>2, <3>1 DEF Completes
    <2>5. Receives(msg) /\ reader \notin {"eof", "header"}
      BY <1>1, <1>6, <2>1
    <2>6. QED
      BY <1>1, <1>6, <2>2, <2>3, <2>4, <2>5, ReceiveKeeps
  <1>7. ASSUME Len(wire) >= 1, wire' = Left(1), wire[1] # 0,
               reader' = "body", remaining' = wire[1], buffer' = << >>,
               UNCHANGED <<header, received>>
        PROVE  FrameInv'
    <2>1. 1 \in 0 .. Len(wire) /\ wire[1] \in Nat
      BY <1>1, <1>7, Sizes
    <2>2. wire' \in Seq(Nat)
      BY <1>1, <1>7, <2>1, TakenUnits
    <2>3. FrameTypeOK'
      <3>1. << >> \in Seq(Nat)
        OBVIOUS
      <3>2. QED
        BY <1>1, <1>7, <2>1, <2>2, <3>1 DEF FrameTypeOK
    <2>4. GoesOn(1)
      <3>1. ASSUME NEW e, LayOut(e, wire, sent, CutAt, r), r < Len(sent), ~TooLong(sent[r + 1]),
                   Reads(reader, header, remaining, buffer, e[r], sent[r + 1])
            PROVE  Reads(reader', header', remaining', buffer', e[r] - 1, sent[r + 1])
        <4>1. wire[1] = Len(sent[r + 1].data)
          BY <1>4, <1>7, <3>1
        <4>2. /\ e[r] = -3 /\ sent[r + 1].kind = Inline
              /\ header'[1] = sent[r + 1].tag /\ header'[2] = sent[r + 1].format
          BY <1>3, <1>7, <3>1
        <4>3. Len(buffer') = 0
          BY <1>7
        <4>4. e[r] - 1 = -(4 + Len(buffer')) /\ remaining' > 0
              /\ remaining' + Len(buffer') = Len(sent[r + 1].data)
          BY <1>7, <2>1, <4>1, <4>2, <4>3
        <4>5. \A j \in 1 .. Len(buffer') : buffer'[j] = sent[r + 1].data[j]
          BY <4>3
        <4>6. QED
          BY <1>7, <4>2, <4>4, <4>5 DEF Reads
      <3>2. QED
        BY <1>1, <1>2, <3>1 DEF GoesOn
    <2>5. reader' \in {"length", "hash", "body"} /\ reader # "eof" /\ UNCHANGED received
      BY <1>1, <1>7
    <2>6. QED
      BY <1>1, <1>7, <2>1, <2>3, <2>4, <2>5, ReadOnKeeps
  <1>8. QED
    BY <1>5, <1>6, <1>7 DEF ReadLength

(* The hash of a blob. *)
LEMMA ReadHashKeeps ==
  ASSUME FrameInv, ReadHash
  PROVE  FrameInv'
  <1>1. reader = "hash" /\ FrameTypeOK /\ UNCHANGED <<sent, cut, closed>> /\ Len(header) = 3 /\ HashSize \in Nat
    BY FramingAssumption DEF ReadHash, FrameInv, FrameTypeOK, HeaderUnits
  <1>2. PICK r \in Nat : r = Len(received)
    BY <1>1, Sizes
  <1>3. ASSUME NEW e, LayOut(e, wire, sent, CutAt, r), r < Len(sent),
               Reads(reader, header, remaining, buffer, e[r], sent[r + 1])
        PROVE  /\ sent[r + 1] \in Messages /\ e[r] = -3
               /\ sent[r + 1].kind = Blob
               /\ header[1] = sent[r + 1].tag /\ header[2] = sent[r + 1].format
               /\ Len(Framed(sent[r + 1])) = 3 + HashSize
    <2>1. /\ e[r] = -3 /\ sent[r + 1].kind = Blob
          /\ header[1] = sent[r + 1].tag /\ header[2] = sent[r + 1].format
      BY <1>1, <1>3 DEF Reads
    <2>2. sent[r + 1] \in Messages
      BY <1>1, <1>3, AtHand
    <2>3. PICK m \in Messages : m = sent[r + 1]
      BY <2>2
    <2>4. Len(Framed(m)) = (IF m.kind = Inline THEN 4 + Len(m.data) ELSE 3 + HashSize)
      BY FramedUnits
    <2>5. QED
      BY <2>1, <2>2, <2>3, <2>4 DEF Inline, Blob
  <1>4. CASE Short(HashSize) /\ EndsEarly
    <2>1. Len(wire) < HashSize /\ Len(wire) \in Nat /\ closed /\ EndsEarly
      BY <1>1, <1>4, Sizes DEF Short
    <2>2. StopsShort
      <3>1. ASSUME NEW e, LayOut(e, wire, sent, CutAt, r), r < Len(sent),
                   Reads(reader, header, remaining, buffer, e[r], sent[r + 1])
            PROVE  Len(wire) < e[r] + Len(Framed(sent[r + 1]))
        <4>1. e[r] = -3 /\ Len(Framed(sent[r + 1])) = 3 + HashSize
          BY <1>3, <3>1
        <4>2. QED
          BY <1>1, <2>1, <4>1
      <3>2. QED
        BY <1>2, <3>1 DEF StopsShort
    <2>3. QED
      BY <1>1, <2>1, <2>2, EndsEarlyKeeps
  <1>5. CASE /\ Len(wire) >= HashSize
             /\ wire' = Left(HashSize)
             /\ Receives(Message(header[1], header[2], Blob, Taken(HashSize)))
    <2>1. PICK msg : msg = Message(header[1], header[2], Blob, Taken(HashSize))
      OBVIOUS
    <2>2. HashSize \in 0 .. Len(wire)
      BY <1>1, <1>5, Sizes
    <2>3. /\ Taken(HashSize) \in Seq(Nat) /\ Len(Taken(HashSize)) = HashSize
          /\ \A p \in 1 .. HashSize : Taken(HashSize)[p] = wire[p]
      BY <1>1, <2>2, TakenUnits
    <2>4. msg \in [tag : Nat, format : Nat, kind : {Inline, Blob}, data : Seq(Nat)]
      <3>1. header[1] \in Nat /\ header[2] \in Nat
        BY <1>1, HeaderFields
      <3>2. QED
        BY <2>1, <2>3, <3>1 DEF Message
    <2>5. Completes(HashSize, msg)
      <3>1. ASSUME NEW e, LayOut(e, wire, sent, CutAt, r), r < Len(sent),
                   Reads(reader, header, remaining, buffer, e[r], sent[r + 1])
            PROVE  e[r] =< 0 /\ HashSize = e[r] + Len(Framed(sent[r + 1])) /\ msg = sent[r + 1]
        <4>1. e[r] = -3 /\ Len(Framed(sent[r + 1])) = 3 + HashSize
          BY <1>3, <3>1
        <4>2. PICK m \in Messages : m = sent[r + 1]
          BY <1>3, <3>1
        <4>3. /\ m.kind = Blob /\ header[1] = m.tag /\ header[2] = m.format
              /\ m \in [tag : Nat, format : Nat, kind : {Inline, Blob}, data : Seq(Nat)]
              /\ Len(m.data) = HashSize /\ m.data \in Seq(Nat)
              /\ \A j \in 1 .. HashSize : Framed(m)[3 + j] = m.data[j]
          <5>1. m.kind = Blob /\ header[1] = m.tag /\ header[2] = m.format
            BY <1>3, <3>1, <4>2
          <5>2. QED
            BY <5>1, FramedUnits
        <4>4. e[r] =< 0 /\ HashSize =< e[r] + Len(Framed(sent[r + 1]))
          BY <1>1, <4>1
        <4>5. \A p \in 1 .. HashSize : wire[p] = Framed(sent[r + 1])[p - e[r]]
          BY <1>1, <2>2, <3>1, <4>4, HeadUnits
        <4>6. ASSUME NEW j \in 1 .. HashSize PROVE Taken(HashSize)[j] = m.data[j]
          <5>1. wire[j] = Framed(m)[j - e[r]] /\ j - e[r] = 3 + j
            BY <1>1, <4>1, <4>2, <4>5
          <5>2. QED
            BY <2>3, <4>3, <5>1
        <4>7. Taken(HashSize) = m.data
          BY <2>3, <4>3, <4>6, SeqEqual
        <4>8. msg = m
          BY <2>1, <4>3, <4>7 DEF Message
        <4>9. QED
          BY <1>1, <4>1, <4>2, <4>8
      <3>2. QED
        BY <1>2, <3>1 DEF Completes
    <2>6. Receives(msg) /\ reader \notin {"eof", "header"}
      BY <1>1, <1>5, <2>1
    <2>7. QED
      BY <1>1, <1>5, <2>2, <2>4, <2>5, <2>6, ReceiveKeeps
  <1>6. QED
    BY <1>4, <1>5 DEF ReadHash

(* The payload of an inline message, in pieces. *)
LEMMA ReadBodyKeeps ==
  ASSUME FrameInv, ReadBody
  PROVE  FrameInv'
  <1>1. reader = "body" /\ FrameTypeOK /\ UNCHANGED <<sent, cut, closed>>
    BY DEF ReadBody, FrameInv
  <1>2. PICK r \in Nat : r = Len(received)
    BY <1>1, Sizes
  <1>3. Len(buffer) \in Nat /\ remaining \in Nat /\ Len(wire) \in Nat /\ buffer \in Seq(Nat)
    BY <1>1, Sizes DEF FrameTypeOK
  <1>4. ASSUME NEW e, LayOut(e, wire, sent, CutAt, r), r < Len(sent),
               Reads(reader, header, remaining, buffer, e[r], sent[r + 1])
        PROVE  /\ sent[r + 1] \in Messages /\ e[r] = -(4 + Len(buffer))
               /\ sent[r + 1].kind = Inline
               /\ header[1] = sent[r + 1].tag /\ header[2] = sent[r + 1].format
               /\ remaining > 0 /\ remaining + Len(buffer) = Len(sent[r + 1].data)
               /\ \A j \in 1 .. Len(buffer) : buffer[j] = sent[r + 1].data[j]
               /\ Len(Framed(sent[r + 1])) = 4 + Len(sent[r + 1].data)
    <2>1. /\ e[r] = -(4 + Len(buffer)) /\ sent[r + 1].kind = Inline
          /\ header[1] = sent[r + 1].tag /\ header[2] = sent[r + 1].format
          /\ remaining > 0 /\ remaining + Len(buffer) = Len(sent[r + 1].data)
          /\ \A j \in 1 .. Len(buffer) : buffer[j] = sent[r + 1].data[j]
      BY <1>1, <1>4 DEF Reads
    <2>2. sent[r + 1] \in Messages
      BY <1>1, <1>4, AtHand
    <2>3. PICK m \in Messages : m = sent[r + 1]
      BY <2>2
    <2>4. Len(Framed(m)) = (IF m.kind = Inline THEN 4 + Len(m.data) ELSE 3 + HashSize)
      BY FramedUnits
    <2>5. QED
      BY <2>1, <2>2, <2>3, <2>4
  <1>5. CASE Short(1) /\ EndsEarly
    <2>1. Len(wire) < 1 /\ closed /\ EndsEarly
      BY <1>5 DEF Short
    <2>2. StopsShort
      <3>1. ASSUME NEW e, LayOut(e, wire, sent, CutAt, r), r < Len(sent),
                   Reads(reader, header, remaining, buffer, e[r], sent[r + 1])
            PROVE  Len(wire) < e[r] + Len(Framed(sent[r + 1]))
        <4>1. /\ e[r] = -(4 + Len(buffer)) /\ remaining > 0
              /\ remaining + Len(buffer) = Len(sent[r + 1].data)
              /\ Len(Framed(sent[r + 1])) = 4 + Len(sent[r + 1].data)
          BY <1>4, <3>1
        <4>2. Len(Framed(sent[r + 1])) = 4 + (remaining + Len(buffer))
          BY <4>1
        <4>3. ASSUME NEW place, NEW size,
                     place = -(4 + Len(buffer)), size = 4 + (remaining + Len(buffer))
              PROVE  Len(wire) < place + size
          <5>1. place + size = remaining
            BY <1>3, <4>3
          <5>2. Len(wire) = 0 /\ remaining > 0
            BY <1>3, <2>1, <4>1
          <5>3. QED
            BY <1>3, <5>1, <5>2
        <4>4. QED
          BY <4>1, <4>2, <4>3
      <3>2. QED
        BY <1>2, <3>1 DEF StopsShort
    <2>3. QED
      BY <1>1, <2>1, <2>2, EndsEarlyKeeps
  <1>6. ASSUME NEW n \in 1 .. Min({remaining, Len(wire)})
        PROVE  /\ n \in 0 .. Len(wire) /\ n \in Nat /\ 1 =< n /\ n =< remaining
               /\ Taken(n) \in Seq(Nat) /\ Len(Taken(n)) = n /\ Left(n) \in Seq(Nat)
               /\ buffer \o Taken(n) \in Seq(Nat) /\ Len(buffer \o Taken(n)) = Len(buffer) + n
               /\ \A j \in 1 .. Len(buffer) + n :
                    (buffer \o Taken(n))[j] = IF j =< Len(buffer) THEN buffer[j] ELSE wire[j - Len(buffer)]
    <2>1. n \in 0 .. Len(wire) /\ n \in Nat /\ 1 =< n /\ n =< remaining
      BY <1>3, <1>6, MinOfTwo
    <2>2. /\ Taken(n) \in Seq(Nat) /\ Len(Taken(n)) = n /\ Left(n) \in Seq(Nat)
          /\ \A p \in 1 .. n : Taken(n)[p] = wire[p]
      BY <1>1, <2>1, TakenUnits
    <2>3. /\ buffer \o Taken(n) \in Seq(Nat) /\ Len(buffer \o Taken(n)) = Len(buffer) + Len(Taken(n))
          /\ \A j \in 1 .. Len(buffer) + Len(Taken(n)) :
               (buffer \o Taken(n))[j] = IF j =< Len(buffer) THEN buffer[j] ELSE Taken(n)[j - Len(buffer)]
      BY <1>3, <2>2, ConcatProperties
    <2>4. ASSUME NEW j \in 1 .. Len(buffer) + n
          PROVE  (buffer \o Taken(n))[j] = IF j =< Len(buffer) THEN buffer[j] ELSE wire[j - Len(buffer)]
      <3>1. (buffer \o Taken(n))[j] = IF j =< Len(buffer) THEN buffer[j] ELSE Taken(n)[j - Len(buffer)]
        BY <2>2, <2>3
      <3>2. j > Len(buffer) => j - Len(buffer) \in 1 .. n
        BY <1>3, <2>1
      <3>3. QED
        BY <1>3, <2>2, <3>1, <3>2
    <2>5. QED
      BY <2>1, <2>2, <2>3, <2>4
  <1>7. ASSUME NEW n \in 1 .. Min({remaining, Len(wire)}),
               NEW e, LayOut(e, wire, sent, CutAt, r), r < Len(sent),
               Reads(reader, header, remaining, buffer, e[r], sent[r + 1]),
               NEW j \in 1 .. Len(buffer) + n
        PROVE  (buffer \o Taken(n))[j] = sent[r + 1].data[j]
    <2>1. PICK m \in Messages : m = sent[r + 1]
      BY <1>4, <1>7
    <2>2. /\ e[r] = -(4 + Len(buffer)) /\ m.kind = Inline /\ remaining + Len(buffer) = Len(m.data)
          /\ \A i \in 1 .. Len(buffer) : buffer[i] = m.data[i]
          /\ Len(Framed(sent[r + 1])) = 4 + (remaining + Len(buffer))
      BY <1>4, <1>7, <2>1
    <2>3. /\ n \in 0 .. Len(wire) /\ n \in Nat /\ 1 =< n /\ n =< remaining
          /\ (buffer \o Taken(n))[j] = IF j =< Len(buffer) THEN buffer[j] ELSE wire[j - Len(buffer)]
      BY <1>6, <1>7
    <2>4. CASE j =< Len(buffer)
      BY <1>3, <2>1, <2>2, <2>3, <2>4
    <2>5. CASE ~(j =< Len(buffer))
      <3>1. e[r] =< 0 /\ n =< e[r] + Len(Framed(sent[r + 1]))
        BY <1>3, <2>2, <2>3
      <3>2. \A p \in 1 .. n : wire[p] = Framed(sent[r + 1])[p - e[r]]
        BY <1>1, <1>7, <2>3, <3>1, HeadUnits
      <3>3. /\ j - Len(buffer) \in 1 .. n /\ j \in 1 .. Len(m.data)
            /\ (j - Len(buffer)) - e[r] = 4 + j
        <4>1. PICK b, l, place, q : b = Len(buffer) /\ l = Len(m.data) /\ place = e[r] /\ q = remaining
          OBVIOUS
        <4>2. b \in Nat /\ q \in Nat /\ q + b = l /\ place = -(4 + b)
          BY <1>3, <2>2, <4>1
        <4>3. n \in Nat /\ n =< q /\ j \in 1 .. b + n /\ ~(j =< b)
          BY <2>3, <2>5, <4>1
        <4>4. j - b \in 1 .. n /\ j \in 1 .. l /\ (j - b) - place = 4 + j
          BY <4>2, <4>3
        <4>5. QED
          BY <4>1, <4>4
      <3>4. wire[j - Len(buffer)] = Framed(m)[4 + j]
        BY <2>1, <3>2, <3>3
      <3>5. Framed(m)[4 + j] = m.data[j]
        BY <2>2, <3>3, FramedUnits
      <3>6. QED
        BY <2>1, <2>3, <2>5, <3>4, <3>5
    <2>6. QED
      BY <2>4, <2>5
  <1>8. ASSUME NEW n \in 1 .. Min({remaining, Len(wire)}), wire' = Left(n), n = remaining,
               Receives(Message(header[1], header[2], Inline, buffer \o Taken(n)))
        PROVE  FrameInv'
    <2>1. PICK msg : msg = Message(header[1], header[2], Inline, buffer \o Taken(n))
      OBVIOUS
    <2>2. PICK d : d = buffer \o Taken(n)
      OBVIOUS
    <2>3. n \in 0 .. Len(wire) /\ n \in Nat /\ d \in Seq(Nat) /\ Len(d) = Len(buffer) + n
      BY <1>6, <1>8, <2>2
    <2>4. msg \in [tag : Nat, format : Nat, kind : {Inline, Blob}, data : Seq(Nat)]
      <3>1. header[1] \in Nat /\ header[2] \in Nat
        BY <1>1, HeaderFields
      <3>2. QED
        BY <2>1, <2>2, <2>3, <3>1 DEF Message
    <2>5. Completes(n, msg)
      <3>1. ASSUME NEW e, LayOut(e, wire, sent, CutAt, r), r < Len(sent),
                   Reads(reader, header, remaining, buffer, e[r], sent[r + 1])
            PROVE  e[r] =< 0 /\ n = e[r] + Len(Framed(sent[r + 1])) /\ msg = sent[r + 1]
        <4>1. PICK m \in Messages : m = sent[r + 1]
          BY <1>4, <3>1
        <4>2. /\ e[r] = -(4 + Len(buffer)) /\ m.kind = Inline /\ remaining + Len(buffer) = Len(m.data)
              /\ header[1] = m.tag /\ header[2] = m.format
              /\ Len(Framed(sent[r + 1])) = 4 + (remaining + Len(buffer))
          BY <1>4, <3>1, <4>1
        <4>3. m \in [tag : Nat, format : Nat, kind : {Inline, Blob}, data : Seq(Nat)] /\ m.data \in Seq(Nat)
          BY FramedUnits
        <4>4. Len(d) = Len(m.data)
          BY <1>3, <1>8, <2>3, <4>2
        <4>5. ASSUME NEW j \in 1 .. Len(d) PROVE d[j] = m.data[j]
          <5>1. j \in 1 .. Len(buffer) + n
            BY <2>3
          <5>2. QED
            BY <1>7, <1>8, <2>2, <3>1, <4>1, <5>1
        <4>6. d = m.data
          BY <2>3, <4>3, <4>4, <4>5, SeqEqual
        <4>7. msg = m
          BY <2>1, <2>2, <4>2, <4>3, <4>6 DEF Message
        <4>8. e[r] =< 0 /\ n = e[r] + Len(Framed(sent[r + 1]))
          BY <1>3, <1>8, <4>2
        <4>9. QED
          BY <4>1, <4>7, <4>8
      <3>2. QED
        BY <1>2, <3>1 DEF Completes
    <2>6. Receives(msg) /\ reader \notin {"eof", "header"}
      BY <1>1, <1>8, <2>1
    <2>7. QED
      BY <1>1, <1>8, <2>3, <2>4, <2>5, <2>6, ReceiveKeeps
  <1>9. ASSUME NEW n \in 1 .. Min({remaining, Len(wire)}), wire' = Left(n), n # remaining,
               buffer' = buffer \o Taken(n), remaining' = remaining - n,
               UNCHANGED <<reader, header, received>>
        PROVE  FrameInv'
    <2>1. /\ n \in 0 .. Len(wire) /\ n \in Nat /\ n =< remaining /\ 1 =< n
          /\ wire' \in Seq(Nat) /\ buffer' \in Seq(Nat) /\ Len(buffer') = Len(buffer) + n
      BY <1>6, <1>9
    <2>2. remaining' \in Nat /\ remaining' > 0
      BY <1>3, <1>9, <2>1
    <2>3. FrameTypeOK'
      BY <1>1, <1>9, <2>1, <2>2 DEF FrameTypeOK
    <2>4. GoesOn(n)
      <3>1. ASSUME NEW e, LayOut(e, wire, sent, CutAt, r), r < Len(sent),
                   Reads(reader, header, remaining, buffer, e[r], sent[r + 1])
            PROVE  Reads(reader', header', remaining', buffer', e[r] - n, sent[r + 1])
        <4>1. /\ e[r] = -(4 + Len(buffer)) /\ sent[r + 1].kind = Inline
              /\ remaining + Len(buffer) = Len(sent[r + 1].data)
              /\ header'[1] = sent[r + 1].tag /\ header'[2] = sent[r + 1].format
          BY <1>4, <1>9, <3>1
        <4>2. /\ e[r] - n = -(4 + Len(buffer'))
              /\ remaining' + Len(buffer') = Len(sent[r + 1].data)
          <5>1. Len(buffer') = Len(buffer) + n /\ remaining' = remaining - n
            BY <1>9, <2>1
          <5>2. e[r] - n = -(4 + (Len(buffer) + n))
            BY <1>3, <2>1, <4>1
          <5>3. (remaining - n) + (Len(buffer) + n) = remaining + Len(buffer)
            BY <1>3, <2>1
          <5>4. QED
            BY <4>1, <5>1, <5>2, <5>3
        <4>3. ASSUME NEW j \in 1 .. Len(buffer') PROVE buffer'[j] = sent[r + 1].data[j]
          <5>1. j \in 1 .. Len(buffer) + n
            BY <2>1
          <5>2. QED
            BY <1>7, <1>9, <3>1, <5>1
        <4>4. reader' = "body"
          BY <1>1, <1>9
        <4>5. QED
          BY <2>2, <4>1, <4>2, <4>3, <4>4 DEF Reads
      <3>2. QED
        BY <1>1, <1>2, <3>1 DEF GoesOn
    <2>5. reader' \in {"length", "hash", "body"} /\ reader # "eof" /\ UNCHANGED received
      BY <1>1, <1>9
    <2>6. QED
      BY <1>1, <1>9, <2>1, <2>3, <2>4, <2>5, ReadOnKeeps
  <1>10. QED
    BY <1>5, <1>8, <1>9 DEF ReadBody

(* A whole message is written. *)
LEMMA WriteKeeps ==
  ASSUME FrameInv, NEW m \in Messages, Write(m)
  PROVE  FrameInv'
  <1>1. /\ ~closed /\ sent' = Append(sent, m) /\ wire' = wire \o Framed(m)
        /\ UNCHANGED <<cut, closed, reader, header, remaining, buffer, received>>
    BY DEF Write
  <1>2. Framed(m) \in Seq(Nat) /\ Opens(Framed(m), m, 0, sent)
    BY FramedUnits DEF Opens
  <1>3. cut' = (0 # 0) /\ closed' \in BOOLEAN
    BY <1>1 DEF FrameInv, FrameTypeOK
  <1>4. 0 # 0 => closed'
    OBVIOUS
  <1>5. UNCHANGED <<reader, header, remaining, buffer, received>>
    BY <1>1
  <1>6. QED
    BY <1>1, <1>2, <1>3, <1>4, <1>5, WritesKeep

(* The connection is lost in the middle of a message. *)
LEMMA LoseKeeps ==
  ASSUME FrameInv, NEW m \in Messages, Lose(m)
  PROVE  FrameInv'
  <1>1. /\ ~closed /\ sent' = Append(sent, m) /\ cut' = TRUE /\ closed' = TRUE
        /\ UNCHANGED <<reader, header, remaining, buffer, received>>
    BY DEF Lose
  <1>2. PICK n \in 0 .. Len(Framed(m)) - 1 : wire' = wire \o SubSeq(Framed(m), 1, n)
    BY DEF Lose
  <1>3. PICK x : x = SubSeq(Framed(m), 1, n)
    OBVIOUS
  <1>4. PICK c \in Nat : c = Len(sent) + 1
    BY Sizes DEF FrameInv
  <1>5. x \in Seq(Nat) /\ Len(x) = n /\ \A j \in 1 .. n : x[j] = Framed(m)[j]
    <2>1. Framed(m) \in Seq(Nat) /\ Len(Framed(m)) \in Nat
      BY FramedUnits, LenProperties
    <2>2. \A i \in 1 .. n : Framed(m)[i] \in Nat
      BY <1>2, <2>1, ElementOfSeq
    <2>3. /\ SubSeq(Framed(m), 1, n) \in Seq(Nat)
          /\ Len(SubSeq(Framed(m), 1, n)) = IF 1 =< n THEN n - 1 + 1 ELSE 0
          /\ \A i \in 1 .. n - 1 + 1 : SubSeq(Framed(m), 1, n)[i] = Framed(m)[1 + i - 1]
      BY <1>2, <2>1, <2>2, SubSeqProperties
    <2>4. QED
      BY <1>2, <1>3, <2>1, <2>3
  <1>6. Len(sent) \in Nat /\ c # 0
    BY <1>4, Sizes DEF FrameInv
  <1>7. Opens(x, m, c, sent)
    BY <1>2, <1>4, <1>5, <1>6, FramedUnits, LenProperties DEF Opens
  <1>8. cut' = (c # 0) /\ closed' \in BOOLEAN /\ closed' /\ wire' = wire \o x
    BY <1>1, <1>2, <1>3, <1>6
  <1>9. QED
    BY <1>1, <1>5, <1>7, <1>8, WritesKeep

-----------------------------------------------------------------------------
(* The framing: the theorems.                                              *)

(* Before anything is written, nothing is to be read. *)
LEMMA FrameInitInv == FrameInit => FrameInv
  <1> SUFFICES ASSUME FrameInit PROVE FrameInv
    OBVIOUS
  <1>1. /\ sent = << >> /\ cut = FALSE /\ wire = << >> /\ closed = FALSE
        /\ reader = "header" /\ header = << >> /\ remaining = 0 /\ buffer = << >>
        /\ received = << >>
    BY DEF FrameInit
  <1>2. FrameTypeOK
    <2>1. << >> \in Seq(Messages) /\ << >> \in Seq(Nat)
          /\ << >> \in Seq([tag : Nat, format : Nat, kind : {Inline, Blob}, data : Seq(Nat)])
      OBVIOUS
    <2>2. QED
      BY <1>1, <2>1 DEF FrameTypeOK
  <1>3. Len(sent) = 0 /\ Len(received) = 0 /\ Len(wire) = 0 /\ CutAt = 0
    BY <1>1 DEF CutAt
  <1>4. Aligned
    <2>1. PICK e : e = [i \in 0 .. 0 |-> 0]
      OBVIOUS
    <2>2. e \in [0 .. 0 -> Int] /\ e[0] = 0
      BY <2>1
    <2>3. LayOut(e, wire, sent, CutAt, 0)
      BY <1>3, <2>2 DEF LayOut
    <2>4. Fits(e, wire, sent, CutAt, reader, header, remaining, buffer, 0)
      BY <1>1, <2>2, <2>3 DEF Fits, Reads
    <2>5. QED
      BY <1>3, <2>4 DEF Aligned
  <1>5. QED
    BY <1>1, <1>2, <1>3, <1>4 DEF FrameInv, Over

(* Each step of the writer, of the stream or of the reader keeps the       *)
(* invariant.                                                              *)
LEMMA FrameStep == FrameInv /\ [FrameNext]_frameVars => FrameInv'
  <1> SUFFICES ASSUME FrameInv, [FrameNext]_frameVars PROVE FrameInv'
    OBVIOUS
  <1>1. ASSUME NEW m \in Messages, Write(m) PROVE FrameInv'
    BY <1>1, WriteKeeps
  <1>2. ASSUME NEW m \in Messages, Lose(m) PROVE FrameInv'
    BY <1>2, LoseKeeps
  <1>3. CASE Finish
    <2>1. /\ UNCHANGED <<sent, cut, wire, reader, header, remaining, buffer, received>>
          /\ closed' = TRUE
      BY <1>3 DEF Finish
    <2>2. QED
      BY <2>1, StreamKeeps
  <1>4. CASE ReadHeader
    BY <1>4, ReadHeaderKeeps
  <1>5. CASE ReadLength
    BY <1>5, ReadLengthKeeps
  <1>6. CASE ReadBody
    BY <1>6, ReadBodyKeeps
  <1>7. CASE ReadHash
    BY <1>7, ReadHashKeeps
  <1>8. CASE Dropped \/ UNCHANGED frameVars
    <2>1. UNCHANGED <<sent, cut, wire, reader, header, remaining, buffer, received>> /\ closed' = closed
      BY <1>8 DEF Dropped, frameVars
    <2>2. closed' \in BOOLEAN
      BY <2>1 DEF FrameInv, FrameTypeOK
    <2>3. QED
      BY <2>1, <2>2, StreamKeeps
  <1>9. QED
    BY <1>1, <1>2, <1>3, <1>4, <1>5, <1>6, <1>7, <1>8 DEF FrameNext

(* In every state of the framing, what was received is what was sent as    *)
(* far as it can be, and what is on the wire, between write_async and      *)
(* read_async, is the rest of it, in its order.                            *)
THEOREM FrameInvariant == FrameSpec => []FrameInv
  <1>1. FrameInit => FrameInv
    BY FrameInitInv
  <1>2. FrameInv /\ [FrameNext]_frameVars => FrameInv'
    BY FrameStep
  <1>3. QED
    BY <1>1, <1>2, PTL DEF FrameSpec

(* Numbers below a bound have a least one, from the well-foundedness of <. *)
LEMMA LeastOf ==
  ASSUME NEW T \in SUBSET Nat, T # {}
  PROVE  Min(T) \in T /\ \A y \in T : Min(T) =< y
  <1> DEFINE R == OpToRel(<, Nat)
  <1>1. IsWellFoundedOn(R, Nat)
    BY NatLessThanWellFounded, Zenon
  <1>2. \A x, y \in Nat : <<x, y>> \in R <=> x < y
    BY DEF OpToRel
  <1> HIDE DEF R
  <1>3. PICK x \in T : \A y \in T : ~(<<y, x>> \in R)
    BY <1>1, WFMin, Zenon
  <1>4. ASSUME NEW y \in T PROVE x =< y
    <2>1. x \in Nat /\ y \in Nat /\ ~(y < x)
      BY <1>2, <1>3
    <2>2. QED
      BY <2>1
  <1>5. \E z \in T : \A y \in T : z =< y
    BY <1>4
  <1>6. QED
    BY <1>5 DEF Min

(* The messages before the first that is too long, and, of a last one that *)
(* was not all written, the messages before it, can be received as sent.   *)
Safe == IF InStep = -1 THEN Len(sent) - (IF cut THEN 1 ELSE 0) ELSE InStep
LEMMA SafeIsGood ==
  ASSUME FrameTypeOK
  PROVE  /\ Safe \in 0 .. Len(sent)
         /\ \A i \in 1 .. Safe : Good(i)
         /\ InStep = -1 => Clear(Len(sent))
  <1> DEFINE I == {i \in 1 .. Len(sent) : TooLong(sent[i])}
  <1>1. Len(sent) \in Nat
    BY Sizes
  <1>2. InStep = IF I # {} THEN Min(I) - 1 ELSE 0 - 1
    BY DEF InStep, SelectInSeq
  <1>3. I \in SUBSET Nat
    OBVIOUS
  <1>4. CASE I = {}
    <2>1. InStep = -1
      BY <1>2, <1>4
    <2>2. \A i \in 0 .. Len(sent) : Clear(i)
      BY <1>1, <1>4 DEF Clear
    <2>3. cut => Len(sent) # 0
      BY <1>1, EmptySeq DEF FrameTypeOK
    <2>4. Safe = Len(sent) - (IF cut THEN 1 ELSE 0)
      BY <2>1 DEF Safe
    <2>5. Safe \in 0 .. Len(sent) /\ (cut => Safe < Len(sent))
      BY <1>1, <2>3, <2>4
    <2>6. \A i \in 1 .. Safe : Good(i)
      BY <1>1, <2>2, <2>5 DEF Good, CutAt
    <2>7. QED
      BY <1>1, <2>2, <2>5, <2>6
  <1>5. CASE I # {}
    <2>1. PICK k : k = Min(I)
      OBVIOUS
    <2>2. k \in I /\ \A y \in I : k =< y
      BY <1>3, <1>5, <2>1, LeastOf
    <2>3. k \in 1 .. Len(sent)
      BY <2>2
    <2>4. InStep = k - 1 /\ InStep # -1 /\ Safe = k - 1
      BY <1>2, <1>5, <2>1, <2>3 DEF Safe
    <2>5. \A i \in 1 .. k - 1 : i \in 1 .. Len(sent) /\ ~TooLong(sent[i])
      <3>1. ASSUME NEW i \in 1 .. k - 1 PROVE i \in 1 .. Len(sent) /\ ~TooLong(sent[i])
        <4>1. i \in 1 .. Len(sent) /\ ~(k =< i)
          BY <1>1, <2>3
        <4>2. i \notin I
          BY <2>2, <4>1
        <4>3. QED
          BY <4>1, <4>2
      <3>2. QED
        BY <3>1
    <2>6. Safe \in 0 .. Len(sent)
      BY <1>1, <2>3, <2>4
    <2>7. ASSUME NEW i \in 1 .. k - 1 PROVE Good(i)
      <3>1. i \in 1 .. Len(sent) /\ i # Len(sent) /\ i # 0 /\ \A j \in 1 .. i : j \in 1 .. k - 1
        BY <1>1, <2>3
      <3>2. Clear(i)
        BY <1>1, <2>5, <3>1 DEF Clear
      <3>3. QED
        BY <3>1, <3>2 DEF Good, CutAt
    <2>8. QED
      BY <2>4, <2>6, <2>7
  <1>6. QED
    BY <1>4, <1>5

(* What ReceivedAsSent says follows from the invariant. *)
LEMMA FrameInvReceived == FrameInv => ReceivedAsSent
  <1> SUFFICES ASSUME FrameInv PROVE ReceivedAsSent
    OBVIOUS
  <1>1. FrameTypeOK
    BY DEF FrameInv
  <1>2. PICK r \in Nat : r = Len(received)
    BY <1>1, Sizes
  <1>3. PICK N \in Nat : N = Len(sent)
    BY <1>1, Sizes
  <1>4. PICK k \in Nat : k = Safe
    BY <1>1, <1>3, SafeIsGood
  <1>5. k =< N /\ (\A i \in 1 .. k : Good(i)) /\ (InStep = -1 => Clear(N))
    BY <1>1, <1>3, <1>4, SafeIsGood
  <1>6. PICK n : n = Min({k, r})
    OBVIOUS
  <1>7. n \in Nat /\ n =< k /\ n =< r /\ n =< N
    BY <1>5, <1>6, MinOfTwo
  <1>8. SubSeq(received, 1, n) = SubSeq(sent, 1, n)
    <2>1. PICK R : R = [tag : Nat, format : Nat, kind : {Inline, Blob}, data : Seq(Nat)]
      OBVIOUS
    <2>2. \A i \in 1 .. n : received[i] \in R
      <3>1. received \in Seq(R)
        BY <1>1, <2>1 DEF FrameTypeOK
      <3>2. QED
        BY <1>2, <1>7, <3>1, ElementOfSeq
    <2>3. \A i \in 1 .. n : sent[i] = received[i]
      <3>1. ASSUME NEW i \in 1 .. n PROVE sent[i] = received[i]
        <4>1. i \in 1 .. Len(received) /\ Good(i)
          BY <1>2, <1>5, <1>7
        <4>2. QED
          BY <4>1 DEF FrameInv
      <3>2. QED
        BY <3>1
    <2>4. \A i \in 1 .. n : sent[i] \in R
      BY <2>2, <2>3
    <2>5. /\ SubSeq(received, 1, n) \in Seq(R)
          /\ Len(SubSeq(received, 1, n)) = IF 1 =< n THEN n - 1 + 1 ELSE 0
          /\ \A i \in 1 .. n - 1 + 1 : SubSeq(received, 1, n)[i] = received[1 + i - 1]
      BY <1>7, <2>2, SubSeqProperties
    <2>6. /\ SubSeq(sent, 1, n) \in Seq(R)
          /\ Len(SubSeq(sent, 1, n)) = IF 1 =< n THEN n - 1 + 1 ELSE 0
          /\ \A i \in 1 .. n - 1 + 1 : SubSeq(sent, 1, n)[i] = sent[1 + i - 1]
      BY <1>7, <2>4, SubSeqProperties
    <2>7. \A i \in 1 .. n : SubSeq(received, 1, n)[i] = SubSeq(sent, 1, n)[i]
      <3>1. ASSUME NEW i \in 1 .. n PROVE SubSeq(received, 1, n)[i] = SubSeq(sent, 1, n)[i]
        <4>1. i \in 1 .. n - 1 + 1 /\ 1 + i - 1 = i
          BY <1>7
        <4>2. SubSeq(received, 1, n)[i] = received[i] /\ SubSeq(sent, 1, n)[i] = sent[i]
          BY <2>5, <2>6, <4>1
        <4>3. QED
          BY <2>3, <4>2
      <3>2. QED
        BY <3>1
    <2>8. Len(SubSeq(received, 1, n)) = n /\ Len(SubSeq(sent, 1, n)) = n
      BY <1>7, <2>5, <2>6
    <2>9. QED
      BY <2>5, <2>6, <2>7, <2>8, SeqEqual
  <1>9. InStep = -1 => r =< k
    <2>1. ASSUME InStep = -1 PROVE r =< k
      <3>1. Clear(Len(sent))
        BY <1>3, <1>5, <2>1
      <3>2. r =< N - (IF cut THEN 1 ELSE 0)
        BY <1>2, <1>3, <3>1 DEF FrameInv
      <3>3. k = N - (IF cut THEN 1 ELSE 0)
        BY <1>3, <1>4, <2>1 DEF Safe
      <3>4. QED
        BY <3>2, <3>3
    <2>2. QED
      BY <2>1
  <1>10. Over => r >= k
    <2>1. ASSUME Over PROVE r >= k
      <3>1. CASE k = 0
        BY <3>1
      <3>2. CASE k # 0
        <4>1. k \in 1 .. Len(sent) /\ Good(k)
          BY <1>3, <1>5, <3>2
        <4>2. k =< Len(received)
          BY <2>1, <4>1 DEF FrameInv
        <4>3. QED
          BY <1>2, <4>2
      <3>3. QED
        BY <3>1, <3>2
    <2>2. QED
      BY <2>1
  <1>11. QED
    BY <1>2, <1>4, <1>6, <1>8, <1>9, <1>10 DEF ReceivedAsSent, Safe

(* Messages are received as they were sent, in order, none invented and    *)
(* none in part, whatever they are, however the transport cuts them and    *)
(* wherever the stream ends, up to the first that does not fit its length. *)
THEOREM MessagesAreReceivedAsSent == FrameSpec => []ReceivedAsSent
  BY FrameInvariant, FrameInvReceived, PTL

-----------------------------------------------------------------------------
(* What encoding.rs promises, for every i32. *)

(* The bytes of a magnitude are bytes, and spell it. *)
LEMMA DigitsSpell ==
  ASSUME NEW n \in Nat, n =< MaxInt
  PROVE  /\ \A place \in 0..3 : DigitOf(n, place) \in Byte
         /\ DigitOf(n, 3) =< 127
         /\ n =< 255 => n = DigitOf(n, 0)
         /\ n =< 65535 => n = DigitOf(n, 1) * 256 + DigitOf(n, 0)
         /\ n =< 16777215 =>
              n = DigitOf(n, 2) * 65536 + DigitOf(n, 1) * 256 + DigitOf(n, 0)
         /\ n = DigitOf(n, 3) * 16777216 + DigitOf(n, 2) * 65536
                  + DigitOf(n, 1) * 256 + DigitOf(n, 0)
<1>1. \A place \in 0..3 : DigitOf(n, place) \in Byte
  BY SMT DEF DigitOf, Byte, MaxInt
<1>2. DigitOf(n, 3) =< 127
  BY SMT DEF DigitOf, MaxInt
<1>3. n =< 255 => n = DigitOf(n, 0)
  BY SMT DEF DigitOf
<1>4. n =< 65535 => n = DigitOf(n, 1) * 256 + DigitOf(n, 0)
  BY SMT DEF DigitOf
<1>5. n =< 16777215 => n = DigitOf(n, 2) * 65536 + DigitOf(n, 1) * 256 + DigitOf(n, 0)
  BY SMT DEF DigitOf
<1>6. n = DigitOf(n, 3) * 16777216 + DigitOf(n, 2) * 65536 + DigitOf(n, 1) * 256 + DigitOf(n, 0)
  BY SMT DEF DigitOf
<1>7. QED
  BY <1>1, <1>2, <1>3, <1>4, <1>5, <1>6

(* An i32 takes as many bytes as encoded_size says, and each is a byte. *)
THEOREM EncodesInBytes ==
  ASSUME NEW value \in I32
  PROVE  /\ encoded_size(value) \in 1..5
         /\ encode_i32(value) \in Seq(Byte)
         /\ Len(encode_i32(value)) = encoded_size(value)
<1>1. encoded_size(value) \in 1..5
  BY SMT DEF encoded_size, I32
<1>2. FirstByte(value) \in Byte
  BY SMT DEF FirstByte, encoded_size, Byte, I32
<1>3. ASSUME NEW place \in 0..3 PROVE MagnitudeByte(value, place) \in Byte
  <2>1. CASE value = MinInt
    BY <2>1, SMT DEF MagnitudeByte, Byte
  <2>2. CASE value # MinInt
    <3> DEFINE n == IF value >= 0 THEN value ELSE -value
    <3>1. n \in Nat /\ n =< MaxInt
      BY <2>2, SMT DEF I32, MinInt, MaxInt
    <3>2. DigitOf(n, place) \in Byte
      BY <3>1, DigitsSpell
    <3>3. QED
      BY <2>2, <3>2 DEF MagnitudeByte
  <2>3. QED
    BY <2>1, <2>2
<1>4. ASSUME NEW i \in 1..encoded_size(value), i # 1
      PROVE  encoded_size(value) - i \in 0..3
  BY <1>1, <1>4, SMT
<1>5. \A i \in 1..encoded_size(value) : encode_i32(value)[i] \in Byte
  BY <1>2, <1>3, <1>4, SMT DEF encode_i32
<1>6. QED
  BY <1>1, <1>5, SMT DEF encode_i32

(* The first byte of an i32 says how many follow.                          *)
LEMMA FirstByteTells ==
  ASSUME NEW value \in I32
  PROVE  /\ IsFirst(FirstByte(value))
         /\ additional_bytes(FirstByte(value)) = encoded_size(value) - 1
BY SMT DEF FirstByte, encoded_size, IsFirst, additional_bytes, I32

(* The bytes after the first one spell the magnitude. *)
LEMMA NumberIsMagnitude ==
  ASSUME NEW value \in I32, value # MinInt, NEW code,
         encoded_size(value) > 1,
         \A i \in 1..encoded_size(value) : code[i] = encode_i32(value)[i]
  PROVE  Number(code, encoded_size(value) - 1) = IF value >= 0 THEN value ELSE -value
<1> DEFINE n == IF value >= 0 THEN value ELSE -value
<1>1. n \in Nat /\ n =< MaxInt
  BY SMT DEF I32, MinInt, MaxInt
<1>2. encoded_size(value) \in 2..5
  BY EncodesInBytes, SMT
<1>3. ASSUME NEW i \in 2..encoded_size(value)
      PROVE  code[i] = DigitOf(n, encoded_size(value) - i)
  BY <1>2, <1>3, SMT DEF encode_i32, MagnitudeByte
<1>4. CASE encoded_size(value) = 2
  <2>1. n =< 255
    BY <1>4, SMT DEF encoded_size, I32
  <2>2. code[2] = DigitOf(n, 0)
    BY <1>3, <1>4, SMT
  <2>3. QED
    BY <1>1, <1>4, <2>1, <2>2, DigitsSpell, SMT DEF Number
<1>5. CASE encoded_size(value) = 3
  <2>1. n =< 65535
    BY <1>5, SMT DEF encoded_size, I32
  <2>2. code[2] = DigitOf(n, 1) /\ code[3] = DigitOf(n, 0)
    BY <1>3, <1>5, SMT
  <2>3. QED
    BY <1>1, <1>5, <2>1, <2>2, DigitsSpell, SMT DEF Number
<1>6. CASE encoded_size(value) = 4
  <2>1. n =< 16777215
    BY <1>6, SMT DEF encoded_size, I32
  <2>2. code[2] = DigitOf(n, 2) /\ code[3] = DigitOf(n, 1) /\ code[4] = DigitOf(n, 0)
    BY <1>3, <1>6, SMT
  <2>3. QED
    BY <1>1, <1>6, <2>1, <2>2, DigitsSpell, SMT DEF Number
<1>7. CASE encoded_size(value) = 5
  <2>1. /\ code[2] = DigitOf(n, 3) /\ code[3] = DigitOf(n, 2)
        /\ code[4] = DigitOf(n, 1) /\ code[5] = DigitOf(n, 0)
    BY <1>3, <1>7, SMT
  <2>2. TopByte(code[2]) = DigitOf(n, 3)
    BY <1>1, <2>1, DigitsSpell, SMTT(30) DEF TopByte, Byte
  <2>3. QED
    BY <1>1, <1>7, <2>1, <2>2, DigitsSpell, SMT DEF Number
<1>8. QED
  BY <1>2, <1>4, <1>5, <1>6, <1>7, SMT

(* The bytes of an i32, whatever comes after them, decode to it, and using *)
(* those bytes alone; negating i32::MIN is the one step that may fail.     *)
THEOREM DecodesWhatWasEncoded ==
  ASSUME NEW value \in I32, NEW code, Len(code) \in Nat,
         Len(code) >= encoded_size(value),
         \A i \in 1..encoded_size(value) : code[i] = encode_i32(value)[i]
  PROVE  decode_i32(code) = IF value = MinInt THEN Negated(MinInt, 5)
                              ELSE Some(value, encoded_size(value))
<1>1. encoded_size(value) \in 1..5
  BY EncodesInBytes
<1>2. code[1] = FirstByte(value)
  BY <1>1, SMT DEF encode_i32
<1>3. /\ IsFirst(code[1]) /\ additional_bytes(code[1]) = encoded_size(value) - 1
  BY <1>2, FirstByteTells
<1>4. ~(Len(code) = 0 \/ ~IsFirst(code[1]) \/ Len(code) =< additional_bytes(code[1]))
  BY <1>1, <1>3, SMT
<1>5. CASE encoded_size(value) = 1
  BY <1>2, <1>4, <1>5, SMT DEF decode_i32, FirstByte, encoded_size, I32, MinInt
<1>6. CASE encoded_size(value) > 1 /\ value # MinInt
  <2>1. Number(code, encoded_size(value) - 1) = IF value >= 0 THEN value ELSE -value
    BY <1>6, NumberIsMagnitude
  <2>2. CASE value >= 0
    <3>1. code[1] \in 64..67
      BY <1>1, <1>2, <1>6, <2>2, SMT DEF FirstByte, I32
    <3>2. QED
      BY <1>1, <1>3, <1>4, <1>6, <2>1, <2>2, <3>1, SMT DEF decode_i32, I32
  <2>3. CASE value < 0
    <3>1. code[1] \in 68..71
      BY <1>1, <1>2, <1>6, <2>3, SMT DEF FirstByte, I32
    <3>2. decode_i32(code) = Negated(Number(code, encoded_size(value) - 1), encoded_size(value))
      BY <1>1, <1>3, <1>4, <3>1, SMT DEF decode_i32
    <3>3. -value # MinInt /\ -(-value) = value
      BY <2>3, SMT DEF MinInt, I32
    <3>4. QED
      BY <1>6, <2>1, <2>3, <3>2, <3>3, SMT DEF Negated, I32
  <2>4. QED
    BY <2>2, <2>3, SMT DEF I32
<1>7. CASE value = MinInt
  <2>1. encoded_size(value) = 5 /\ FirstByte(value) = 71
    BY <1>7, SMT DEF encoded_size, FirstByte, MinInt
  <2>2. \A i \in 1..5 : code[i] = encode_i32(value)[i]
    BY <2>1
  <2>3. code[2] = 128 /\ code[3] = 0 /\ code[4] = 0 /\ code[5] = 0
    BY <1>7, <2>1, <2>2, SMT DEF encode_i32, MagnitudeByte
  <2>4. Number(code, 4) = MinInt
    BY <2>3, SMT DEF Number, TopByte, MinInt
  <2>5. decode_i32(code) = Negated(Number(code, 4), 5)
    BY <1>2, <1>3, <1>4, <2>1, SMT DEF decode_i32
  <2>6. QED
    BY <1>7, <2>4, <2>5
<1>8. QED
  BY <1>1, <1>5, <1>6, <1>7, SMT

(* Cut short, the bytes of an i32 do not decode. *)
THEOREM CutShortDecodesToNothing ==
  ASSUME NEW value \in I32, NEW code, Len(code) \in Nat,
         Len(code) < encoded_size(value),
         \A i \in 1..Len(code) : code[i] = encode_i32(value)[i]
  PROVE  decode_i32(code) = Nothing
<1>1. encoded_size(value) \in 1..5
  BY EncodesInBytes
<1>2. CASE Len(code) = 0
  BY <1>2 DEF decode_i32
<1>3. CASE Len(code) > 0
  <2>1. code[1] = FirstByte(value)
    <3>1. 1 \in 1..Len(code) /\ 1 \in 1..encoded_size(value)
      BY <1>1, <1>3, SMT
    <3>2. code[1] = encode_i32(value)[1]
      BY <3>1
    <3>3. QED
      BY <3>1, <3>2, SMT DEF encode_i32
  <2>2. additional_bytes(code[1]) = encoded_size(value) - 1
    BY <2>1, FirstByteTells
  <2>3. Len(code) =< additional_bytes(code[1])
    BY <1>1, <2>2, SMT
  <2>4. QED
    BY <2>3 DEF decode_i32
<1>4. QED
  BY <1>2, <1>3, SMT

-----------------------------------------------------------------------------
(* Values as serialize.rs writes them.  What is said of the stream is said *)
(* of any set of values that holds what is in its blocks and contexts; no  *)
(* text or block is longer than an i32 can say.                            *)

Text == {text \in Seq(Byte) : Len(text) =< MaxInt}

Serializable(Values) ==
  \A value \in Values :
    \/ value = <<"none", 0>>
    \/ \E n \in I32 : value = <<"int", n>>
    \/ \E b \in BOOLEAN : value = <<"bool", b>>
    \/ \E kind \in Texts, text \in Text : value = <<kind, text>>
    \/ \E items \in Seq(Values) : Len(items) =< MaxInt /\ value = <<"block", items>>
    \/ \E pairs \in Seq(Text \X Values) : Len(pairs) =< MaxInt /\ value = <<"context", pairs>>
    \/ \E words : value = <<"path", words>>

(* What the serializer visits. *)
KeyPiece(text) == <<"key", text>>
Pieces(Values) == Values \union {KeyPiece(text) : text \in Text}

(* A code lies on a stream from a place on; it was cut short there. *)
Lies(stream, from, code) ==
  /\ from + Len(code) =< Len(stream)
  /\ \A i \in 1 .. Len(code) : stream[from + i] = code[i]
CutShort(stream, from, code) ==
  /\ from =< Len(stream) /\ Len(stream) < from + Len(code)
  /\ \A i \in 1 .. Len(stream) - from : stream[from + i] = code[i]

(* Codes one after the other. *)
LEMMA Joined ==
  ASSUME NEW S, NEW a \in Seq(S), NEW b \in Seq(S)
  PROVE  /\ a \o b \in Seq(S) /\ Len(a \o b) = Len(a) + Len(b)
         /\ Len(a) \in Nat /\ Len(b) \in Nat
         /\ \A i \in 1 .. Len(a) : (a \o b)[i] = a[i]
         /\ \A i \in 1 .. Len(b) : (a \o b)[Len(a) + i] = b[i]
<1>1. a \o b \in Seq(S) /\ Len(a \o b) = Len(a) + Len(b) /\ Len(a) \in Nat /\ Len(b) \in Nat
  BY ConcatProperties, LenProperties
<1>2. \A i \in 1 .. Len(a) + Len(b) : (a \o b)[i] = IF i =< Len(a) THEN a[i] ELSE b[i - Len(a)]
  BY ConcatProperties
<1>3. ASSUME NEW i \in 1 .. Len(a) PROVE (a \o b)[i] = a[i]
  BY <1>1, <1>2
<1>4. ASSUME NEW i \in 1 .. Len(b) PROVE (a \o b)[Len(a) + i] = b[i]
  <2>1. Len(a) + i \in 1 .. Len(a) + Len(b) /\ ~(Len(a) + i =< Len(a)) /\ Len(a) + i - Len(a) = i
    BY <1>1
  <2>2. QED
    BY <1>2, <2>1
<1>5. QED
  BY <1>1, <1>3, <1>4

(* A code in two parts lies where its parts lie. *)
LEMMA LiesJoined ==
  ASSUME NEW from \in Nat, NEW a \in Seq(Byte), NEW b \in Seq(Byte),
         bytes \in Seq(Byte), Lies(bytes, from, a \o b)
  PROVE  Lies(bytes, from, a) /\ from + Len(a) \in Nat /\ Lies(bytes, from + Len(a), b)
<1>1. PICK m, n : m = Len(a) /\ n = Len(b)
  OBVIOUS
<1>2. m \in Nat /\ n \in Nat /\ Len(bytes) \in Nat /\ Len(a \o b) = m + n
  BY <1>1, Joined, LenProperties
<1>3. from + (m + n) =< Len(bytes) /\ \A i \in 1 .. m + n : bytes[from + i] = (a \o b)[i]
  BY <1>2 DEF Lies
<1>4. ASSUME NEW i \in 1 .. m PROVE bytes[from + i] = a[i]
  <2>1. i \in 1 .. m + n
    BY <1>2
  <2>2. QED
    BY <1>1, <1>3, <2>1, Joined
<1>5. ASSUME NEW i \in 1 .. n PROVE bytes[from + m + i] = b[i]
  <2>1. m + i \in 1 .. m + n /\ from + (m + i) = from + m + i
    BY <1>2
  <2>2. QED
    BY <1>1, <1>3, <2>1, Joined
<1>6. from + m =< Len(bytes) /\ from + m + n =< Len(bytes) /\ from + m \in Nat
  BY <1>2, <1>3
<1>7. QED
  BY <1>1, <1>4, <1>5, <1>6 DEF Lies

(* Where it was cut, the first part was, or the second after the first. *)
LEMMA CutJoined ==
  ASSUME NEW from \in Nat, NEW a \in Seq(Byte), NEW b \in Seq(Byte),
         bytes \in Seq(Byte), CutShort(bytes, from, a \o b)
  PROVE  \/ CutShort(bytes, from, a)
         \/ Lies(bytes, from, a) /\ from + Len(a) \in Nat /\ CutShort(bytes, from + Len(a), b)
<1>1. PICK m, n, l : m = Len(a) /\ n = Len(b) /\ l = Len(bytes)
  OBVIOUS
<1>2. m \in Nat /\ n \in Nat /\ l \in Nat /\ Len(a \o b) = m + n
  BY <1>1, Joined, LenProperties
<1>3. from =< l /\ l < from + (m + n) /\ \A i \in 1 .. l - from : bytes[from + i] = (a \o b)[i]
  BY <1>1, <1>2 DEF CutShort
<1>4. ASSUME NEW i \in 1 .. m, i =< l - from PROVE bytes[from + i] = a[i]
  <2>1. i \in 1 .. l - from
    BY <1>2, <1>4
  <2>2. QED
    BY <1>1, <1>3, <2>1, Joined
<1>5. CASE l < from + m
  <2>1. \A i \in 1 .. l - from : i \in 1 .. m /\ i =< l - from
    BY <1>2, <1>5
  <2>2. QED
    BY <1>1, <1>3, <1>4, <1>5, <2>1 DEF CutShort
<1>6. CASE ~(l < from + m)
  <2>1. from + m =< l /\ from + m \in Nat /\ l < from + m + n /\ \A i \in 1 .. m : i =< l - from
    BY <1>2, <1>3, <1>6
  <2>2. ASSUME NEW i \in 1 .. l - (from + m) PROVE bytes[from + m + i] = b[i]
    <3>1. m + i \in 1 .. l - from /\ from + (m + i) = from + m + i /\ i \in 1 .. n
      BY <1>2, <1>3, <2>1
    <3>2. bytes[from + (m + i)] = (a \o b)[m + i]
      BY <1>3, <3>1
    <3>3. (a \o b)[m + i] = b[i]
      BY <1>1, <3>1, Joined
    <3>4. QED
      BY <3>1, <3>2, <3>3
  <2>3. QED
    BY <1>1, <1>4, <2>1, <2>2 DEF CutShort, Lies
<1>7. QED
  BY <1>5, <1>6

(* What a window on the stream shows. *)
LEMMA WindowShows ==
  ASSUME bytes \in Seq(Byte), NEW from \in Nat, NEW n \in Nat, from + n =< Len(bytes)
  PROVE  /\ Window(from, n) \in Seq(Byte) /\ Len(Window(from, n)) = n
         /\ \A i \in 1 .. n : Window(from, n)[i] = bytes[from + i]
<1>1. Len(bytes) \in Nat
  BY LenProperties
<1>2. \A i \in from + 1 .. from + n : bytes[i] \in Byte
  BY <1>1, ElementOfSeq
<1>3. from + 1 \in Int /\ from + n \in Int
  OBVIOUS
<1>4. /\ Window(from, n) \in Seq(Byte)
      /\ Len(Window(from, n)) = IF from + 1 =< from + n THEN from + n - (from + 1) + 1 ELSE 0
      /\ \A i \in 1 .. from + n - (from + 1) + 1 : Window(from, n)[i] = bytes[from + 1 + i - 1]
  BY <1>2, <1>3, SubSeqProperties DEF Window
<1>5. /\ from + n - (from + 1) + 1 = n /\ \A i \in 1 .. n : from + 1 + i - 1 = from + i
      /\ from + 1 =< from + n <=> n # 0
  OBVIOUS
<1>6. ASSUME NEW i \in 1 .. n PROVE Window(from, n)[i] = bytes[from + i]
  <2>1. i \in 1 .. from + n - (from + 1) + 1
    BY <1>5
  <2>2. QED
    BY <1>4, <1>5, <2>1
<1>7. Len(Window(from, n)) = n
  <2>1. CASE n = 0
    BY <1>4, <1>5, <2>1
  <2>2. CASE n # 0
    BY <1>4, <1>5, <2>2
  <2>3. QED
    BY <2>1, <2>2
<1>8. QED
  BY <1>4, <1>6, <1>7

(* A sequence is known by its elements. *)
LEMMA SameElements ==
  ASSUME NEW S, NEW a \in Seq(S), NEW b \in Seq(S), Len(a) = Len(b),
         \A i \in 1 .. Len(a) : a[i] = b[i]
  PROVE  a = b
BY SeqEqual

(* read_varint reads what encode_i32 wrote. *)
LEMMA VarintIsRead ==
  ASSUME bytes \in Seq(Byte), NEW from \in Nat, NEW n \in I32, Lies(bytes, from, encode_i32(n))
  PROVE  read_varint(from) = IF n = MinInt /\ OverflowChecks THEN Refuses("panic")
                             ELSE Got(n, from + Len(encode_i32(n)))
<1> DEFINE size == encoded_size(n)
           code == Window(from, size)
<1>1. size \in 1 .. 5 /\ Len(encode_i32(n)) = size /\ Len(bytes) \in Nat
  BY EncodesInBytes, LenProperties
<1>2. from + size =< Len(bytes) /\ \A i \in 1 .. size : bytes[from + i] = encode_i32(n)[i]
  BY <1>1 DEF Lies
<1>3. bytes[from + 1] = FirstByte(n)
  BY <1>1, <1>2 DEF encode_i32
<1>4. IsFirst(bytes[from + 1]) /\ 1 + additional_bytes(bytes[from + 1]) = size
  <2>1. IsFirst(FirstByte(n)) /\ additional_bytes(FirstByte(n)) = size - 1
    BY FirstByteTells
  <2> HIDE DEF size
  <2>2. 1 + (size - 1) = size
    BY <1>1
  <2>3. QED
    BY <1>3, <2>1, <2>2
<1>5. Len(code) = size /\ \A i \in 1 .. size : code[i] = encode_i32(n)[i]
  <2> HIDE DEF size
  <2>1. size \in Nat
    BY <1>1
  <2>2. Len(code) = size /\ \A i \in 1 .. size : code[i] = bytes[from + i]
    BY <1>2, <2>1, WindowShows
  <2>3. QED
    BY <1>2, <2>2
<1>6. decode_i32(code) = IF n = MinInt THEN Negated(MinInt, 5) ELSE Some(n, size)
  <2>1. Len(code) \in Nat /\ Len(code) >= size
    BY <1>1, <1>5
  <2> HIDE DEF code
  <2>2. QED
    BY <1>5, <2>1, DecodesWhatWasEncoded
<1>7. from < Len(bytes) /\ ~(from >= Len(bytes)) /\ ~(from + size > Len(bytes))
  <2> HIDE DEF size
  <2>1. QED
    BY <1>1, <1>2
<1>8. read_varint(from) = IF decode_i32(code).outcome = "panic" THEN Refuses("panic")
                          ELSE Got(decode_i32(code).value, from + size)
  <2> HIDE DEF size
  <2>1. QED
    BY <1>4, <1>7 DEF read_varint
<1> HIDE DEF size, code
<1>9. decode_i32(code) = IF n = MinInt /\ OverflowChecks THEN Panic
                         ELSE Some(n, decode_i32(code).used)
  BY <1>6 DEF Negated, Some, Panic
<1>10. QED
  BY <1>1, <1>8, <1>9 DEF Some, Panic

(* It reads nothing where the code was cut. *)
LEMMA VarintIsCut ==
  ASSUME bytes \in Seq(Byte), NEW from \in Nat, NEW n \in I32, CutShort(bytes, from, encode_i32(n))
  PROVE  read_varint(from) = Refuses(EndOfData)
<1> DEFINE size == encoded_size(n)
<1>1. size \in 1 .. 5 /\ Len(encode_i32(n)) = size /\ Len(bytes) \in Nat
  BY EncodesInBytes, LenProperties
<1>2. /\ from =< Len(bytes) /\ Len(bytes) < from + size
      /\ \A i \in 1 .. Len(bytes) - from : bytes[from + i] = encode_i32(n)[i]
  BY <1>1 DEF CutShort
<1>3. CASE from >= Len(bytes)
  BY <1>3 DEF read_varint
<1>4. CASE from < Len(bytes)
  <2>1. bytes[from + 1] = FirstByte(n)
    <3>1. bytes[from + 1] = encode_i32(n)[1]
      BY <1>1, <1>2, <1>4
    <3>2. QED
      BY <1>1, <3>1 DEF encode_i32
  <2>2. IsFirst(bytes[from + 1]) /\ 1 + additional_bytes(bytes[from + 1]) = size
    <3>1. IsFirst(FirstByte(n)) /\ additional_bytes(FirstByte(n)) = size - 1
      BY FirstByteTells
    <3> HIDE DEF size
    <3>2. 1 + (size - 1) = size
      BY <1>1
    <3>3. QED
      BY <2>1, <3>1, <3>2
  <2> HIDE DEF size
  <2>3. from + size > Len(bytes) /\ ~(from >= Len(bytes))
    BY <1>1, <1>2, <1>4
  <2>4. QED
    BY <1>4, <2>2, <2>3 DEF read_varint
<1>5. QED
  BY <1>1, <1>3, <1>4

(* What a value can be. *)
LEMMA ValueKinds ==
  ASSUME NEW Values, Serializable(Values), NEW v \in Values
  PROVE  \/ v[1] = "none" /\ v = <<"none", 0>>
         \/ v[1] = "int" /\ v = <<"int", v[2]>> /\ v[2] \in I32
         \/ v[1] = "bool" /\ v = <<"bool", v[2]>> /\ v[2] \in BOOLEAN
         \/ v[1] \in Texts /\ v = <<v[1], v[2]>> /\ v[2] \in Text
         \/ /\ v[1] = "block" /\ v = <<"block", v[2]>>
            /\ v[2] \in Seq(Values) /\ Len(v[2]) =< MaxInt
         \/ /\ v[1] = "context" /\ v = <<"context", v[2]>>
            /\ v[2] \in Seq(Text \X Values) /\ Len(v[2]) =< MaxInt
         \/ v[1] = "path"
BY DEF Serializable

(* Lengths are read as numbers. *)
LEMMA LengthIsRead ==
  ASSUME bytes \in Seq(Byte), NEW from \in Nat, NEW n \in Nat, n =< MaxInt, Lies(bytes, from, encode_i32(n))
  PROVE  read_length(from) = Got(n, from + Len(encode_i32(n)))
<1>1. n \in I32 /\ n # MinInt /\ ~(n < 0)
  BY DEF I32, MinInt, MaxInt
<1>2. read_varint(from) = Got(n, from + Len(encode_i32(n)))
  BY <1>1, VarintIsRead
<1>3. QED
  BY <1>1, <1>2 DEF read_length, Got

LEMMA LengthIsCut ==
  ASSUME bytes \in Seq(Byte), NEW from \in Nat, NEW n \in Nat, n =< MaxInt, CutShort(bytes, from, encode_i32(n))
  PROVE  read_length(from) = Refuses(EndOfData)
<1>1. n \in I32
  BY DEF I32, MinInt, MaxInt
<1>2. read_varint(from) = Refuses(EndOfData)
  BY <1>1, VarintIsCut
<1>3. QED
  BY <1>2 DEF read_length, Refuses, EndOfData

(* The bytes of a number and of a text. *)
LEMMA NumberCode ==
  ASSUME NEW n \in I32
  PROVE  encode_i32(n) \in Seq(Byte) /\ Len(encode_i32(n)) \in Nat /\ Len(encode_i32(n)) > 0
BY EncodesInBytes

LEMMA TextCode ==
  ASSUME NEW text \in Text
  PROVE  /\ text \in Seq(Byte) /\ Len(text) \in Nat /\ Len(text) =< MaxInt /\ Len(text) \in I32
         /\ encode_i32(Len(text)) \in Seq(Byte)
         /\ TextBytes(text) \in Seq(Byte) /\ Len(TextBytes(text)) \in Nat /\ Len(TextBytes(text)) > 0
<1>1. text \in Seq(Byte) /\ Len(text) \in Nat /\ Len(text) =< MaxInt
  BY LenProperties DEF Text
<1>2. Len(text) \in I32
  BY <1>1 DEF I32, MinInt, MaxInt
<1>3. /\ encode_i32(Len(text)) \in Seq(Byte) /\ Len(encode_i32(Len(text))) \in Nat
      /\ Len(encode_i32(Len(text))) > 0
  BY <1>2, NumberCode
<1>4. /\ TextBytes(text) \in Seq(Byte)
      /\ Len(TextBytes(text)) = Len(encode_i32(Len(text))) + Len(text)
  BY <1>1, <1>3, Joined DEF TextBytes
<1>5. QED
  BY <1>1, <1>2, <1>3, <1>4

(* Texts are read as they were written. *)
LEMMA TextIsRead ==
  ASSUME bytes \in Seq(Byte), NEW from \in Nat, NEW text \in Text, Lies(bytes, from, TextBytes(text))
  PROVE  read_string(from) = Got(text, from + Len(TextBytes(text)))
<1> DEFINE size == encode_i32(Len(text))
<1>1. /\ text \in Seq(Byte) /\ Len(text) \in Nat /\ Len(text) =< MaxInt /\ size \in Seq(Byte)
      /\ TextBytes(text) = size \o text
  BY TextCode DEF TextBytes
<1>2. Lies(bytes, from, size) /\ from + Len(size) \in Nat /\ Lies(bytes, from + Len(size), text)
  <2> HIDE DEF size
  <2>1. QED
    BY <1>1, LiesJoined
<1>3. read_length(from) = Got(Len(text), from + Len(size))
  BY <1>1, <1>2, LengthIsRead
<1> HIDE DEF size
<1>4. PICK n, p : n = Len(text) /\ p = from + Len(size)
  OBVIOUS
<1>5. p \in Nat /\ n \in Nat /\ Len(bytes) \in Nat /\ p + n =< Len(bytes)
  BY <1>1, <1>2, <1>4, LenProperties DEF Lies
<1>6. Window(p, n) = text
  <2>1. Window(p, n) \in Seq(Byte) /\ Len(Window(p, n)) = n /\ \A i \in 1 .. n : Window(p, n)[i] = bytes[p + i]
    BY <1>5, WindowShows
  <2>2. \A i \in 1 .. n : bytes[p + i] = text[i]
    BY <1>2, <1>4 DEF Lies
  <2>3. QED
    BY <1>1, <1>4, <2>1, <2>2, SameElements
<1>7. p + n = from + Len(TextBytes(text))
  <2>1. Len(TextBytes(text)) = Len(size) + n /\ Len(size) \in Nat
    BY <1>1, <1>4, Joined
  <2>2. QED
    BY <1>4, <1>5, <2>1
<1>8. ~(p + n > Len(bytes))
  BY <1>5
<1>9. read_string(from) = Got(Window(p, n), p + n)
  BY <1>3, <1>4, <1>8 DEF read_string, Got
<1>10. QED
  BY <1>6, <1>7, <1>9

LEMMA TextIsCut ==
  ASSUME bytes \in Seq(Byte), NEW from \in Nat, NEW text \in Text, CutShort(bytes, from, TextBytes(text))
  PROVE  read_string(from) = Refuses(EndOfData)
<1> DEFINE size == encode_i32(Len(text))
<1>1. /\ text \in Seq(Byte) /\ Len(text) \in Nat /\ Len(text) =< MaxInt /\ size \in Seq(Byte)
      /\ TextBytes(text) = size \o text
  BY TextCode DEF TextBytes
<1>2. \/ CutShort(bytes, from, size)
      \/ Lies(bytes, from, size) /\ from + Len(size) \in Nat /\ CutShort(bytes, from + Len(size), text)
  <2> HIDE DEF size
  <2>1. QED
    BY <1>1, CutJoined
<1>3. CASE CutShort(bytes, from, size)
  <2>1. read_length(from) = Refuses(EndOfData)
    BY <1>1, <1>3, LengthIsCut
  <2>2. QED
    BY <2>1 DEF read_string, Refuses, EndOfData
<1>4. CASE Lies(bytes, from, size) /\ from + Len(size) \in Nat /\ CutShort(bytes, from + Len(size), text)
  <2>1. read_length(from) = Got(Len(text), from + Len(size))
    BY <1>1, <1>4, LengthIsRead
  <2> HIDE DEF size
  <2>2. Len(bytes) \in Nat /\ Len(bytes) < from + Len(size) + Len(text)
    BY <1>4, LenProperties DEF CutShort
  <2>3. from + Len(size) + Len(text) > Len(bytes)
    BY <1>1, <1>4, <2>2
  <2>4. QED
    BY <2>1, <2>3 DEF read_string, Got
<1>5. QED
  BY <1>2, <1>3, <1>4

(* A tag tells the kind, but for that of a bool. *)
LEMMA TagTells ==
  ASSUME NEW from \in Nat, NEW kind \in DOMAIN TagOf, bytes[from + 1] = TagOf[kind]
  PROVE  IF kind = "bool" THEN Kinds(bytes[from + 1]) = {}
         ELSE Kinds(bytes[from + 1]) = {kind} /\ KindAt(from) = kind
<1>1. DOMAIN TagOf = {"none", "int", "block", "context", "string", "word", "set_word", "get_word", "bool"}
  BY DEF TagOf
<1>2. \A a, b \in DOMAIN TagOf : TagOf[a] = TagOf[b] => a = b
  BY DEF TagOf
<1>3. {a \in DOMAIN TagOf : TagOf[a] = TagOf[kind]} = {kind}
  BY <1>2
<1>4. Kinds(bytes[from + 1]) = {kind} \ {"bool"}
  BY <1>3 DEF Kinds
<1>5. QED
  BY <1>4 DEF KindAt

(* What is written of a value after its tag. *)
BodyOf(v) ==
  CASE v[1] = "none"  -> << >>
    [] v[1] = "int"   -> encode_i32(v[2])
    [] v[1] = "bool"  -> <<IF v[2] THEN 1 ELSE 0>>
    [] v[1] \in Texts -> TextBytes(v[2])
    [] v[1] \in {"block", "context"} -> encode_i32(Len(v[2]))

LEMMA ValueCode ==
  ASSUME NEW Values, Serializable(Values), NEW v \in Values, v[1] # "path"
  PROVE  /\ v[1] \in DOMAIN TagOf /\ TagOf[v[1]] \in Byte
         /\ BodyOf(v) \in Seq(Byte) /\ PieceBytes(v) = <<TagOf[v[1]]>> \o BodyOf(v)
         /\ v[1] \in {"block", "context"} => Len(v[2]) \in Nat /\ Len(v[2]) =< MaxInt /\ Len(v[2]) \in I32
<1>0. \/ v[1] = "none"
      \/ v[1] = "int" /\ v[2] \in I32
      \/ v[1] = "bool"
      \/ v[1] \in Texts /\ v[2] \in Text
      \/ v[1] = "block" /\ v[2] \in Seq(Values) /\ Len(v[2]) =< MaxInt
      \/ v[1] = "context" /\ v[2] \in Seq(Text \X Values) /\ Len(v[2]) =< MaxInt
  BY ValueKinds
<1>1. v[1] \in DOMAIN TagOf
  BY <1>0 DEF TagOf, Texts
<1>2. TagOf[v[1]] \in Byte
  BY <1>1 DEF TagOf, Byte
<1>3. v[1] \in {"block", "context"} => Len(v[2]) \in Nat /\ Len(v[2]) =< MaxInt
  <2>1. \A S : v[2] \in Seq(S) => Len(v[2]) \in Nat
    BY LenProperties
  <2>2. QED
    BY <1>0, <2>1 DEF Texts
<1>4. v[1] \in {"block", "context"} => Len(v[2]) \in I32
  BY <1>3 DEF I32, MaxInt, MinInt
<1>5. CASE v[1] = "none"
  <2>1. BodyOf(v) = << >> /\ PieceBytes(v) = <<TagOf.none>> /\ TagOf.none = TagOf[v[1]]
    BY <1>5 DEF BodyOf, PieceBytes, Texts
  <2>2. PICK tag : tag = TagOf[v[1]]
    OBVIOUS
  <2>3. << >> \in Seq(Byte) /\ <<tag>> = <<tag>> \o << >>
    BY <1>2, <2>2
  <2>4. QED
    BY <1>1, <1>2, <1>3, <1>4, <2>1, <2>2, <2>3
<1>6. CASE v[1] = "int"
  <2>1. v[2] \in I32
    BY <1>0, <1>6 DEF Texts
  <2>2. BodyOf(v) = encode_i32(v[2]) /\ PieceBytes(v) = <<TagOf.int>> \o encode_i32(v[2])
    BY <1>6 DEF BodyOf, PieceBytes, Texts
  <2>3. TagOf[v[1]] = TagOf.int
    BY <1>6
  <2>4. QED
    BY <1>1, <1>2, <1>3, <1>4, <2>1, <2>2, <2>3, NumberCode
<1>7. CASE v[1] = "bool"
  <2>1. /\ BodyOf(v) = <<IF v[2] THEN 1 ELSE 0>>
        /\ PieceBytes(v) = <<TagOf.bool, IF v[2] THEN 1 ELSE 0>>
    BY <1>7 DEF BodyOf, PieceBytes, Texts
  <2>2. PICK b : b = IF v[2] THEN 1 ELSE 0
    OBVIOUS
  <2>3. b \in Byte
    BY <2>2 DEF Byte
  <2>4. <<b>> \in Seq(Byte) /\ <<TagOf[v[1]], b>> = <<TagOf[v[1]]>> \o <<b>>
    BY <1>2, <2>3
  <2>5. QED
    BY <1>1, <1>2, <1>3, <1>4, <1>7, <2>1, <2>2, <2>4
<1>8. CASE v[1] \in Texts
  <2>1. v[2] \in Text
    BY <1>0, <1>8 DEF Texts
  <2>2. BodyOf(v) = TextBytes(v[2]) /\ PieceBytes(v) = <<TagOf[v[1]]>> \o TextBytes(v[2])
    BY <1>8 DEF BodyOf, PieceBytes, Texts
  <2>3. QED
    BY <1>1, <1>2, <1>3, <1>4, <2>1, <2>2, TextCode
<1>9. CASE v[1] \in {"block", "context"}
  <2>1. BodyOf(v) = encode_i32(Len(v[2])) /\ PieceBytes(v) = <<TagOf[v[1]]>> \o encode_i32(Len(v[2]))
    BY <1>9 DEF BodyOf, PieceBytes, Texts
  <2>2. QED
    BY <1>1, <1>2, <1>3, <1>4, <1>9, <2>1, NumberCode
<1>10. QED
  BY <1>0, <1>5, <1>6, <1>7, <1>8, <1>9

(* The bytes of a piece. *)
LEMMA PieceCode ==
  ASSUME NEW Values, Serializable(Values), NEW p \in Pieces(Values), p[1] # "path"
  PROVE  PieceBytes(p) \in Seq(Byte) /\ Len(PieceBytes(p)) \in Nat /\ Len(PieceBytes(p)) > 0
<1>1. CASE p \in Values
  <2>1. /\ TagOf[p[1]] \in Byte /\ BodyOf(p) \in Seq(Byte)
        /\ PieceBytes(p) = <<TagOf[p[1]]>> \o BodyOf(p)
    BY <1>1, ValueCode
  <2>2. PICK a, b : a = <<TagOf[p[1]]>> /\ b = BodyOf(p)
    OBVIOUS
  <2>3. a \in Seq(Byte) /\ Len(a) = 1 /\ b \in Seq(Byte) /\ PieceBytes(p) = a \o b
    BY <2>1, <2>2
  <2>4. /\ a \o b \in Seq(Byte) /\ Len(a \o b) = Len(a) + Len(b) /\ Len(b) \in Nat
    BY <2>3, Joined
  <2>5. QED
    BY <2>3, <2>4
<1>2. CASE p \notin Values
  <2>1. PICK text \in Text : p = KeyPiece(text)
    BY <1>2 DEF Pieces
  <2>2. PieceBytes(p) = TextBytes(text)
    BY <2>1 DEF PieceBytes, KeyPiece, Texts
  <2>3. QED
    BY <2>2, TextCode
<1>3. QED
  BY <1>1, <1>2

(* read_value reads a value whose code lies there up to what is inside of  *)
(* it, or refuses it: a bool, or the one number. *)
LEMMA HeadIsRead ==
  ASSUME bytes \in Seq(Byte), NEW Values, Serializable(Values), NEW v \in Values, v[1] # "path",
         NEW from \in Nat, Lies(bytes, from, PieceBytes(v)), read_head(from).error = "none"
  PROVE  /\ KindAt(from) = v[1]
         /\ read_head(from) = Got(IF v[1] \in {"block", "context"} THEN Len(v[2]) ELSE v[2],
                                  from + Len(PieceBytes(v)))
<1> DEFINE body == BodyOf(v)
<1>1. /\ v[1] \in DOMAIN TagOf /\ TagOf[v[1]] \in Byte
      /\ body \in Seq(Byte) /\ PieceBytes(v) = <<TagOf[v[1]]>> \o body
      /\ v[1] \in {"block", "context"} => Len(v[2]) \in Nat /\ Len(v[2]) =< MaxInt
  BY ValueCode
<1>2. PICK tag : tag = TagOf[v[1]]
  OBVIOUS
<1>3. /\ Lies(bytes, from, <<tag>>) /\ Lies(bytes, from + 1, body) /\ from + 1 \in Nat /\ <<tag>> \in Seq(Byte)
      /\ Len(<<tag>>) = 1
  <2>1. <<tag>> \in Seq(Byte) /\ Len(<<tag>>) = 1
    BY <1>1, <1>2
  <2> HIDE DEF body
  <2>2. QED
    BY <1>1, <1>2, <2>1, LiesJoined
<1>4. bytes[from + 1] = TagOf[v[1]] /\ from < Len(bytes) /\ Len(bytes) \in Nat
  <2>1. <<tag>>[1] = tag /\ 1 \in 1 .. 1
    OBVIOUS
  <2>2. bytes[from + 1] = tag /\ from + 1 =< Len(bytes)
    BY <1>3, <2>1 DEF Lies
  <2>3. Len(bytes) \in Nat
    BY LenProperties
  <2>4. QED
    BY <1>2, <2>2, <2>3
<1>5. Len(PieceBytes(v)) = 1 + Len(body) /\ Len(body) \in Nat
  <2> HIDE DEF body
  <2>1. QED
    BY <1>1, <1>2, <1>3, Joined
<1>6. v[1] # "bool" /\ Kinds(bytes[from + 1]) = {v[1]} /\ KindAt(from) = v[1]
  <2>1. Kinds(bytes[from + 1]) = {} => read_head(from).error # "none"
    BY <1>4 DEF read_head, Refuses
  <2>2. QED
    BY <1>1, <1>4, <2>1, TagTells
<1>7. read_head(from) = CASE v[1] = "none"  -> Got(0, from + 1)
                          [] v[1] = "int"   -> read_varint(from + 1)
                          [] v[1] \in Texts -> read_string(from + 1)
                          [] v[1] \in {"block", "context"} -> read_length(from + 1)
  <2>1. ~(from >= Len(bytes)) /\ Kinds(bytes[from + 1]) # {}
    BY <1>4, <1>6
  <2>2. QED
    BY <1>6, <2>1 DEF read_head
<1>8. from + 1 + Len(body) = from + Len(PieceBytes(v))
  <2> HIDE DEF body
  <2>1. QED
    BY <1>5
<1>9. \/ v = <<"none", 0>> /\ body = << >>
      \/ v[1] = "int" /\ v[2] \in I32 /\ body = encode_i32(v[2])
      \/ v[1] \in Texts /\ v[2] \in Text /\ body = TextBytes(v[2])
      \/ v[1] \in {"block", "context"} /\ body = encode_i32(Len(v[2]))
  <2>2. \/ v = <<"none", 0>>
        \/ v[1] = "int" /\ v[2] \in I32
        \/ v[1] \in Texts /\ v[2] \in Text
        \/ v[1] \in {"block", "context"}
    BY <1>6, ValueKinds
  <2>3. QED
    BY <2>2 DEF BodyOf, Texts
<1> HIDE DEF body
<1>10. CASE v = <<"none", 0>> /\ body = << >>
  <2>1. Len(body) = 0 /\ v[1] = "none" /\ v[2] = 0
    BY <1>10
  <2>2. read_head(from) = Got(0, from + 1)
    BY <1>7, <2>1 DEF Texts
  <2>3. v[1] \notin {"block", "context"} /\ from + 1 = from + Len(PieceBytes(v))
    BY <1>3, <1>8, <2>1
  <2>4. QED
    BY <1>6, <2>1, <2>2, <2>3
<1>11. CASE v[1] = "int" /\ v[2] \in I32 /\ body = encode_i32(v[2])
  <2>1. read_head(from) = read_varint(from + 1)
    BY <1>7, <1>11 DEF Texts
  <2>2. read_varint(from + 1) = IF v[2] = MinInt /\ OverflowChecks THEN Refuses("panic")
                                ELSE Got(v[2], from + 1 + Len(body))
    BY <1>3, <1>11, VarintIsRead
  <2>3. read_head(from) = Got(v[2], from + 1 + Len(body))
    BY <2>1, <2>2 DEF Refuses
  <2>4. QED
    BY <1>6, <1>8, <1>11, <2>3
<1>12. CASE v[1] \in Texts /\ v[2] \in Text /\ body = TextBytes(v[2])
  <2>1. read_head(from) = read_string(from + 1) /\ v[1] \notin {"block", "context"}
    BY <1>7, <1>12 DEF Texts
  <2>2. read_string(from + 1) = Got(v[2], from + 1 + Len(body))
    BY <1>3, <1>12, TextIsRead
  <2>3. QED
    BY <1>6, <1>8, <2>1, <2>2
<1>13. CASE v[1] \in {"block", "context"} /\ body = encode_i32(Len(v[2]))
  <2>1. read_head(from) = read_length(from + 1)
    BY <1>7, <1>13 DEF Texts
  <2>2. read_length(from + 1) = Got(Len(v[2]), from + 1 + Len(body))
    BY <1>1, <1>3, <1>13, LengthIsRead
  <2>3. QED
    BY <1>6, <1>8, <1>13, <2>1, <2>2
<1>14. QED
  BY <1>9, <1>10, <1>11, <1>12, <1>13

(* It refuses a value whose code was cut. *)
LEMMA HeadIsCut ==
  ASSUME bytes \in Seq(Byte), NEW Values, Serializable(Values), NEW v \in Values, v[1] # "path",
         NEW from \in Nat, CutShort(bytes, from, PieceBytes(v))
  PROVE  read_head(from).error # "none"
<1> DEFINE body == BodyOf(v)
<1>1. /\ v[1] \in DOMAIN TagOf /\ TagOf[v[1]] \in Byte
      /\ body \in Seq(Byte) /\ PieceBytes(v) = <<TagOf[v[1]]>> \o body
      /\ v[1] \in {"block", "context"} => Len(v[2]) \in Nat /\ Len(v[2]) =< MaxInt
  BY ValueCode
<1>2. PICK tag : tag = TagOf[v[1]]
  OBVIOUS
<1>3. <<tag>> \in Seq(Byte) /\ Len(<<tag>>) = 1 /\ Len(bytes) \in Nat
  BY <1>1, <1>2, LenProperties
<1>4. \/ CutShort(bytes, from, <<tag>>)
      \/ Lies(bytes, from, <<tag>>) /\ from + 1 \in Nat /\ CutShort(bytes, from + 1, body)
  <2> HIDE DEF body
  <2>1. QED
    <3>1. PICK a, b : a = <<tag>> /\ b = body
      OBVIOUS
    <3>2. a \in Seq(Byte) /\ b \in Seq(Byte) /\ CutShort(bytes, from, a \o b) /\ Len(a) = 1
      BY <1>1, <1>2, <1>3, <3>1
    <3>3. \/ CutShort(bytes, from, a)
          \/ Lies(bytes, from, a) /\ from + Len(a) \in Nat /\ CutShort(bytes, from + Len(a), b)
      BY <3>2, CutJoined
    <3>4. QED
      BY <3>1, <3>2, <3>3
<1>5. CASE CutShort(bytes, from, <<tag>>)
  <2>1. from >= Len(bytes)
    BY <1>3, <1>5 DEF CutShort
  <2>2. QED
    BY <2>1 DEF read_head, Refuses, EndOfData
<1>6. CASE Lies(bytes, from, <<tag>>) /\ from + 1 \in Nat /\ CutShort(bytes, from + 1, body)
  <2>1. bytes[from + 1] = TagOf[v[1]] /\ ~(from >= Len(bytes))
    <3>1. <<tag>>[1] = tag /\ 1 \in 1 .. 1
      OBVIOUS
    <3>2. bytes[from + 1] = tag /\ from + 1 =< Len(bytes)
      BY <1>3, <1>6, <3>1 DEF Lies
    <3>3. QED
      BY <1>2, <1>3, <3>2
  <2>2. CASE Kinds(bytes[from + 1]) = {}
    BY <2>1, <2>2 DEF read_head, Refuses
  <2>3. CASE Kinds(bytes[from + 1]) # {}
    <3>1. v[1] # "bool" /\ KindAt(from) = v[1]
      BY <1>1, <2>1, <2>3, TagTells
    <3>2. read_head(from) = CASE v[1] = "none"  -> Got(0, from + 1)
                              [] v[1] = "int"   -> read_varint(from + 1)
                              [] v[1] \in Texts -> read_string(from + 1)
                              [] v[1] \in {"block", "context"} -> read_length(from + 1)
      BY <2>1, <2>3, <3>1 DEF read_head
    <3>3. \/ v[1] = "none" /\ body = << >>
          \/ v[1] = "int" /\ v[2] \in I32 /\ body = encode_i32(v[2])
          \/ v[1] \in Texts /\ v[2] \in Text /\ body = TextBytes(v[2])
          \/ v[1] \in {"block", "context"} /\ body = encode_i32(Len(v[2]))
      <4>2. \/ v[1] = "none"
            \/ v[1] = "int" /\ v[2] \in I32
            \/ v[1] \in Texts /\ v[2] \in Text
            \/ v[1] \in {"block", "context"}
        BY <3>1, ValueKinds
      <4>3. QED
        BY <4>2 DEF BodyOf, Texts
    <3> HIDE DEF body
    <3>4. CASE v[1] = "none" /\ body = << >>
      <4>1. FALSE
        BY <1>3, <1>6, <3>4 DEF CutShort
      <4>2. QED
        BY <4>1
    <3>5. CASE v[1] = "int" /\ v[2] \in I32 /\ body = encode_i32(v[2])
      <4>1. read_head(from) = read_varint(from + 1)
        BY <3>2, <3>5 DEF Texts
      <4>2. QED
        BY <1>6, <3>5, <4>1, VarintIsCut DEF Refuses, EndOfData
    <3>6. CASE v[1] \in Texts /\ v[2] \in Text /\ body = TextBytes(v[2])
      <4>1. read_head(from) = read_string(from + 1)
        BY <3>2, <3>6 DEF Texts
      <4>2. QED
        BY <1>6, <3>6, <4>1, TextIsCut DEF Refuses, EndOfData
    <3>7. CASE v[1] \in {"block", "context"} /\ body = encode_i32(Len(v[2]))
      <4>1. read_head(from) = read_length(from + 1)
        BY <3>2, <3>7 DEF Texts
      <4>2. QED
        BY <1>1, <1>6, <3>7, <4>1, LengthIsCut DEF Refuses, EndOfData
    <3>8. QED
      BY <3>3, <3>4, <3>5, <3>6, <3>7
  <2>4. QED
    BY <2>2, <2>3
<1>7. QED
  BY <1>4, <1>5, <1>6

-----------------------------------------------------------------------------
(* What is inside a value, in the order it is visited and read. *)
Container(v) == v[1] \in {"block", "context"}
Unread(v, n) == SubSeq(Inside(v), n + 1, Len(Inside(v)))

(* How much of it a frame has read. *)
Consumed(f) ==
  IF f.kind = "context" THEN 2 * Len(f.items) + (IF f.key = << >> THEN 0 ELSE 1)
  ELSE Len(f.items)

(* A frame holds the beginning of a value, the key of its next pair too; a *)
(* frame waits for the value of that pair, or for the next of its block. *)
FrameOf(f, v) ==
  /\ Container(v)
  /\ f = [kind |-> v[1], left |-> f.left, key |-> f.key, items |-> f.items]
  /\ f.left \in Nat /\ Len(f.items) \in Nat /\ Len(f.items) + f.left = Len(v[2])
  /\ f.items = SubSeq(v[2], 1, Len(f.items))
  /\ f.key # << >> =>
       v[1] = "context" /\ f.left > 0 /\ f.key = <<v[2][Len(f.items) + 1][1]>>
Waits(f) == f.left > 0 /\ (f.kind = "context" => f.key # << >>)

(* A leaf has nothing inside, a block its items, a context each key before *)
(* the value under it. *)
LEMMA InsideOf ==
  ASSUME NEW Values, Serializable(Values), NEW v \in Values
  PROVE  /\ ~Container(v) => Inside(v) = << >>
         /\ Container(v) => Len(v[2]) \in Nat
         /\ Inside(v) \in Seq(Pieces(Values))
         /\ v[1] = "block" =>
              /\ Len(Inside(v)) = Len(v[2])
              /\ \A i \in 1 .. Len(v[2]) : Inside(v)[i] = Child(v, i) /\ Child(v, i) = v[2][i]
                                           /\ Child(v, i) \in Values
         /\ v[1] = "context" =>
              /\ Len(Inside(v)) = 2 * Len(v[2])
              /\ \A i \in 1 .. Len(v[2]) :
                   /\ v[2][i] = <<v[2][i][1], Child(v, i)>> /\ v[2][i][1] \in Text /\ Child(v, i) \in Values
                   /\ Inside(v)[2 * i - 1] = KeyPiece(v[2][i][1])
                   /\ Inside(v)[2 * i] = Child(v, i)
<1>1. CASE ~Container(v)
  <2>1. Inside(v) = << >> /\ v[1] # "block" /\ v[1] # "context"
    BY <1>1 DEF Inside, Container
  <2>2. << >> \in Seq(Pieces(Values))
    OBVIOUS
  <2>3. QED
    BY <1>1, <2>1, <2>2
<1>2. CASE v[1] = "block"
  <2>1. v[2] \in Seq(Values)
    BY <1>2, ValueKinds DEF Texts
  <2>2. PICK s : s = v[2]
    OBVIOUS
  <2>3. Inside(v) = s /\ s \in Seq(Values) /\ Len(s) \in Nat /\ DOMAIN s = 1 .. Len(s)
    BY <1>2, <2>1, <2>2, LenProperties DEF Inside
  <2>4. s \in Seq(Pieces(Values)) /\ \A i \in 1 .. Len(s) : s[i] \in Values
    BY <2>3, ElementOfSeq DEF Pieces
  <2>5. \A i \in 1 .. Len(s) : Child(v, i) = s[i]
    BY <1>2, <2>2, <2>3 DEF Child
  <2>6. QED
    BY <1>2, <2>2, <2>3, <2>4, <2>5 DEF Container
<1>3. CASE v[1] = "context"
  <2>1. v[2] \in Seq(Text \X Values)
    BY <1>3, ValueKinds DEF Texts
  <2>2. PICK s, n : s = v[2] /\ n = Len(s)
    OBVIOUS
  <2>3. s \in Seq(Text \X Values) /\ n \in Nat /\ DOMAIN s = 1 .. n
    BY <2>1, <2>2, LenProperties
  <2>4. Inside(v) = [i \in 1 .. 2 * n |-> IF i % 2 = 1 THEN KeyPiece(s[(i + 1) \div 2][1]) ELSE s[i \div 2][2]]
    BY <1>3, <2>2 DEF Inside, KeyPiece
  <2>5. ASSUME NEW i \in 1 .. n
        PROVE  /\ s[i] = <<s[i][1], Child(v, i)>> /\ s[i][1] \in Text /\ Child(v, i) \in Values
               /\ s[i][2] = Child(v, i)
    <3>1. s[i] \in Text \X Values
      BY <2>2, <2>3, ElementOfSeq
    <3>2. Child(v, i) = s[i][2]
      BY <1>3, <2>2, <2>3 DEF Child
    <3>3. QED
      BY <3>1, <3>2
  <2>6. ASSUME NEW i \in 1 .. n
        PROVE  Inside(v)[2 * i - 1] = KeyPiece(s[i][1]) /\ Inside(v)[2 * i] = s[i][2]
    <3>1. /\ 2 * i - 1 \in 1 .. 2 * n /\ (2 * i - 1) % 2 = 1 /\ (2 * i - 1 + 1) \div 2 = i
          /\ 2 * i \in 1 .. 2 * n /\ (2 * i) % 2 # 1 /\ (2 * i) \div 2 = i
      BY <2>3
    <3>2. QED
      BY <2>4, <3>1
  <2>7. ASSUME NEW i \in 1 .. 2 * n PROVE Inside(v)[i] \in Pieces(Values)
    <3>1. CASE i % 2 = 1
      <4>1. (i + 1) \div 2 \in 1 .. n
        BY <2>3, <3>1
      <4>2. Inside(v)[i] = KeyPiece(s[(i + 1) \div 2][1])
        BY <2>4, <3>1
      <4>3. QED
        BY <2>5, <4>1, <4>2 DEF Pieces
    <3>2. CASE i % 2 # 1
      <4>1. i \div 2 \in 1 .. n
        BY <2>3, <3>2
      <4>2. Inside(v)[i] = s[i \div 2][2]
        BY <2>4, <3>2
      <4>3. QED
        BY <2>5, <4>1, <4>2 DEF Pieces
    <3>3. QED
      BY <3>1, <3>2
  <2>8. Inside(v) \in Seq(Pieces(Values)) /\ Len(Inside(v)) = 2 * n
    <3>1. PICK m, t : m = 2 * n /\ t = Inside(v)
      OBVIOUS
    <3>2. m \in Nat /\ t \in [1 .. m -> Pieces(Values)]
      BY <2>3, <2>4, <2>7, <3>1
    <3>3. t \in Seq(Pieces(Values)) /\ Len(t) = m
      BY <3>2
    <3>4. QED
      BY <3>1, <3>3
  <2>9. QED
    BY <1>3, <2>2, <2>3, <2>5, <2>6, <2>8 DEF Container
<1>4. QED
  BY <1>1, <1>2, <1>3 DEF Container

(* The rest of a sequence. *)
LEMMA RestOf ==
  ASSUME NEW S, NEW s \in Seq(S), NEW n \in 0 .. Len(s)
  PROVE  /\ SubSeq(s, n + 1, Len(s)) \in Seq(S)
         /\ n = 0 => SubSeq(s, n + 1, Len(s)) = s
         /\ n = Len(s) => SubSeq(s, n + 1, Len(s)) = << >>
         /\ n < Len(s) =>
              /\ SubSeq(s, n + 1, Len(s)) # << >>
              /\ Head(SubSeq(s, n + 1, Len(s))) = s[n + 1] /\ s[n + 1] \in S
              /\ Tail(SubSeq(s, n + 1, Len(s))) = SubSeq(s, n + 1 + 1, Len(s))
<1>1. PICK m : m = Len(s)
  OBVIOUS
<1>2. m \in Nat /\ n \in Nat /\ n =< m /\ \A i \in 1 .. m : s[i] \in S
  BY <1>1, LenProperties, ElementOfSeq
<1>3. ASSUME NEW k \in 0 .. m
      PROVE  /\ SubSeq(s, k + 1, m) \in Seq(S) /\ Len(SubSeq(s, k + 1, m)) = m - k
             /\ \A i \in 1 .. m - k : SubSeq(s, k + 1, m)[i] = s[k + i]
  <2>1. k + 1 \in Int /\ m \in Int /\ \A i \in k + 1 .. m : s[i] \in S
    BY <1>2
  <2>2. /\ SubSeq(s, k + 1, m) \in Seq(S)
        /\ Len(SubSeq(s, k + 1, m)) = IF k + 1 =< m THEN m - (k + 1) + 1 ELSE 0
        /\ \A i \in 1 .. m - (k + 1) + 1 : SubSeq(s, k + 1, m)[i] = s[k + 1 + i - 1]
    BY <2>1, SubSeqProperties
  <2>3. m - (k + 1) + 1 = m - k /\ \A i \in Int : k + 1 + i - 1 = k + i
    BY <1>2
  <2>4. Len(SubSeq(s, k + 1, m)) = m - k
    <3>1. k + 1 =< m \/ k = m
      BY <1>2
    <3>2. QED
      BY <1>2, <2>2, <2>3, <3>1
  <2>5. QED
    BY <2>2, <2>3, <2>4
<1>4. PICK t : t = SubSeq(s, n + 1, m)
  OBVIOUS
<1>5. t \in Seq(S) /\ Len(t) = m - n /\ \A i \in 1 .. m - n : t[i] = s[n + i]
  <2>1. n \in 0 .. m
    BY <1>2
  <2>2. QED
    BY <1>3, <1>4, <2>1
<1>6. n = 0 => t = s
  <2>1. SUFFICES ASSUME n = 0 PROVE t = s
    OBVIOUS
  <2>2. Len(t) = Len(s) /\ \A i \in 1 .. Len(t) : t[i] = s[i]
    BY <1>1, <1>2, <1>5, <2>1
  <2>3. QED
    BY <1>5, <2>2, SameElements
<1>7. n = m => t = << >>
  BY <1>2, <1>5, EmptySeq
<1>8. ASSUME n < m
      PROVE  t # << >> /\ Head(t) = s[n + 1] /\ s[n + 1] \in S /\ Tail(t) = SubSeq(s, n + 1 + 1, m)
  <2>1. PICK u, k : u = SubSeq(s, k + 1, m) /\ k = n + 1
    OBVIOUS
  <2>2. k \in 0 .. m /\ 1 \in 1 .. m - n /\ n + 1 \in 1 .. m /\ m - n # 0
    BY <1>2, <1>8, <2>1
  <2>3. u \in Seq(S) /\ Len(u) = m - k /\ \A i \in 1 .. m - k : u[i] = s[k + i]
    BY <1>3, <2>1, <2>2
  <2>4. t # << >> /\ Head(t) = s[n + 1] /\ s[n + 1] \in S
    BY <1>2, <1>5, <2>2
  <2>5. Tail(t) \in Seq(S) /\ Len(Tail(t)) = Len(t) - 1 /\ \A i \in 1 .. Len(t) - 1 : Tail(t)[i] = t[i + 1]
    BY <1>5, <2>4, HeadTailProperties
  <2>6. Len(Tail(t)) = Len(u)
    <3>1. m - n - 1 = m - k
      BY <1>2, <2>1
    <3>2. QED
      BY <1>5, <2>3, <2>5, <3>1
  <2>7. ASSUME NEW i \in 1 .. Len(Tail(t)) PROVE Tail(t)[i] = u[i]
    <3>1. i \in 1 .. Len(t) - 1 /\ i + 1 \in 1 .. m - n /\ i \in 1 .. m - k /\ n + (i + 1) = k + i
      BY <1>2, <1>5, <2>1, <2>3, <2>5, <2>6
    <3>2. Tail(t)[i] = t[i + 1] /\ t[i + 1] = s[n + (i + 1)] /\ u[i] = s[k + i]
      BY <1>5, <2>3, <2>5, <3>1
    <3>3. QED
      BY <3>1, <3>2
  <2>8. Tail(t) = u
    BY <2>3, <2>5, <2>6, <2>7, SameElements
  <2>9. QED
    BY <2>1, <2>4, <2>8
<1>9. QED
  BY <1>1, <1>4, <1>5, <1>6, <1>7, <1>8

(* A sequence before another. *)
LEMMA Before ==
  ASSUME NEW S, NEW a \in Seq(S), NEW b \in Seq(S)
  PROVE  /\ a = << >> => a \o b = b
         /\ b = << >> => a \o b = a
         /\ a # << >> => a \o b # << >> /\ Head(a \o b) = Head(a) /\ (a \o b)[1] = Head(a)
                         /\ Tail(a \o b) = Tail(a) \o b /\ Tail(a) \in Seq(S)
<1>1. a = << >> => a \o b = b
  OBVIOUS
<1>2. b = << >> => a \o b = a
  OBVIOUS
<1>3. ASSUME a # << >>
      PROVE  /\ a \o b # << >> /\ Head(a \o b) = Head(a) /\ (a \o b)[1] = Head(a)
             /\ Tail(a \o b) = Tail(a) \o b /\ Tail(a) \in Seq(S)
  <2>1. PICK c : c = a \o b
    OBVIOUS
  <2>2. /\ c \in Seq(S) /\ Len(c) = Len(a) + Len(b) /\ Len(a) \in Nat /\ Len(b) \in Nat /\ Len(a) > 0
        /\ \A i \in 1 .. Len(a) : c[i] = a[i]
        /\ \A i \in 1 .. Len(b) : c[Len(a) + i] = b[i]
    BY <1>3, <2>1, Joined, EmptySeq
  <2>3. c # << >> /\ Head(c) = c[1] /\ c[1] = a[1] /\ Head(a) = a[1]
    BY <1>3, <2>2
  <2>4. PICK d, n : d = Tail(a) /\ n = Len(a) - 1
    OBVIOUS
  <2>5. d \in Seq(S) /\ Len(d) = n /\ n \in Nat /\ \A i \in 1 .. n : d[i] = a[i + 1]
    BY <1>3, <2>2, <2>4, HeadTailProperties
  <2>6. /\ Tail(c) \in Seq(S) /\ Len(Tail(c)) = n + Len(b)
        /\ \A i \in 1 .. n + Len(b) : Tail(c)[i] = c[i + 1]
    <3>1. Len(c) - 1 = n + Len(b)
      BY <2>2, <2>4
    <3>2. QED
      BY <2>2, <2>3, <3>1, HeadTailProperties
  <2>7. /\ d \o b \in Seq(S) /\ Len(d \o b) = n + Len(b)
        /\ \A i \in 1 .. n : (d \o b)[i] = d[i]
        /\ \A i \in 1 .. Len(b) : (d \o b)[n + i] = b[i]
    <3>1. /\ d \o b \in Seq(S) /\ Len(d \o b) = Len(d) + Len(b)
          /\ \A i \in 1 .. Len(d) : (d \o b)[i] = d[i]
          /\ \A i \in 1 .. Len(b) : (d \o b)[Len(d) + i] = b[i]
      <4>1. d \in Seq(S) /\ b \in Seq(S)
        BY <2>5
      <4>2. QED
        BY ONLY <4>1, Joined
    <3>2. Len(d) = n
      BY <2>5
    <3>3. QED
      BY <3>1, <3>2
  <2>8. ASSUME NEW i \in 1 .. n + Len(b) PROVE Tail(c)[i] = (d \o b)[i]
    <3>1. CASE i =< n
      <4>1. i \in 1 .. n /\ i + 1 \in 1 .. Len(a)
        BY <2>2, <2>4, <2>5, <3>1
      <4>2. QED
        BY <2>2, <2>5, <2>6, <2>7, <4>1
    <3>2. CASE ~(i =< n)
      <4>1. PICK j : j = i - n
        OBVIOUS
      <4>2. j \in 1 .. Len(b) /\ i = n + j /\ i + 1 = Len(a) + j
        BY <2>2, <2>4, <2>5, <3>2, <4>1
      <4>3. Tail(c)[i] = c[Len(a) + j] /\ (d \o b)[i] = b[j]
        BY <2>6, <2>7, <4>2
      <4>4. QED
        BY <2>2, <4>2, <4>3
    <3>3. QED
      BY <3>1, <3>2
  <2>9. Tail(c) = d \o b
    BY <2>6, <2>7, <2>8, SameElements
  <2>10. QED
    BY <2>1, <2>3, <2>4, <2>5, <2>9
<1>4. QED
  BY <1>1, <1>2, <1>3

(* What a frame finds next. *)
LEMMA NextUnread ==
  ASSUME NEW Values, Serializable(Values), NEW v \in Values, NEW f, FrameOf(f, v)
  PROVE  /\ Consumed(f) \in 0 .. Len(Inside(v)) /\ Inside(v) \in Seq(Pieces(Values))
         /\ f.kind = v[1]
         /\ f.left = 0 => Consumed(f) = Len(Inside(v)) /\ f.items = v[2]
         /\ f.left > 0 => Consumed(f) < Len(Inside(v))
         /\ f.left > 0 /\ v[1] = "context" /\ f.key = << >> =>
              /\ Inside(v)[Consumed(f) + 1] = KeyPiece(v[2][Len(f.items) + 1][1])
              /\ v[2][Len(f.items) + 1][1] \in Text
         /\ Waits(f) =>
              /\ Inside(v)[Consumed(f) + 1] = Child(v, Len(f.items) + 1)
              /\ Child(v, Len(f.items) + 1) \in Values
<1>1. PICK done, n, c : done = Len(f.items) /\ n = Len(v[2]) /\ c = Consumed(f)
  OBVIOUS
<1>2. /\ f.kind = v[1] /\ Container(v) /\ f.left \in Nat /\ done \in Nat /\ done + f.left = n /\ n \in Nat
      /\ f.items = SubSeq(v[2], 1, done)
      /\ f.key # << >> => v[1] = "context" /\ f.left > 0
  BY <1>1, InsideOf DEF FrameOf
<1>3. Inside(v) \in Seq(Pieces(Values)) /\ (v[1] = "block" \/ v[1] = "context")
  BY <1>2, InsideOf DEF Container
<1>4. f.left = 0 => f.items = v[2]
  <2>1. \E S : v[2] \in Seq(S)
    BY <1>3, ValueKinds DEF Texts
  <2>2. f.left = 0 => done = n
    BY <1>2
  <2>3. QED
    BY <1>1, <1>2, <2>1, <2>2, SubSeqFull
<1>5. CASE v[1] = "block"
  <2>1. c = done /\ Len(Inside(v)) = n
    BY <1>1, <1>2, <1>5, InsideOf DEF Consumed
  <2>2. c \in 0 .. n /\ (f.left = 0 => c = n) /\ (f.left > 0 => c < n /\ done + 1 \in 1 .. n)
    BY <1>2, <2>1
  <2>3. f.left > 0 => /\ Inside(v)[c + 1] = Child(v, done + 1)
                      /\ Child(v, done + 1) \in Values
    BY <1>1, <1>5, <2>1, <2>2, InsideOf
  <2>4. QED
    BY <1>1, <1>2, <1>3, <1>4, <1>5, <2>1, <2>2, <2>3 DEF Waits
<1>6. CASE v[1] = "context"
  <2>1. c = 2 * done + (IF f.key = << >> THEN 0 ELSE 1) /\ Len(Inside(v)) = 2 * n
    BY <1>1, <1>2, <1>6, InsideOf DEF Consumed
  <2>2. f.left > 0 => /\ done + 1 \in 1 .. n
                      /\ 2 * done + 1 = 2 * (done + 1) - 1 /\ 2 * done + 1 + 1 = 2 * (done + 1)
    BY <1>2
  <2>3. f.left > 0 => /\ Inside(v)[2 * done + 1] = KeyPiece(v[2][done + 1][1])
                      /\ v[2][done + 1][1] \in Text
                      /\ Inside(v)[2 * done + 1 + 1] = Child(v, done + 1)
                      /\ Child(v, done + 1) \in Values
    <3>1. SUFFICES ASSUME f.left > 0
                   PROVE  /\ Inside(v)[2 * done + 1] = KeyPiece(v[2][done + 1][1])
                          /\ v[2][done + 1][1] \in Text
                          /\ Inside(v)[2 * done + 1 + 1] = Child(v, done + 1)
                          /\ Child(v, done + 1) \in Values
      OBVIOUS
    <3>2. PICK i : i = done + 1
      OBVIOUS
    <3>3. i \in 1 .. n /\ 2 * done + 1 = 2 * i - 1 /\ 2 * done + 1 + 1 = 2 * i
      BY <2>2, <3>1, <3>2
    <3>4. /\ v[2][i][1] \in Text /\ Child(v, i) \in Values
          /\ Inside(v)[2 * i - 1] = KeyPiece(v[2][i][1]) /\ Inside(v)[2 * i] = Child(v, i)
      BY <1>1, <1>6, <3>3, InsideOf
    <3>5. QED
      BY <3>2, <3>3, <3>4
  <2>4. CASE f.key = << >>
    <3>1. c = 2 * done
      BY <1>2, <2>1, <2>4
    <3>2. c \in 0 .. 2 * n /\ (f.left = 0 => c = 2 * n) /\ (f.left > 0 => c < 2 * n)
      BY <1>2, <3>1
    <3>3. ~Waits(f)
      BY <1>2, <1>6, <2>4 DEF Waits
    <3>4. QED
      BY <1>1, <1>2, <1>3, <1>4, <1>6, <2>1, <2>3, <3>1, <3>2, <3>3
  <2>5. CASE f.key # << >>
    <3>1. c = 2 * done + 1 /\ f.left > 0
      BY <1>2, <2>1, <2>5
    <3>2. c \in 0 .. 2 * n /\ c < 2 * n /\ f.left # 0
      BY <1>2, <3>1
    <3>3. QED
      BY <1>1, <1>2, <1>3, <1>4, <2>1, <2>3, <2>5, <3>1, <3>2
  <2>6. QED
    BY <2>4, <2>5
<1>7. QED
  BY <1>3, <1>5, <1>6

(* A new frame, one that reads a key, one that a value is delivered to. *)
LEMMA FrameBegins ==
  ASSUME NEW Values, Serializable(Values), NEW v \in Values, Container(v)
  PROVE  FrameOf(Frame(v[1], Len(v[2])), v) /\ Consumed(Frame(v[1], Len(v[2]))) = 0
<1>1. PICK f, n : f = Frame(v[1], Len(v[2])) /\ n = Len(v[2])
  OBVIOUS
<1>2. f = [kind |-> v[1], left |-> n, key |-> << >>, items |-> << >>]
  BY <1>1 DEF Frame
<1>3. f.kind = v[1] /\ f.left = n /\ f.key = << >> /\ f.items = << >> /\ Len(f.items) = 0 /\ n \in Nat
  BY <1>1, <1>2, InsideOf
<1>4. SubSeq(v[2], 1, 0) = << >>
  <2>1. \E S : v[2] \in Seq(S)
    BY ValueKinds DEF Texts, Container
  <2>2. QED
    BY <2>1, SubSeqEmpty
<1>5. f = [kind |-> v[1], left |-> f.left, key |-> f.key, items |-> f.items]
  BY <1>2, <1>3
<1>6. Len(f.items) + f.left = Len(v[2])
  BY <1>1, <1>3
<1>7. FrameOf(f, v)
  BY <1>3, <1>4, <1>5, <1>6 DEF FrameOf
<1>8. Consumed(f) = 0
  BY <1>3 DEF Consumed
<1>9. QED
  BY <1>1, <1>7, <1>8

LEMMA KeyTaken ==
  ASSUME NEW v, NEW f, FrameOf(f, v), v[1] = "context", f.key = << >>, f.left > 0,
         NEW key, key = v[2][Len(f.items) + 1][1]
  PROVE  /\ FrameOf([f EXCEPT !.key = <<key>>], v)
         /\ Consumed([f EXCEPT !.key = <<key>>]) = Consumed(f) + 1
<1>1. PICK g, done : g = [f EXCEPT !.key = <<key>>] /\ done = Len(f.items)
  OBVIOUS
<1>2. /\ f = [kind |-> v[1], left |-> f.left, key |-> f.key, items |-> f.items]
      /\ done \in Nat
  BY <1>1 DEF FrameOf
<1>3. g = [kind |-> v[1], left |-> f.left, key |-> <<key>>, items |-> f.items]
  BY <1>1, <1>2
<1>4. g.kind = v[1] /\ g.left = f.left /\ g.key = <<key>> /\ g.items = f.items /\ g.key # << >>
  BY <1>3
<1>5. g = [kind |-> v[1], left |-> g.left, key |-> g.key, items |-> g.items]
  BY <1>3, <1>4
<1>6. FrameOf(g, v)
  BY <1>4, <1>5 DEF FrameOf
<1>7. Consumed(g) = 2 * done + 1 /\ Consumed(f) = 2 * done + 0
  <2>1. f.kind = v[1]
    BY <1>2
  <2>2. QED
    BY <1>1, <1>4, <2>1 DEF Consumed
<1>8. QED
  BY <1>1, <1>2, <1>6, <1>7

LEMMA ValueTaken ==
  ASSUME NEW Values, Serializable(Values), NEW v \in Values, NEW f, FrameOf(f, v), Waits(f),
         NEW value, value = Child(v, Len(f.items) + 1)
  PROVE  /\ FrameOf(Taking(f, value), v)
         /\ Consumed(Taking(f, value)) = Consumed(f) + 1
<1>1. PICK g, done, s, item : /\ g = Taking(f, value) /\ done = Len(f.items) /\ s = v[2]
                              /\ item = ItemOf(f, value)
  OBVIOUS
<1>2. /\ f = [kind |-> v[1], left |-> f.left, key |-> f.key, items |-> f.items]
      /\ done \in Nat /\ f.left \in Nat /\ f.left > 0 /\ done + f.left = Len(s) /\ Container(v)
      /\ f.items = SubSeq(s, 1, done)
  BY <1>1 DEF FrameOf, Waits
<1>3. g = [kind |-> v[1], left |-> f.left - 1, key |-> << >>, items |-> Append(f.items, item)]
  <2>1. PICK l, t : l = f.left - 1 /\ t = Append(f.items, item)
    OBVIOUS
  <2>2. g = [f EXCEPT !.left = l, !.key = << >>, !.items = t]
    BY <1>1, <2>1 DEF Taking
  <2>3. PICK a, b, c, d : a = v[1] /\ b = f.left /\ c = f.key /\ d = f.items
    OBVIOUS
  <2>4. f = [kind |-> a, left |-> b, key |-> c, items |-> d]
    BY <1>2, <2>3
  <2>5. [f EXCEPT !.left = l, !.key = << >>, !.items = t]
          = [kind |-> a, left |-> l, key |-> << >>, items |-> t]
    <3>1. PICK x : x = [f EXCEPT !.left = l]
      OBVIOUS
    <3>2. PICK y : y = [x EXCEPT !.key = << >>]
      OBVIOUS
    <3>3. x = [kind |-> a, left |-> l, key |-> c, items |-> d]
      BY ONLY <2>4, <3>1
    <3>4. y = [kind |-> a, left |-> l, key |-> << >>, items |-> d]
      BY ONLY <3>2, <3>3
    <3>5. [y EXCEPT !.items = t] = [kind |-> a, left |-> l, key |-> << >>, items |-> t]
      BY ONLY <3>4
    <3>6. [f EXCEPT !.left = l, !.key = << >>, !.items = t] = [y EXCEPT !.items = t]
      BY ONLY <3>1, <3>2
    <3>7. QED
      BY ONLY <3>5, <3>6
  <2>6. QED
    BY <2>1, <2>2, <2>3, <2>5
<1>4. /\ g.kind = v[1] /\ g.left = f.left - 1 /\ g.key = << >> /\ g.items = Append(f.items, item)
  BY <1>3
<1>5. PICK S : s \in Seq(S)
  BY <1>1, <1>2, ValueKinds DEF Texts, Container
<1>6. done + 1 \in 1 .. Len(s) /\ done =< Len(s) /\ Len(s) \in Nat
  BY <1>2, <1>5, LenProperties
<1>7. item = s[done + 1]
  <2>1. f.kind = v[1]
    BY <1>2
  <2>2. CASE v[1] = "block"
    <3>1. value = s[done + 1]
      BY <1>1, <1>6, <2>2, InsideOf
    <3>2. QED
      BY <1>1, <2>1, <2>2, <3>1 DEF ItemOf
  <2>3. CASE v[1] = "context"
    <3>1. s[done + 1] = <<s[done + 1][1], value>>
      BY <1>1, <1>6, <2>3, InsideOf
    <3>2. f.key[1] = s[done + 1][1]
      BY <1>1, <2>1, <2>3 DEF FrameOf, Waits
    <3>3. QED
      BY <1>1, <2>1, <2>3, <3>1, <3>2 DEF ItemOf
  <2>4. QED
    BY <1>2, <2>2, <2>3 DEF Container
<1>8. Append(f.items, item) = SubSeq(s, 1, done + 1) /\ Len(Append(f.items, item)) = done + 1
  <2>1. PICK t : t = f.items
    OBVIOUS
  <2>2. \A i \in 1 .. done : s[i] \in S
    <3>1. \A i \in 1 .. Len(s) : s[i] \in S
      BY <1>5, ElementOfSeq
    <3>2. \A i \in 1 .. done : i \in 1 .. Len(s)
      BY <1>2, <1>6
    <3>3. QED
      BY <3>1, <3>2
  <2>3. t \in Seq(S) /\ Len(t) = done /\ \A i \in 1 .. done : t[i] = s[i]
    <3>1. 1 \in Int /\ done \in Int /\ \A i \in 1 .. done : s[i] \in S
      BY <1>2, <2>2
    <3>2. /\ SubSeq(s, 1, done) \in Seq(S)
          /\ \A i \in 1 .. done - 1 + 1 : SubSeq(s, 1, done)[i] = s[1 + i - 1]
      BY <3>1, SubSeqProperties
    <3>3. done - 1 + 1 = done /\ \A i \in Int : 1 + i - 1 = i
      BY <1>2
    <3>4. QED
      BY <1>1, <1>2, <2>1, <3>2, <3>3
  <2>4. s[done + 1] \in S
    BY <1>5, <1>6, ElementOfSeq
  <2>5. /\ Append(t, item) \in Seq(S) /\ Len(Append(t, item)) = done + 1
        /\ \A i \in 1 .. done : Append(t, item)[i] = t[i]
        /\ Append(t, item)[done + 1] = item
    BY <1>7, <2>3, <2>4, AppendProperties
  <2>6. \A i \in 1 .. done + 1 : Append(t, item)[i] = s[i]
    <3>1. ASSUME NEW i \in 1 .. done + 1 PROVE Append(t, item)[i] = s[i]
      <4>1. i \in 1 .. done \/ i = done + 1
        BY <1>2
      <4>2. QED
        BY <1>7, <2>3, <2>5, <4>1
    <3>2. QED
      BY <3>1
  <2>7. PICK m, u : m = done + 1 /\ u = SubSeq(s, 1, m)
    OBVIOUS
  <2>8. 1 \in Int /\ m \in Int /\ m >= 1 /\ \A i \in 1 .. m : s[i] \in S
    BY <1>2, <1>5, <1>6, <2>7, ElementOfSeq
  <2>9. /\ u \in Seq(S) /\ Len(u) = IF 1 =< m THEN m - 1 + 1 ELSE 0
        /\ \A i \in 1 .. m - 1 + 1 : u[i] = s[1 + i - 1]
    BY <2>7, <2>8, SubSeqProperties
  <2>10. m - 1 + 1 = m /\ 1 =< m /\ \A i \in Int : 1 + i - 1 = i
    BY <2>8
  <2>11. Len(u) = m /\ \A i \in 1 .. m : u[i] = s[i]
    BY <2>9, <2>10
  <2>12. Append(t, item) = u
    BY <2>5, <2>6, <2>7, <2>9, <2>11, SameElements
  <2>13. QED
    BY <2>1, <2>5, <2>7, <2>12
<1>9. g = [kind |-> v[1], left |-> g.left, key |-> g.key, items |-> g.items]
  BY <1>3, <1>4
<1>10. Len(g.items) = done + 1 /\ g.left \in Nat /\ done + 1 + g.left = Len(s) /\ done + 1 \in Nat
  <2>1. PICK l : l = f.left
    OBVIOUS
  <2>2. l \in Nat /\ l > 0 /\ done + l = Len(s) /\ done \in Nat
    BY <1>2, <2>1
  <2>3. l - 1 \in Nat /\ done + 1 + (l - 1) = Len(s) /\ done + 1 \in Nat
    BY <1>6, <2>2
  <2>4. QED
    BY <1>4, <1>8, <2>1, <2>3
<1>11. FrameOf(g, v)
  <2>1. g.items = SubSeq(v[2], 1, Len(g.items)) /\ Len(g.items) \in Nat /\ Len(g.items) + g.left = Len(v[2])
    BY <1>1, <1>4, <1>8, <1>10
  <2>2. QED
    BY <1>2, <1>4, <1>9, <1>10, <2>1 DEF FrameOf
<1>12. Consumed(g) = Consumed(f) + 1
  <2>1. f.kind = v[1] /\ g.kind = v[1] /\ g.key = << >> /\ Len(g.items) = done + 1 /\ Len(f.items) = done
    BY <1>1, <1>2, <1>4, <1>10
  <2>2. CASE v[1] = "context"
    <3>1. Consumed(f) = 2 * done + 1
      BY <2>1, <2>2 DEF Consumed, Waits
    <3>2. Consumed(g) = 2 * (done + 1) + 0
      BY <2>1, <2>2 DEF Consumed
    <3>3. QED
      BY <1>2, <3>1, <3>2
  <2>3. CASE v[1] # "context"
    BY <2>1, <2>3 DEF Consumed
  <2>4. QED
    BY <2>2, <2>3
<1>13. QED
  BY <1>1, <1>11, <1>12

(* What is left unread of a value in a frame, and after its next piece. *)
LEMMA UnreadNext ==
  ASSUME NEW Values, Serializable(Values), NEW v \in Values, NEW f, FrameOf(f, v)
  PROVE  /\ Unread(v, Consumed(f)) \in Seq(Pieces(Values))
         /\ f.left = 0 => Unread(v, Consumed(f)) = << >>
         /\ f.left > 0 =>
              /\ Unread(v, Consumed(f)) # << >>
              /\ Head(Unread(v, Consumed(f))) = Inside(v)[Consumed(f) + 1]
              /\ Tail(Unread(v, Consumed(f))) = Unread(v, Consumed(f) + 1)
              /\ Unread(v, Consumed(f) + 1) \in Seq(Pieces(Values))
<1>1. PICK s, c : s = Inside(v) /\ c = Consumed(f)
  OBVIOUS
<1>2. /\ s \in Seq(Pieces(Values)) /\ c \in 0 .. Len(s) /\ (f.left = 0 => c = Len(s))
      /\ (f.left > 0 => c < Len(s))
  BY <1>1, NextUnread
<1>3. SubSeq(s, c + 1, Len(s)) \in Seq(Pieces(Values)) /\ (c = Len(s) => SubSeq(s, c + 1, Len(s)) = << >>)
  BY <1>2, RestOf
<1>4. ASSUME f.left > 0
      PROVE  /\ SubSeq(s, c + 1, Len(s)) # << >> /\ Head(SubSeq(s, c + 1, Len(s))) = s[c + 1]
             /\ Tail(SubSeq(s, c + 1, Len(s))) = SubSeq(s, c + 1 + 1, Len(s))
             /\ SubSeq(s, c + 1 + 1, Len(s)) \in Seq(Pieces(Values))
  <2>1. PICK k : k = c + 1
    OBVIOUS
  <2>2. k \in 0 .. Len(s)
    BY <1>2, <1>4, <2>1, LenProperties
  <2>3. SubSeq(s, k + 1, Len(s)) \in Seq(Pieces(Values))
    BY <1>2, <2>2, RestOf
  <2>4. /\ SubSeq(s, c + 1, Len(s)) # << >> /\ Head(SubSeq(s, c + 1, Len(s))) = s[c + 1]
        /\ Tail(SubSeq(s, c + 1, Len(s))) = SubSeq(s, c + 1 + 1, Len(s))
    BY <1>2, <1>4, RestOf
  <2>5. QED
    BY <2>1, <2>3, <2>4
<1>5. QED
  BY <1>1, <1>2, <1>3, <1>4 DEF Unread

(* Stacks of frames. *)
IsStack(fs) == \E S : fs \in Seq(S)

LEMMA StackMoves ==
  ASSUME NEW fs, IsStack(fs)
  PROVE  /\ Len(fs) \in Nat /\ DOMAIN fs = 1 .. Len(fs) /\ (fs = << >> <=> Len(fs) = 0)
         /\ \A f : /\ IsStack(Append(fs, f)) /\ Len(Append(fs, f)) = Len(fs) + 1
                   /\ Append(fs, f)[Len(fs) + 1] = f
                   /\ \A d \in 1 .. Len(fs) : Append(fs, f)[d] = fs[d]
         /\ fs # << >> =>
              /\ IsStack(Front(fs)) /\ Len(Front(fs)) = Len(fs) - 1 /\ Len(fs) >= 1
              /\ \A d \in 1 .. Len(fs) - 1 : Front(fs)[d] = fs[d]
              /\ \A g : /\ IsStack([fs EXCEPT ![Len(fs)] = g])
                        /\ Len([fs EXCEPT ![Len(fs)] = g]) = Len(fs)
                        /\ [fs EXCEPT ![Len(fs)] = g][Len(fs)] = g
                        /\ \A d \in 1 .. Len(fs) - 1 : [fs EXCEPT ![Len(fs)] = g][d] = fs[d]
<1>1. PICK S : fs \in Seq(S)
  BY DEF IsStack
<1>2. PICK n : n = Len(fs)
  OBVIOUS
<1>3. n \in Nat /\ DOMAIN fs = 1 .. n /\ (fs = << >> <=> n = 0) /\ \A d \in 1 .. n : fs[d] \in S
  BY <1>1, <1>2, LenProperties, EmptySeq, ElementOfSeq
<1>4. ASSUME NEW f
      PROVE  /\ IsStack(Append(fs, f)) /\ Len(Append(fs, f)) = n + 1
             /\ Append(fs, f)[n + 1] = f
             /\ \A d \in 1 .. n : Append(fs, f)[d] = fs[d]
  <2>1. PICK T : T = S \union {f}
    OBVIOUS
  <2>2. fs \in Seq(T) /\ f \in T
    <3>1. fs \in [1 .. n -> S]
      BY <1>1, <1>2, LenProperties
    <3>2. fs \in [1 .. n -> T] /\ f \in T
      BY <2>1, <3>1
    <3>3. QED
      BY <1>3, <3>2
  <2>3. Append(fs, f) \in Seq(T)
    BY <2>2, AppendProperties
  <2>4. QED
    BY <1>2, <2>2, <2>3, AppendProperties DEF IsStack
<1>5. ASSUME fs # << >>
      PROVE  /\ IsStack(Front(fs)) /\ Len(Front(fs)) = n - 1 /\ n >= 1
             /\ \A d \in 1 .. n - 1 : Front(fs)[d] = fs[d]
  <2>1. n >= 1
    BY <1>3, <1>5
  <2>2. PICK m, t : m = n - 1 /\ t = SubSeq(fs, 1, m)
    OBVIOUS
  <2>3. m \in Nat /\ 1 \in Int /\ m \in Int /\ \A d \in 1 .. m : fs[d] \in S
    BY <1>3, <2>1, <2>2
  <2>4. /\ t \in Seq(S) /\ Len(t) = (IF 1 =< m THEN m - 1 + 1 ELSE 0)
        /\ \A d \in 1 .. m - 1 + 1 : t[d] = fs[1 + d - 1]
    BY <2>2, <2>3, SubSeqProperties
  <2>5. m - 1 + 1 = m /\ (~(1 =< m) => m = 0) /\ \A d \in Int : 1 + d - 1 = d
    BY <2>3
  <2>6. Len(t) = m /\ \A d \in 1 .. m : t[d] = fs[d]
    BY <2>3, <2>4, <2>5
  <2>7. Front(fs) = t
    BY <1>2, <2>2 DEF Front
  <2>8. QED
    BY <2>1, <2>2, <2>4, <2>6, <2>7 DEF IsStack
<1>6. ASSUME fs # << >>, NEW g
      PROVE  /\ IsStack([fs EXCEPT ![n] = g])
             /\ Len([fs EXCEPT ![n] = g]) = n
             /\ [fs EXCEPT ![n] = g][n] = g
             /\ \A d \in 1 .. n - 1 : [fs EXCEPT ![n] = g][d] = fs[d]
  <2>1. PICK T, t : T = S \union {g} /\ t = [fs EXCEPT ![n] = g]
    OBVIOUS
  <2>2. fs \in [1 .. n -> S] /\ n \in 1 .. n
    BY <1>1, <1>2, <1>3, <1>6, LenProperties
  <2>3. t \in [1 .. n -> T] /\ t[n] = g /\ \A d \in 1 .. n - 1 : t[d] = fs[d]
    BY <2>1, <2>2
  <2>4. t \in Seq(T) /\ Len(t) = n
    BY <1>3, <2>3
  <2>5. QED
    BY <2>1, <2>3, <2>4 DEF IsStack
<1>7. QED
  BY <1>2, <1>3, <1>4, <1>5, <1>6

-----------------------------------------------------------------------------
(* The frames of a value that is being read.  At every depth there is a    *)
(* value, the root at first and then the one its frame waits for, and what *)
(* is left unread of it and of the values around it, in the order in which *)
(* it comes. *)
Nested(Values, root, fs, vs, rest) ==
  /\ vs = [d \in 1 .. Len(fs) |-> vs[d]] /\ vs[1] = root /\ rest[0] = << >>
  /\ \A d \in 1 .. Len(fs) : vs[d] \in Values /\ FrameOf(fs[d], vs[d])
  /\ \A d \in 0 .. Len(fs) - 1 : rest[d] \in Seq(Pieces(Values))
  /\ \A d \in 1 .. Len(fs) - 1 :
       /\ Waits(fs[d]) /\ vs[d + 1] = Child(vs[d], Len(fs[d].items) + 1)
       /\ rest[d] = Unread(vs[d], Consumed(fs[d]) + 1) \o rest[d - 1]
Remains(fs, vs, rest) == Unread(vs[Len(fs)], Consumed(fs[Len(fs)])) \o rest[Len(fs) - 1]
Within(Values, root, fs, left) ==
  \E vs, rest : Nested(Values, root, fs, vs, rest) /\ left = Remains(fs, vs, rest)

(* What a frame finds next, on what is left of its value and around it. *)
Finds(Values, f, v, left, outer) ==
  /\ v \in Values /\ FrameOf(f, v) /\ f.left \in Nat /\ f.kind = v[1]
  /\ outer \in Seq(Pieces(Values)) /\ left \in Seq(Pieces(Values))
  /\ f.left = 0 => left = outer /\ f.items = v[2]
  /\ f.left > 0 =>
       /\ left # << >> /\ Head(left) = left[1] /\ left[1] = Inside(v)[Consumed(f) + 1]
       /\ Tail(left) = Unread(v, Consumed(f) + 1) \o outer
       /\ Tail(left) \in Seq(Pieces(Values))

LEMMA NextWithin ==
  ASSUME NEW Values, Serializable(Values), NEW root, NEW fs, IsStack(fs), fs # << >>,
         NEW vs, NEW rest, Nested(Values, root, fs, vs, rest)
  PROVE  /\ Len(fs) \in Nat /\ Len(fs) >= 1
         /\ Finds(Values, fs[Len(fs)], vs[Len(fs)], Remains(fs, vs, rest), rest[Len(fs) - 1])
<1> DEFINE n == Len(fs)
           f == fs[n]
           v == vs[n]
           left == Remains(fs, vs, rest)
<1>1. n \in Nat /\ n >= 1 /\ n \in 1 .. n /\ n - 1 \in 0 .. n - 1
  BY StackMoves
<1>2. v \in Values /\ FrameOf(f, v) /\ rest[n - 1] \in Seq(Pieces(Values))
  BY <1>1 DEF Nested
<1>3. f.left \in Nat /\ f.kind = v[1]
  BY <1>2, NextUnread DEF FrameOf
<1>4. PICK a, b : a = Unread(v, Consumed(f)) /\ b = rest[n - 1]
  OBVIOUS
<1>5. left = a \o b /\ a \in Seq(Pieces(Values)) /\ b \in Seq(Pieces(Values))
  BY <1>2, <1>4, UnreadNext DEF Remains
<1>6. left \in Seq(Pieces(Values))
  BY <1>5, Joined
<1>7. f.left = 0 => left = b /\ f.items = v[2]
  <2>1. f.left = 0 => a = << >>
    BY <1>2, <1>4, UnreadNext
  <2>2. a = << >> => a \o b = b
    BY <1>5, Before
  <2>3. f.left = 0 => f.items = v[2]
    BY <1>2, NextUnread
  <2>4. QED
    BY <1>5, <2>1, <2>2, <2>3
<1>8. ASSUME f.left > 0
      PROVE  /\ left # << >> /\ Head(left) = left[1] /\ left[1] = Inside(v)[Consumed(f) + 1]
             /\ Tail(left) = Unread(v, Consumed(f) + 1) \o b
             /\ Tail(left) \in Seq(Pieces(Values))
  <2> HIDE DEF n, f, v, left
  <2>1. /\ a # << >> /\ Head(a) = Inside(v)[Consumed(f) + 1] /\ Tail(a) = Unread(v, Consumed(f) + 1)
        /\ Unread(v, Consumed(f) + 1) \in Seq(Pieces(Values))
    BY <1>2, <1>4, <1>8, UnreadNext
  <2>2. left # << >> /\ Head(left) = Head(a) /\ left[1] = Head(a) /\ Tail(left) = Tail(a) \o b
    BY <1>5, <2>1, Before
  <2>3. Tail(left) \in Seq(Pieces(Values))
    BY <1>5, <2>1, <2>2, Joined
  <2>4. QED
    BY <2>1, <2>2, <2>3
<1> HIDE DEF n, f, v, left
<1>9. Finds(Values, f, v, left, b)
  BY <1>2, <1>3, <1>4, <1>5, <1>6, <1>7, <1>8 DEF Finds
<1>10. QED
  BY <1>1, <1>4, <1>9 DEF n, f, v, left

(* A value is entered. *)
LEMMA EntersValue ==
  ASSUME NEW Values, Serializable(Values), NEW v \in Values, Container(v)
  PROVE  Within(Values, v, <<Frame(v[1], Len(v[2]))>>, Inside(v))
<1>1. PICK f, fs, vs, rest : /\ f = Frame(v[1], Len(v[2])) /\ fs = <<f>>
                             /\ vs = [d \in 1 .. 1 |-> v] /\ rest = [d \in 0 .. 0 |-> << >>]
  OBVIOUS
<1>2. Len(fs) = 1 /\ fs[1] = f /\ vs[1] = v /\ rest[0] = << >> /\ vs = [d \in 1 .. 1 |-> vs[d]]
  BY <1>1
<1>3. FrameOf(f, v) /\ Consumed(f) = 0
  BY <1>1, FrameBegins
<1>4. Nested(Values, v, fs, vs, rest)
  <2>1. \A d \in 1 .. 1 : d = 1
    OBVIOUS
  <2>2. \A d \in 0 .. 1 - 1 : d = 0
    OBVIOUS
  <2>3. \A d \in 1 .. 1 - 1 : FALSE
    OBVIOUS
  <2>4. << >> \in Seq(Pieces(Values))
    OBVIOUS
  <2>5. QED
    BY <1>2, <1>3, <2>1, <2>2, <2>3, <2>4 DEF Nested
<1>5. Inside(v) = Remains(fs, vs, rest)
  <2>1. PICK s : s = Inside(v)
    OBVIOUS
  <2>2. s \in Seq(Pieces(Values)) /\ 0 \in 0 .. Len(s)
    BY <2>1, InsideOf, LenProperties
  <2>3. SubSeq(s, 0 + 1, Len(s)) = s
    BY <2>2, RestOf
  <2>4. Unread(v, 0) = s /\ s \o << >> = s
    BY <2>1, <2>2, <2>3 DEF Unread
  <2>5. 1 - 1 = 0
    OBVIOUS
  <2>6. QED
    BY <1>2, <1>3, <2>1, <2>4, <2>5 DEF Remains
<1>6. QED
  BY <1>1, <1>4, <1>5 DEF Within

(* The innermost frame goes on, by one piece. *)
LEMMA Advances ==
  ASSUME NEW Values, Serializable(Values), NEW root, NEW fs, IsStack(fs), fs # << >>, NEW left,
         NEW vs, NEW rest, Nested(Values, root, fs, vs, rest), left = Remains(fs, vs, rest),
         NEW g, FrameOf(g, vs[Len(fs)]), Consumed(g) = Consumed(fs[Len(fs)]) + 1,
         fs[Len(fs)].left > 0
  PROVE  Within(Values, root, [fs EXCEPT ![Len(fs)] = g], Tail(left))
<1>1. PICK n, gs, v : n = Len(fs) /\ gs = [fs EXCEPT ![n] = g] /\ v = vs[n]
  OBVIOUS
<1>2. /\ n \in Nat /\ n >= 1 /\ Len(gs) = n /\ gs[n] = g
      /\ \A d \in 1 .. n - 1 : gs[d] = fs[d]
  BY <1>1, StackMoves
<1>3. Tail(left) = Unread(v, Consumed(g)) \o rest[n - 1]
  <2>1. Finds(Values, fs[n], v, left, rest[n - 1])
    BY <1>1, NextWithin
  <2>2. QED
    BY <1>1, <2>1 DEF Finds
<1>4. \A d \in 1 .. n : vs[d] \in Values /\ FrameOf(gs[d], vs[d])
  <2>1. ASSUME NEW d \in 1 .. n PROVE vs[d] \in Values /\ FrameOf(gs[d], vs[d])
    <3>1. vs[d] \in Values /\ FrameOf(fs[d], vs[d])
      BY <1>1 DEF Nested
    <3>2. d = n \/ d \in 1 .. n - 1
      BY <1>2
    <3>3. QED
      BY <1>1, <1>2, <3>1, <3>2
  <2>2. QED
    BY <2>1
<1>5. /\ vs = [d \in 1 .. n |-> vs[d]] /\ vs[1] = root /\ rest[0] = << >>
      /\ \A d \in 0 .. n - 1 : rest[d] \in Seq(Pieces(Values))
      /\ \A d \in 1 .. n - 1 :
           /\ Waits(fs[d]) /\ vs[d + 1] = Child(vs[d], Len(fs[d].items) + 1)
           /\ rest[d] = Unread(vs[d], Consumed(fs[d]) + 1) \o rest[d - 1]
  BY <1>1 DEF Nested
<1>6. Nested(Values, root, gs, vs, rest)
  BY <1>2, <1>4, <1>5 DEF Nested
<1>7. Tail(left) = Remains(gs, vs, rest)
  BY <1>1, <1>2, <1>3 DEF Remains
<1>8. QED
  BY <1>1, <1>6, <1>7 DEF Within

(* It waits for a value, finds it and takes it. *)
LEMMA TakesValue ==
  ASSUME NEW Values, Serializable(Values), NEW root, NEW fs, IsStack(fs), fs # << >>, NEW left,
         Within(Values, root, fs, left), Waits(fs[Len(fs)])
  PROVE  /\ left # << >> /\ left[1] \in Values /\ Head(left) = left[1]
         /\ Within(Values, root, [fs EXCEPT ![Len(fs)] = Taking(fs[Len(fs)], left[1])], Tail(left))
<1>1. PICK vs, rest : Nested(Values, root, fs, vs, rest) /\ left = Remains(fs, vs, rest)
  BY DEF Within
<1>2. PICK n, f, v : n = Len(fs) /\ f = fs[n] /\ v = vs[n]
  OBVIOUS
<1>3. f.left > 0 /\ Waits(f)
  BY <1>2 DEF Waits
<1>4. /\ v \in Values /\ FrameOf(f, v)
      /\ left # << >> /\ Head(left) = left[1] /\ left[1] = Inside(v)[Consumed(f) + 1]
  <2>1. Finds(Values, f, v, left, rest[n - 1])
    BY <1>1, <1>2, NextWithin
  <2>2. QED
    BY <1>3, <2>1 DEF Finds
<1>5. left[1] = Child(v, Len(f.items) + 1) /\ left[1] \in Values
  BY <1>3, <1>4, NextUnread
<1>6. PICK g : g = Taking(f, left[1])
  OBVIOUS
<1>7. FrameOf(g, v) /\ Consumed(g) = Consumed(f) + 1
  BY <1>3, <1>4, <1>5, <1>6, ValueTaken
<1>8. Within(Values, root, [fs EXCEPT ![Len(fs)] = g], Tail(left))
  BY <1>1, <1>2, <1>3, <1>7, Advances
<1>9. QED
  BY <1>2, <1>4, <1>5, <1>6, <1>8

(* A context finds a key and takes it. *)
LEMMA TakesKey ==
  ASSUME NEW Values, Serializable(Values), NEW root, NEW fs, IsStack(fs), fs # << >>, NEW left,
         Within(Values, root, fs, left), NEW f, f = fs[Len(fs)],
         f.kind = "context", f.key = << >>, f.left > 0
  PROVE  /\ left # << >> /\ Head(left) = left[1]
         /\ \E key \in Text :
              /\ left[1] = KeyPiece(key)
              /\ Within(Values, root, [fs EXCEPT ![Len(fs)] = [f EXCEPT !.key = <<key>>]], Tail(left))
<1>1. PICK vs, rest : Nested(Values, root, fs, vs, rest) /\ left = Remains(fs, vs, rest)
  BY DEF Within
<1>2. PICK n, v : n = Len(fs) /\ v = vs[n]
  OBVIOUS
<1>4. /\ v \in Values /\ FrameOf(f, v) /\ v[1] = "context"
      /\ left # << >> /\ Head(left) = left[1] /\ left[1] = Inside(v)[Consumed(f) + 1]
  <2>1. Finds(Values, f, v, left, rest[n - 1])
    BY <1>1, <1>2, NextWithin
  <2>2. QED
    BY <2>1 DEF Finds
<1>5. PICK key : key = v[2][Len(f.items) + 1][1]
  OBVIOUS
<1>6. left[1] = KeyPiece(key) /\ key \in Text
  BY <1>4, <1>5, NextUnread
<1>7. PICK g : g = [f EXCEPT !.key = <<key>>]
  OBVIOUS
<1>8. FrameOf(g, v) /\ Consumed(g) = Consumed(f) + 1
  BY <1>4, <1>5, <1>7, KeyTaken
<1>9. Within(Values, root, [fs EXCEPT ![Len(fs)] = g], Tail(left))
  BY <1>1, <1>2, <1>8, Advances
<1>10. QED
  BY <1>4, <1>6, <1>7, <1>9

(* It waits for a value and finds a block or a context: a new frame reads  *)
(* what is inside of it. *)
LEMMA Deeper ==
  ASSUME NEW Values, Serializable(Values), NEW root, NEW fs, IsStack(fs), fs # << >>, NEW left,
         Within(Values, root, fs, left), Waits(fs[Len(fs)]), Container(left[1])
  PROVE  /\ left # << >> /\ left[1] \in Values /\ Head(left) = left[1]
         /\ Within(Values, root, Append(fs, Frame(left[1][1], Len(left[1][2]))),
                   Inside(left[1]) \o Tail(left))
<1>1. PICK vs, rest : Nested(Values, root, fs, vs, rest) /\ left = Remains(fs, vs, rest)
  BY DEF Within
<1>2. PICK n, f, v : n = Len(fs) /\ f = fs[n] /\ v = vs[n]
  OBVIOUS
<1>3. f.left > 0 /\ Waits(f)
  BY <1>2 DEF Waits
<1>4. /\ n \in Nat /\ n >= 1 /\ v \in Values /\ FrameOf(f, v)
      /\ left # << >> /\ Head(left) = left[1] /\ left[1] = Inside(v)[Consumed(f) + 1]
      /\ Tail(left) = Unread(v, Consumed(f) + 1) \o rest[n - 1]
      /\ Tail(left) \in Seq(Pieces(Values))
  <2>1. n \in Nat /\ n >= 1 /\ Finds(Values, f, v, left, rest[n - 1])
    BY <1>1, <1>2, NextWithin
  <2>2. QED
    BY <1>3, <2>1 DEF Finds
<1>5. PICK w, g, gs : w = left[1] /\ g = Frame(w[1], Len(w[2])) /\ gs = Append(fs, g)
  OBVIOUS
<1>6. w = Child(v, Len(f.items) + 1) /\ w \in Values
  BY <1>3, <1>4, <1>5, NextUnread
<1>7. FrameOf(g, w) /\ Consumed(g) = 0
  BY <1>5, <1>6, FrameBegins
<1>8. PICK k : k = n + 1
  OBVIOUS
<1>9. k - 1 = n /\ k \in Nat /\ k >= 1 /\ Len(gs) = k /\ gs[k] = g /\ \A d \in 1 .. n : gs[d] = fs[d]
  BY <1>2, <1>4, <1>5, <1>8, StackMoves
<1>10. PICK ws, more : /\ ws = [d \in 1 .. k |-> IF d = k THEN w ELSE vs[d]]
                       /\ more = [d \in 0 .. n |-> IF d = n THEN Tail(left) ELSE rest[d]]
  OBVIOUS
<1>11. /\ ws[k] = w /\ more[n] = Tail(left)
       /\ \A d \in 1 .. n : ws[d] = vs[d]
       /\ \A d \in 0 .. n - 1 : more[d] = rest[d]
  BY <1>4, <1>8, <1>10
<1>12. /\ vs[1] = root /\ rest[0] = << >>
       /\ \A d \in 1 .. n : vs[d] \in Values /\ FrameOf(fs[d], vs[d])
       /\ \A d \in 0 .. n - 1 : rest[d] \in Seq(Pieces(Values))
       /\ \A d \in 1 .. n - 1 :
            /\ Waits(fs[d]) /\ vs[d + 1] = Child(vs[d], Len(fs[d].items) + 1)
            /\ rest[d] = Unread(vs[d], Consumed(fs[d]) + 1) \o rest[d - 1]
  BY <1>1, <1>2 DEF Nested
<1>13. ws = [d \in 1 .. k |-> ws[d]] /\ ws[1] = root /\ more[0] = << >>
  <2>1. 1 \in 1 .. n /\ 0 \in 0 .. n - 1
    BY <1>4
  <2>2. ws = [d \in 1 .. k |-> ws[d]]
    BY <1>10
  <2>3. QED
    BY <1>11, <1>12, <2>1, <2>2
<1>14. ASSUME NEW d \in 1 .. k PROVE ws[d] \in Values /\ FrameOf(gs[d], ws[d])
  <2>1. d = k \/ d \in 1 .. n
    BY <1>4, <1>8
  <2>2. QED
    BY <1>6, <1>7, <1>9, <1>11, <1>12, <2>1
<1>15. ASSUME NEW d \in 0 .. n PROVE more[d] \in Seq(Pieces(Values))
  <2>1. d = n \/ d \in 0 .. n - 1
    BY <1>4
  <2>2. QED
    BY <1>4, <1>11, <1>12, <2>1
<1>16. ASSUME NEW d \in 1 .. n
       PROVE  /\ Waits(gs[d]) /\ ws[d + 1] = Child(ws[d], Len(gs[d].items) + 1)
              /\ more[d] = Unread(ws[d], Consumed(gs[d]) + 1) \o more[d - 1]
  <2>1. CASE d = n
    <3>1. gs[d] = f /\ ws[d] = v /\ ws[d + 1] = w /\ more[d] = Tail(left) /\ more[d - 1] = rest[n - 1]
      <4>1. n \in 1 .. n /\ n - 1 \in 0 .. n - 1
        BY <1>4
      <4>2. QED
        BY <1>2, <1>8, <1>9, <1>11, <2>1, <4>1
    <3>2. QED
      BY <1>3, <1>4, <1>6, <2>1, <3>1
  <2>2. CASE d # n
    <3>1. d \in 1 .. n - 1 /\ d + 1 \in 1 .. n /\ d \in 0 .. n - 1 /\ d - 1 \in 0 .. n - 1
      BY <1>4, <2>2
    <3>2. gs[d] = fs[d] /\ ws[d] = vs[d] /\ ws[d + 1] = vs[d + 1] /\ more[d] = rest[d] /\ more[d - 1] = rest[d - 1]
      BY <1>9, <1>11, <3>1
    <3>3. /\ Waits(fs[d]) /\ vs[d + 1] = Child(vs[d], Len(fs[d].items) + 1)
          /\ rest[d] = Unread(vs[d], Consumed(fs[d]) + 1) \o rest[d - 1]
      BY <1>12, <3>1
    <3>4. QED
      BY <3>2, <3>3
  <2>3. QED
    BY <2>1, <2>2
<1>17. Nested(Values, root, gs, ws, more)
  BY <1>13, <1>14, <1>15, <1>16, <1>9 DEF Nested
<1>18. Inside(w) \o Tail(left) = Remains(gs, ws, more)
  <2>1. PICK s : s = Inside(w)
    OBVIOUS
  <2>2. s \in Seq(Pieces(Values)) /\ 0 \in 0 .. Len(s)
    BY <1>6, <2>1, InsideOf, LenProperties
  <2>3. Unread(w, 0) = s
    BY <2>1, <2>2, RestOf DEF Unread
  <2>4. QED
    BY <1>7, <1>11, <1>9, <2>1, <2>3 DEF Remains
<1>19. Within(Values, root, gs, Inside(w) \o Tail(left))
  BY <1>17, <1>18 DEF Within
<1>20. QED
  BY <1>4, <1>5, <1>6, <1>19

(* A block or a context that was read whole is the value it is the reading *)
(* of: the root, or what the frame around it waits for. *)
IsRead(Values, root, fs, left, value) ==
  /\ value \in Values
  /\ Len(fs) = 1 => value = root /\ left = << >>
  /\ Len(fs) > 1 =>
       /\ Waits(Front(fs)[Len(fs) - 1])
       /\ \E more : Within(Values, root, Front(fs), more) /\ more[1] = value /\ Tail(more) = left

LEMMA ReadWhole ==
  ASSUME NEW Values, Serializable(Values), NEW root, NEW fs, IsStack(fs), fs # << >>, NEW left,
         Within(Values, root, fs, left), fs[Len(fs)].left = 0
  PROVE  IsRead(Values, root, fs, left, <<fs[Len(fs)].kind, fs[Len(fs)].items>>)
<1> DEFINE f == fs[Len(fs)]
<1> HIDE DEF f
<1>1. PICK vs, rest : Nested(Values, root, fs, vs, rest) /\ left = Remains(fs, vs, rest)
  BY DEF Within
<1>2. PICK n, v : n = Len(fs) /\ v = vs[n] /\ f = fs[n] /\ f.left = 0
  BY DEF f
<1>3. /\ n \in Nat /\ n >= 1 /\ v \in Values /\ FrameOf(f, v) /\ f.kind = v[1] /\ f.items = v[2]
      /\ left = rest[n - 1]
  <2>1. n \in Nat /\ n >= 1 /\ Finds(Values, f, v, left, rest[n - 1])
    BY <1>1, <1>2, NextWithin
  <2>2. QED
    BY <1>2, <2>1 DEF Finds
<1>4. <<f.kind, f.items>> = v
  <2>1. v = <<v[1], v[2]>>
    <3>1. v[1] \in {"block", "context"}
      BY <1>3 DEF FrameOf, Container
    <3>2. QED
      BY <1>3, <3>1, ValueKinds DEF Texts
  <2>2. QED
    BY <1>3, <2>1
<1>5. ASSUME n = 1 PROVE v = root /\ left = << >>
  <2>1. n - 1 = 0
    BY <1>5
  <2>2. vs[1] = root /\ rest[0] = << >>
    BY <1>1 DEF Nested
  <2>3. QED
    BY <1>2, <1>3, <1>5, <2>1, <2>2
<1>6. ASSUME n > 1
      PROVE  /\ Waits(Front(fs)[n - 1])
             /\ \E more : Within(Values, root, Front(fs), more) /\ more[1] = v /\ Tail(more) = left
  <2>1. PICK gs, m : gs = Front(fs) /\ m = n - 1
    OBVIOUS
  <2>2. /\ IsStack(gs) /\ Len(gs) = m /\ m \in Nat /\ m >= 1 /\ gs # << >>
        /\ \A d \in 1 .. m : gs[d] = fs[d]
    <3>1. IsStack(gs) /\ Len(gs) = m /\ \A d \in 1 .. m : gs[d] = fs[d]
      BY <1>2, <2>1, StackMoves
    <3>2. m \in Nat /\ m >= 1
      BY <1>3, <1>6, <2>1
    <3>3. gs # << >>
      BY <3>1, <3>2, StackMoves
    <3>4. QED
      BY <3>1, <3>2, <3>3
  <2>3. /\ vs[1] = root /\ rest[0] = << >>
        /\ \A d \in 1 .. n : vs[d] \in Values /\ FrameOf(fs[d], vs[d])
        /\ \A d \in 0 .. n - 1 : rest[d] \in Seq(Pieces(Values))
        /\ \A d \in 1 .. n - 1 :
             /\ Waits(fs[d]) /\ vs[d + 1] = Child(vs[d], Len(fs[d].items) + 1)
             /\ rest[d] = Unread(vs[d], Consumed(fs[d]) + 1) \o rest[d - 1]
    BY <1>1, <1>2 DEF Nested
  <2>4. PICK ws, more : ws = [d \in 1 .. m |-> vs[d]] /\ more = Remains(gs, ws, rest)
    OBVIOUS
  <2>5. \A d \in 1 .. m : ws[d] = vs[d] /\ d \in 1 .. n
    BY <1>3, <2>1, <2>4
  <2>6. Nested(Values, root, gs, ws, rest)
    <3>1. ws = [d \in 1 .. m |-> ws[d]]
      BY <2>4
    <3>2. ws[1] = root
      <4>1. 1 \in 1 .. m
        BY <2>2
      <4>2. QED
        BY <2>3, <2>5, <4>1
    <3>3. \A d \in 1 .. m : ws[d] \in Values /\ FrameOf(gs[d], ws[d])
      BY <2>2, <2>3, <2>5
    <3>4. \A d \in 0 .. m - 1 : rest[d] \in Seq(Pieces(Values))
      <4>1. \A d \in 0 .. m - 1 : d \in 0 .. n - 1
        BY <1>3, <2>1, <2>2
      <4>2. QED
        BY <2>3, <4>1
    <3>5. \A d \in 1 .. m - 1 :
            /\ Waits(gs[d]) /\ ws[d + 1] = Child(ws[d], Len(gs[d].items) + 1)
            /\ rest[d] = Unread(ws[d], Consumed(gs[d]) + 1) \o rest[d - 1]
      <4>1. ASSUME NEW d \in 1 .. m - 1
            PROVE  /\ Waits(gs[d]) /\ ws[d + 1] = Child(ws[d], Len(gs[d].items) + 1)
                   /\ rest[d] = Unread(ws[d], Consumed(gs[d]) + 1) \o rest[d - 1]
        <5>1. d \in 1 .. m /\ d + 1 \in 1 .. m /\ d \in 1 .. n - 1
          BY <1>3, <2>1, <2>2
        <5>2. gs[d] = fs[d] /\ ws[d] = vs[d] /\ ws[d + 1] = vs[d + 1]
          BY <2>2, <2>5, <5>1
        <5>3. /\ Waits(fs[d]) /\ vs[d + 1] = Child(vs[d], Len(fs[d].items) + 1)
              /\ rest[d] = Unread(vs[d], Consumed(fs[d]) + 1) \o rest[d - 1]
          BY <2>3, <5>1
        <5>4. QED
          BY <5>2, <5>3
      <4>2. QED
        BY <4>1
    <3>6. QED
      BY <2>2, <2>3, <3>1, <3>2, <3>3, <3>4, <3>5 DEF Nested
  <2>7. PICK g, w : g = gs[m] /\ w = ws[m]
    OBVIOUS
  <2>8. /\ Waits(g) /\ v = Child(w, Len(g.items) + 1)
        /\ rest[m] = Unread(w, Consumed(g) + 1) \o rest[m - 1]
    <3>1. m \in 1 .. n - 1 /\ m \in 1 .. m /\ m + 1 = n
      BY <1>3, <2>1, <2>2
    <3>2. /\ Waits(fs[m]) /\ vs[m + 1] = Child(vs[m], Len(fs[m].items) + 1)
          /\ rest[m] = Unread(vs[m], Consumed(fs[m]) + 1) \o rest[m - 1]
      BY <2>3, <3>1
    <3>3. fs[m] = g /\ vs[m] = w
      BY <2>2, <2>5, <2>7, <3>1
    <3>4. QED
      BY <1>2, <3>1, <3>2, <3>3
  <2>9. g.left > 0
    BY <2>8 DEF Waits
  <2>10. /\ w \in Values /\ FrameOf(g, w) /\ more[1] = Inside(w)[Consumed(g) + 1]
         /\ Tail(more) = Unread(w, Consumed(g) + 1) \o rest[m - 1]
    <3>1. Finds(Values, g, w, more, rest[m - 1])
      BY <2>2, <2>4, <2>6, <2>7, NextWithin
    <3>2. QED
      BY <2>9, <3>1 DEF Finds
  <2>11. more[1] = v
    BY <2>8, <2>10, NextUnread
  <2>12. Tail(more) = left
    BY <1>3, <2>1, <2>8, <2>10
  <2>13. Within(Values, root, gs, more)
    BY <2>4, <2>6 DEF Within
  <2>14. QED
    BY <2>1, <2>7, <2>8, <2>11, <2>12, <2>13
<1>7. IsRead(Values, root, fs, left, v)
  BY <1>2, <1>3, <1>5, <1>6 DEF IsRead
<1>8. QED
  BY <1>4, <1>7 DEF f

-----------------------------------------------------------------------------
(* What the serializer did, visit by visit.  A mark says where a visit     *)
(* ended on the stream, what it left to visit, and how many values were    *)
(* begun; the next visit is of the next piece, or of the next value saved. *)
Pending(saved, m) == IF m.work = << >> THEN <<saved[m.begun + 1]>> ELSE m.work
After(saved, m) ==
  [end   |-> m.end + Len(PieceBytes(Pending(saved, m)[1])),
   work  |-> Inside(Pending(saved, m)[1]) \o Tail(Pending(saved, m)),
   begun |-> IF m.work = << >> THEN m.begun + 1 ELSE m.begun]

IsMark(Values, stream, saved, m) ==
  /\ m.end \in Nat /\ m.end =< Len(stream)
  /\ m.begun \in Nat /\ m.begun =< Len(saved)
  /\ m.work \in Seq(Pieces(Values))
Visits(saved, m)       == m.work = << >> => m.begun < Len(saved)
Wrote(stream, saved, m) ==
  /\ Visits(saved, m) /\ Pending(saved, m)[1][1] # "path"
  /\ Lies(stream, m.end, PieceBytes(Pending(saved, m)[1]))

Visited(Values, stream, saved, h, n) ==
  /\ n \in Nat /\ h[0] = [end |-> 0, work |-> << >>, begun |-> 0]
  /\ \A k \in 0 .. n : IsMark(Values, stream, saved, h[k])
  /\ \A k \in 0 .. n - 1 : Wrote(stream, saved, h[k]) /\ h[k + 1] = After(saved, h[k])

(* The last mark and what the serializer has still to visit; the stream    *)
(* ends there, or where the writer failed. *)
Frontier(stream, saved, togo, broken, m) ==
  /\ IF togo = << >> THEN m.work = << >> /\ m.begun = Len(saved)
     ELSE /\ Visits(saved, m) /\ togo = Pending(saved, m)
          /\ m.work = << >> => m.begun + 1 = Len(saved)
          /\ m.work # << >> => m.begun = Len(saved)
  /\ \/ Len(stream) = m.end
     \/ broken /\ togo # << >> /\ togo[1][1] # "path" /\ CutShort(stream, m.end, PieceBytes(togo[1]))

(* The piece after a mark. *)
LEMMA PieceAfter ==
  ASSUME NEW Values, Serializable(Values), NEW stream, NEW saved \in Seq(Values),
         NEW m, IsMark(Values, stream, saved, m), Visits(saved, m)
  PROVE  /\ Pending(saved, m) \in Seq(Pieces(Values)) /\ Pending(saved, m) # << >>
         /\ Pending(saved, m)[1] \in Pieces(Values)
         /\ Tail(Pending(saved, m)) \in Seq(Pieces(Values))
         /\ m.work # << >> => Pending(saved, m) = m.work
         /\ m.work = << >> => /\ m.begun + 1 \in 1 .. Len(saved)
                              /\ Pending(saved, m)[1] = saved[m.begun + 1]
                              /\ saved[m.begun + 1] \in Values
                              /\ Tail(Pending(saved, m)) = << >>
         /\ Inside(Pending(saved, m)[1]) \in Seq(Pieces(Values))
         /\ After(saved, m).work \in Seq(Pieces(Values))
         /\ Pending(saved, m)[1][1] # "path" =>
              /\ PieceBytes(Pending(saved, m)[1]) \in Seq(Byte)
              /\ Len(PieceBytes(Pending(saved, m)[1])) \in Nat
              /\ Len(PieceBytes(Pending(saved, m)[1])) > 0
<1>1. PICK p : p = Pending(saved, m)
  OBVIOUS
<1>0. p[1] \in Pieces(Values) /\ p[1][1] # "path" =>
        PieceBytes(p[1]) \in Seq(Byte) /\ Len(PieceBytes(p[1])) \in Nat /\ Len(PieceBytes(p[1])) > 0
  BY PieceCode
<1>2. CASE m.work # << >>
  <2>1. p = m.work /\ p \in Seq(Pieces(Values)) /\ p # << >>
    BY <1>1, <1>2 DEF Pending, IsMark
  <2>2. p[1] \in Pieces(Values) /\ Tail(p) \in Seq(Pieces(Values))
    <3>1. 1 \in 1 .. Len(p)
      BY <2>1, EmptySeq, LenProperties
    <3>2. QED
      BY <2>1, <3>1, ElementOfSeq, HeadTailProperties
  <2>3. QED
    <3>1. Inside(p[1]) \in Seq(Pieces(Values))
      <4>1. CASE p[1] \in Values
        BY <4>1, InsideOf
      <4>2. CASE p[1] \notin Values
        <5>1. PICK text \in Text : p[1] = KeyPiece(text)
          BY <2>2, <4>2 DEF Pieces
        <5>2. Inside(p[1]) = << >>
          BY <5>1 DEF Inside, KeyPiece
        <5>3. QED
          BY <5>2
      <4>3. QED
        BY <4>1, <4>2
    <3>2. Inside(p[1]) \o Tail(p) \in Seq(Pieces(Values))
      BY <2>2, <3>1, Joined
    <3>3. After(saved, m).work = Inside(p[1]) \o Tail(p)
      BY <1>1 DEF After
    <3>4. QED
      BY <1>0, <1>1, <1>2, <2>1, <2>2, <3>1, <3>2, <3>3
<1>3. CASE m.work = << >>
  <2>1. PICK v : v = saved[m.begun + 1]
    OBVIOUS
  <2>2. m.begun + 1 \in 1 .. Len(saved) /\ v \in Values
    <3>1. Len(saved) \in Nat /\ m.begun \in Nat /\ m.begun < Len(saved)
      BY <1>3, LenProperties DEF IsMark, Visits
    <3>2. m.begun + 1 \in 1 .. Len(saved)
      BY <3>1
    <3>3. QED
      BY <2>1, <3>2, ElementOfSeq
  <2>3. p = <<v>> /\ p[1] = v /\ Tail(p) = << >>
    BY <1>1, <1>3, <2>1 DEF Pending
  <2>4. v \in Pieces(Values) /\ p \in Seq(Pieces(Values)) /\ p # << >> /\ << >> \in Seq(Pieces(Values))
    BY <2>2, <2>3 DEF Pieces
  <2>5. Inside(v) \in Seq(Pieces(Values))
    BY <2>2, InsideOf
  <2>6. After(saved, m).work \in Seq(Pieces(Values))
    <3>1. Inside(v) \o << >> \in Seq(Pieces(Values))
      BY <2>4, <2>5, Joined
    <3>2. After(saved, m).work = Inside(v) \o << >>
      BY <1>1, <2>3 DEF After
    <3>3. QED
      BY <3>1, <3>2
  <2>7. QED
    BY <1>0, <1>1, <1>3, <2>1, <2>2, <2>3, <2>4, <2>5, <2>6
<1>4. QED
  BY <1>2, <1>3

(* What lies on a stream lies there when it is longer, and so with the     *)
(* values saved. *)
LEMMA StreamGrows ==
  ASSUME NEW Values, Serializable(Values), NEW stream \in Seq(Byte), NEW more \in Seq(Byte),
         NEW saved \in Seq(Values), NEW h, NEW n, Visited(Values, stream, saved, h, n)
  PROVE  Visited(Values, stream \o more, saved, h, n)
<1>1. PICK longer : longer = stream \o more
  OBVIOUS
<1>2. /\ Len(stream) \in Nat /\ Len(longer) \in Nat /\ Len(stream) =< Len(longer)
      /\ \A i \in 1 .. Len(stream) : longer[i] = stream[i]
  <2>1. /\ longer \in Seq(Byte) /\ Len(longer) = Len(stream) + Len(more)
        /\ Len(stream) \in Nat /\ Len(more) \in Nat
        /\ \A i \in 1 .. Len(stream) : longer[i] = stream[i]
    BY <1>1, Joined
  <2>2. QED
    BY <2>1
<1>3. ASSUME NEW m, IsMark(Values, stream, saved, m)
      PROVE  /\ IsMark(Values, longer, saved, m)
             /\ Wrote(stream, saved, m) => Wrote(longer, saved, m)
  <2>1. m.end \in Nat /\ m.end =< Len(stream) /\ m.end =< Len(longer)
    BY <1>2, <1>3 DEF IsMark
  <2>2. IsMark(Values, longer, saved, m)
    BY <1>3, <2>1 DEF IsMark
  <2>3. ASSUME NEW code, Len(code) \in Nat, Lies(stream, m.end, code)
        PROVE  Lies(longer, m.end, code)
    <3>1. PICK l, e : l = Len(code) /\ e = m.end
      OBVIOUS
    <3>2. l \in Nat /\ e \in Nat /\ e + l =< Len(stream) /\ \A i \in 1 .. l : stream[e + i] = code[i]
      BY <2>1, <2>3, <3>1 DEF Lies
    <3>3. e + l =< Len(longer) /\ \A i \in 1 .. l : e + i \in 1 .. Len(stream)
      BY <1>2, <3>2
    <3>4. \A i \in 1 .. l : longer[e + i] = code[i]
      BY <1>2, <3>2, <3>3
    <3>5. QED
      BY <3>1, <3>3, <3>4 DEF Lies
  <2>4. Wrote(stream, saved, m) => Len(PieceBytes(Pending(saved, m)[1])) \in Nat
    BY <1>3, PieceAfter DEF Wrote
  <2>5. QED
    BY <2>2, <2>3, <2>4 DEF Wrote
<1>4. QED
  BY <1>1, <1>3 DEF Visited

LEMMA SavedGrows ==
  ASSUME NEW Values, NEW stream, NEW saved \in Seq(Values), NEW value \in Values, NEW h, NEW n,
         Visited(Values, stream, saved, h, n)
  PROVE  /\ Visited(Values, stream, Append(saved, value), h, n)
         /\ Append(saved, value) \in Seq(Values) /\ Len(saved) \in Nat
         /\ Len(Append(saved, value)) = Len(saved) + 1
         /\ Append(saved, value)[Len(saved) + 1] = value
         /\ \A i \in 1 .. Len(saved) : Append(saved, value)[i] = saved[i]
<1>1. PICK longer : longer = Append(saved, value)
  OBVIOUS
<1>2. /\ longer \in Seq(Values) /\ Len(saved) \in Nat /\ Len(longer) = Len(saved) + 1
      /\ longer[Len(saved) + 1] = value
      /\ \A i \in 1 .. Len(saved) : longer[i] = saved[i]
  BY <1>1, AppendProperties, LenProperties
<1>3. ASSUME NEW m, IsMark(Values, stream, saved, m)
      PROVE  /\ IsMark(Values, stream, longer, m)
             /\ Wrote(stream, saved, m) => Wrote(stream, longer, m) /\ After(longer, m) = After(saved, m)
  <2>1. m.begun \in Nat /\ m.begun =< Len(saved)
    BY <1>3 DEF IsMark
  <2>2. m.begun =< Len(longer) /\ (m.begun < Len(saved) => m.begun < Len(longer) /\ m.begun + 1 \in 1 .. Len(saved))
    BY <1>2, <2>1
  <2>3. Visits(saved, m) => Visits(longer, m) /\ Pending(longer, m) = Pending(saved, m)
    BY <1>2, <2>2 DEF Visits, Pending
  <2>4. IsMark(Values, stream, longer, m)
    BY <1>3, <2>2 DEF IsMark
  <2>5. QED
    BY <2>3, <2>4 DEF Wrote, After
<1>4. Visited(Values, stream, longer, h, n)
  BY <1>3 DEF Visited
<1>5. QED
  BY <1>1, <1>2, <1>4

(* A visit more. *)
LEMMA VisitedOn ==
  ASSUME NEW Values, Serializable(Values), NEW stream \in Seq(Byte), NEW saved \in Seq(Values),
         NEW h, NEW n, Visited(Values, stream, saved, h, n), Wrote(stream, saved, h[n])
  PROVE  \E g : /\ Visited(Values, stream, saved, g, n + 1)
                /\ g[n + 1] = After(saved, h[n])
                /\ \A k \in 0 .. n : g[k] = h[k]
<1>1. PICK m, next, j : m = h[n] /\ next = After(saved, m) /\ j = n + 1
  OBVIOUS
<1>2. /\ n \in Nat /\ h[0] = [end |-> 0, work |-> << >>, begun |-> 0]
      /\ \A k \in 0 .. n : IsMark(Values, stream, saved, h[k])
      /\ \A k \in 0 .. n - 1 : Wrote(stream, saved, h[k]) /\ h[k + 1] = After(saved, h[k])
  BY DEF Visited
<1>3. IsMark(Values, stream, saved, m) /\ Wrote(stream, saved, m)
  BY <1>1, <1>2
<1>4. IsMark(Values, stream, saved, next)
  <2>1. PICK code : code = PieceBytes(Pending(saved, m)[1])
    OBVIOUS
  <2>2. Visits(saved, m) /\ Pending(saved, m)[1][1] # "path" /\ Lies(stream, m.end, code)
    BY <1>3, <2>1 DEF Wrote
  <2>3. Len(code) \in Nat /\ next.work \in Seq(Pieces(Values))
    BY <1>1, <1>3, <2>1, <2>2, PieceAfter
  <2>4. next.end \in Nat /\ next.end =< Len(stream)
    <3>1. next.end = m.end + Len(code) /\ m.end + Len(code) =< Len(stream) /\ m.end \in Nat
      BY <1>1, <1>3, <2>1, <2>2 DEF After, IsMark, Lies
    <3>2. QED
      BY <2>3, <3>1
  <2>5. next.begun \in Nat /\ next.begun =< Len(saved)
    <3>1. next.begun = IF m.work = << >> THEN m.begun + 1 ELSE m.begun
      BY <1>1 DEF After
    <3>2. m.begun \in Nat /\ m.begun =< Len(saved) /\ Len(saved) \in Nat
      BY <1>3, LenProperties DEF IsMark
    <3>3. m.work = << >> => m.begun < Len(saved)
      BY <2>2 DEF Visits
    <3>4. QED
      BY <3>1, <3>2, <3>3
  <2>6. QED
    BY <2>3, <2>4, <2>5 DEF IsMark
<1>5. PICK g : g = [k \in 0 .. j |-> IF k = j THEN next ELSE h[k]]
  OBVIOUS
<1>6. /\ j \in Nat /\ j - 1 = n /\ g[j] = next /\ \A k \in 0 .. n : g[k] = h[k]
  BY <1>1, <1>2, <1>5
<1>7. g[0] = [end |-> 0, work |-> << >>, begun |-> 0]
  BY <1>2, <1>6
<1>8. ASSUME NEW k \in 0 .. j PROVE IsMark(Values, stream, saved, g[k])
  <2>1. k = j \/ k \in 0 .. n
    BY <1>1, <1>2
  <2>2. QED
    BY <1>2, <1>4, <1>6, <2>1
<1>9. ASSUME NEW k \in 0 .. n PROVE Wrote(stream, saved, g[k]) /\ g[k + 1] = After(saved, g[k])
  <2>1. CASE k = n
    BY <1>1, <1>3, <1>6, <2>1
  <2>2. CASE k # n
    <3>1. k \in 0 .. n - 1 /\ k + 1 \in 0 .. n
      BY <1>2, <2>2
    <3>2. QED
      BY <1>2, <1>6, <3>1
  <2>3. QED
    BY <2>1, <2>2
<1>10. Visited(Values, stream, saved, g, j)
  BY <1>6, <1>7, <1>8, <1>9 DEF Visited
<1>11. QED
  BY <1>1, <1>6, <1>10

-----------------------------------------------------------------------------
(* The deserializer at a mark: between two values, or inside the value     *)
(* begun last, with what the serializer had yet to visit of it before it.  *)
Reader(Values, saved, fs, at, got, m) ==
  /\ at = m.end
  /\ IF fs = << >> THEN m.work = << >> /\ Len(got) = m.begun
     ELSE Len(got) + 1 = m.begun /\ Within(Values, saved[Len(got) + 1], fs, m.work)

(* After the last mark the stream ends, or the next piece is cut short.    *)
Ends(stream, saved, m) ==
  IF ~Visits(saved, m) THEN m.end = Len(stream)
  ELSE IF Pending(saved, m)[1][1] = "path" THEN m.end = Len(stream)
  ELSE CutShort(stream, m.end, PieceBytes(Pending(saved, m)[1]))

LEMMA FrontierEnds ==
  ASSUME NEW Values, Serializable(Values), NEW stream \in Seq(Byte), NEW saved \in Seq(Values),
         NEW togo, NEW broken, NEW m, IsMark(Values, stream, saved, m),
         Frontier(stream, saved, togo, broken, m)
  PROVE  Ends(stream, saved, m)
<1>1. m.end \in Nat /\ Len(stream) \in Nat
  BY LenProperties DEF IsMark
<1>2. CASE ~Visits(saved, m)
  <2>1. m.begun < Len(saved) => FALSE
    BY <1>2 DEF Visits
  <2>2. togo = << >>
    BY <1>2 DEF Frontier
  <2>3. QED
    BY <1>2, <2>2 DEF Frontier, Ends
<1>3. CASE Visits(saved, m)
  <2>1. togo # << >> /\ togo = Pending(saved, m)
    <3>1. CASE togo = << >>
      <4>1. m.work = << >> /\ m.begun = Len(saved) /\ m.begun \in Nat /\ m.begun < Len(saved)
        BY <1>3, <3>1 DEF Frontier, Visits, IsMark
      <4>2. QED
        BY <4>1
    <3>2. QED
      BY <3>1 DEF Frontier
  <2>2. PICK p, code : p = togo[1] /\ code = PieceBytes(p)
    OBVIOUS
  <2>3. \/ Len(stream) = m.end
        \/ p[1] # "path" /\ CutShort(stream, m.end, code)
    BY <2>2 DEF Frontier
  <2>4. p[1] # "path" => Len(code) \in Nat /\ Len(code) > 0
    BY <1>3, <2>1, <2>2, PieceAfter
  <2>5. ASSUME p[1] # "path" PROVE CutShort(stream, m.end, code)
    <3>1. CASE Len(stream) = m.end
      <4>1. /\ m.end =< Len(stream) /\ Len(stream) < m.end + Len(code) /\ Len(stream) - m.end = 0
        BY <1>1, <2>4, <2>5, <3>1
      <4>2. QED
        BY <4>1 DEF CutShort
    <3>2. QED
      BY <2>3, <3>1
  <2>6. p[1] = "path" => m.end = Len(stream)
    BY <2>3
  <2>7. QED
    BY <1>3, <2>1, <2>2, <2>5, <2>6 DEF Ends
<1>4. QED
  BY <1>2, <1>3

(* The error a read stops for is an error. *)
LEMMA ErrorsStop ==
  ASSUME bytes \in Seq(Byte), NEW from \in Nat
  PROVE  read_string(from).error # "no" /\ read_head(from).error # "no"
<1>1. ASSUME NEW at PROVE read_varint(at).error # "no"
  BY DEF read_varint, Refuses, Got, EndOfData
<1>2. ASSUME NEW at PROVE read_length(at).error # "no"
  BY <1>1 DEF read_length, Refuses
<1>3. ASSUME NEW at PROVE read_string(at).error # "no"
  BY <1>2 DEF read_string, Refuses, Got, EndOfData
<1>4. read_head(from).error # "no"
  <2>1. CASE from >= Len(bytes)
    BY <2>1 DEF read_head, Refuses, EndOfData
  <2>2. CASE ~(from >= Len(bytes)) /\ Kinds(bytes[from + 1]) = {}
    <3>1. from < Len(bytes)
      BY <2>2, LenProperties
    <3>2. QED
      BY <2>2, <3>1 DEF read_head, Refuses
  <2>3. CASE ~(from >= Len(bytes)) /\ Kinds(bytes[from + 1]) # {}
    <3>1. KindAt(from) \in Kinds(bytes[from + 1])
      BY <2>3 DEF KindAt
    <3>2. KindAt(from) \in {"none", "int", "block", "context", "string", "word", "set_word", "get_word"}
      <4>1. Kinds(bytes[from + 1]) \subseteq DOMAIN TagOf \ {"bool"}
        BY DEF Kinds
      <4>2. DOMAIN TagOf = {"none", "int", "block", "context", "string", "word", "set_word", "get_word", "bool"}
        BY DEF TagOf
      <4>3. QED
        BY <3>1, <4>1, <4>2
    <3>3. read_head(from) = CASE KindAt(from) = "none"  -> Got(0, from + 1)
                              [] KindAt(from) = "int"   -> read_varint(from + 1)
                              [] KindAt(from) \in Texts -> read_string(from + 1)
                              [] KindAt(from) \in {"block", "context"} -> read_length(from + 1)
      BY <2>3 DEF read_head
    <3>4. \/ read_head(from) = Got(0, from + 1)
          \/ read_head(from) = read_varint(from + 1)
          \/ read_head(from) = read_string(from + 1)
          \/ read_head(from) = read_length(from + 1)
      BY <3>2, <3>3 DEF Texts
    <3>5. QED
      BY <1>1, <1>2, <1>3, <3>4 DEF Got
  <2>4. QED
    BY <2>1, <2>2, <2>3
<1>5. QED
  BY <1>3, <1>4

(* What is read at a mark: the piece that was visited next, and nothing at *)
(* the last one. *)
LEMMA ReadAtMark ==
  ASSUME bytes \in Seq(Byte), NEW Values, Serializable(Values), NEW saved \in Seq(Values),
         NEW m, IsMark(Values, bytes, saved, m), Visits(saved, m), NEW p, p = Pending(saved, m)[1]
  PROVE  /\ p \in Values /\ Wrote(bytes, saved, m) /\ read_head(m.end).error = "none" =>
              /\ KindAt(m.end) = p[1]
              /\ read_head(m.end) = Got(IF Container(p) THEN Len(p[2]) ELSE p[2], After(saved, m).end)
         /\ p \in Values /\ Ends(bytes, saved, m) => read_head(m.end).error # "none"
         /\ \A key \in Text :
              p = KeyPiece(key) =>
                /\ Wrote(bytes, saved, m) => read_string(m.end) = Got(key, After(saved, m).end)
                /\ Ends(bytes, saved, m) => read_string(m.end).error # "none"
<1>1. PICK from, code : from = m.end /\ code = PieceBytes(p)
  OBVIOUS
<1>2. /\ from \in Nat /\ After(saved, m).end = from + Len(code)
      /\ Wrote(bytes, saved, m) => p[1] # "path" /\ Lies(bytes, from, code)
      /\ Ends(bytes, saved, m) => IF p[1] = "path" THEN from = Len(bytes) ELSE CutShort(bytes, from, code)
  BY <1>1 DEF IsMark, After, Wrote, Ends
<1>3. ASSUME p \in Values, Wrote(bytes, saved, m), read_head(m.end).error = "none"
      PROVE  /\ KindAt(m.end) = p[1]
             /\ read_head(m.end) = Got(IF Container(p) THEN Len(p[2]) ELSE p[2], After(saved, m).end)
  BY <1>1, <1>2, <1>3, HeadIsRead DEF Container
<1>4. ASSUME p \in Values, Ends(bytes, saved, m) PROVE read_head(m.end).error # "none"
  <2>1. CASE p[1] = "path"
    <3>1. from >= Len(bytes)
      BY <1>2, <1>4, <2>1
    <3>2. QED
      BY <1>1, <3>1 DEF read_head, Refuses, EndOfData
  <2>2. CASE p[1] # "path"
    BY <1>1, <1>2, <1>4, <2>2, HeadIsCut
  <2>3. QED
    BY <2>1, <2>2
<1>5. ASSUME NEW key \in Text, p = KeyPiece(key)
      PROVE  /\ Wrote(bytes, saved, m) => read_string(m.end) = Got(key, After(saved, m).end)
             /\ Ends(bytes, saved, m) => read_string(m.end).error # "none"
  <2>1. p[1] = "key" /\ code = TextBytes(key)
    BY <1>1, <1>5 DEF KeyPiece, PieceBytes, Texts
  <2>2. Wrote(bytes, saved, m) => read_string(m.end) = Got(key, After(saved, m).end)
    BY <1>1, <1>2, <2>1, TextIsRead
  <2>3. Ends(bytes, saved, m) => read_string(m.end) = Refuses(EndOfData)
    BY <1>1, <1>2, <2>1, TextIsCut
  <2>4. QED
    BY <2>2, <2>3 DEF Refuses, EndOfData
<1>6. QED
  BY <1>3, <1>4, <1>5

(* Before a value, the deserializer goes into it if it is a block or a     *)
(* context, and takes it if not. *)
Enters(Values, saved, fs, got, m, v) ==
  /\ v \in Values
  /\ Container(v) =>
       Reader(Values, saved, Append(fs, Frame(v[1], Len(v[2]))), After(saved, m).end, got,
              After(saved, m))
  /\ ~Container(v) /\ fs = << >> =>
       /\ Len(got) + 1 \in 1 .. Len(saved) /\ v = saved[Len(got) + 1]
       /\ \A more : Len(more) = Len(got) + 1 =>
            Reader(Values, saved, << >>, After(saved, m).end, more, After(saved, m))
  /\ ~Container(v) /\ fs # << >> =>
       Reader(Values, saved, [fs EXCEPT ![Len(fs)] = Taking(fs[Len(fs)], v)],
              After(saved, m).end, got, After(saved, m))

LEMMA ReaderEnters ==
  ASSUME NEW Values, Serializable(Values), NEW stream, NEW saved \in Seq(Values),
         NEW m, IsMark(Values, stream, saved, m), Visits(saved, m),
         NEW fs, IsStack(fs), NEW got, Len(got) \in Nat, Reader(Values, saved, fs, m.end, got, m),
         fs # << >> => Waits(fs[Len(fs)])
  PROVE  Enters(Values, saved, fs, got, m, Pending(saved, m)[1])
<1>0. PICK v : v = Pending(saved, m)[1]
  OBVIOUS
<1>1. PICK next, rest : next = After(saved, m) /\ rest = Tail(Pending(saved, m))
  OBVIOUS
<1>2. /\ next.work = Inside(v) \o rest
      /\ next.begun = IF m.work = << >> THEN m.begun + 1 ELSE m.begun
      /\ rest \in Seq(Pieces(Values))
  BY <1>0, <1>1, PieceAfter DEF After
<1>3. v \in Values => /\ Inside(v) \in Seq(Pieces(Values))
                      /\ ~Container(v) => Inside(v) = << >>
  BY InsideOf
<1>4. CASE fs = << >>
  <2>1. m.work = << >> /\ Len(got) = m.begun
    BY <1>4 DEF Reader
  <2>2. /\ m.begun + 1 \in 1 .. Len(saved) /\ v = saved[m.begun + 1] /\ v \in Values /\ rest = << >>
    BY <1>0, <1>1, <2>1, PieceAfter
  <2>3. next.work = Inside(v) /\ next.begun = Len(got) + 1
    <3>1. Inside(v) \o << >> = Inside(v)
      <4>1. PICK s : s = Inside(v)
        OBVIOUS
      <4>2. s \in Seq(Pieces(Values)) /\ << >> \in Seq(Pieces(Values))
        BY <1>3, <2>2, <4>1
      <4>3. QED
        BY <4>1, <4>2, Before
    <3>2. QED
      BY <1>2, <2>1, <2>2, <3>1
  <2>4. ASSUME Container(v)
        PROVE  Reader(Values, saved, Append(fs, Frame(v[1], Len(v[2]))), next.end, got, next)
    <3>1. PICK g, gs : g = Frame(v[1], Len(v[2])) /\ gs = Append(fs, g)
      OBVIOUS
    <3>2. gs = <<g>> /\ gs # << >>
      BY <1>4, <3>1
    <3>3. Within(Values, v, <<g>>, Inside(v))
      BY <2>2, <2>4, <3>1, EntersValue
    <3>4. saved[Len(got) + 1] = v
      BY <2>1, <2>2
    <3>5. QED
      BY <2>3, <3>1, <3>2, <3>3, <3>4 DEF Reader
  <2>5. ASSUME ~Container(v), NEW more, Len(more) = Len(got) + 1
        PROVE  Reader(Values, saved, << >>, next.end, more, next)
    BY <1>3, <2>2, <2>3, <2>5 DEF Reader
  <2>6. Enters(Values, saved, fs, got, m, v)
    BY <1>1, <1>4, <2>1, <2>2, <2>4, <2>5 DEF Enters
  <2>7. QED
    BY <1>0, <2>6
<1>5. CASE fs # << >>
  <2>1. PICK root : root = saved[Len(got) + 1]
    OBVIOUS
  <2>2. Len(got) + 1 = m.begun /\ Within(Values, root, fs, m.work) /\ Waits(fs[Len(fs)])
    BY <1>5, <2>1 DEF Reader
  <2>3. /\ m.work # << >> /\ m.work[1] \in Values
        /\ Within(Values, root, [fs EXCEPT ![Len(fs)] = Taking(fs[Len(fs)], m.work[1])], Tail(m.work))
    BY <1>5, <2>2, TakesValue
  <2>4. v = m.work[1] /\ v \in Values /\ rest = Tail(m.work) /\ next.begun = m.begun
    BY <1>0, <1>1, <1>2, <2>3, PieceAfter
  <2>5. ASSUME Container(v)
        PROVE  Reader(Values, saved, Append(fs, Frame(v[1], Len(v[2]))), next.end, got, next)
    <3>1. PICK gs : gs = Append(fs, Frame(v[1], Len(v[2])))
      OBVIOUS
    <3>2. gs # << >>
      <4>1. IsStack(gs) /\ Len(gs) = Len(fs) + 1 /\ Len(fs) \in Nat
        BY <3>1, StackMoves
      <4>2. Len(gs) # 0
        BY <4>1
      <4>3. QED
        BY <4>1, <4>2, StackMoves
    <3>3. Within(Values, root, gs, Inside(v) \o rest)
      BY <1>5, <2>2, <2>4, <2>5, <3>1, Deeper
    <3>4. QED
      BY <1>2, <2>1, <2>2, <2>4, <3>1, <3>2, <3>3 DEF Reader
  <2>6. ASSUME ~Container(v)
        PROVE  Reader(Values, saved, [fs EXCEPT ![Len(fs)] = Taking(fs[Len(fs)], v)], next.end, got, next)
    <3>1. PICK gs : gs = [fs EXCEPT ![Len(fs)] = Taking(fs[Len(fs)], v)]
      OBVIOUS
    <3>2. gs # << >>
      <4>1. IsStack(gs) /\ Len(gs) = Len(fs) /\ Len(fs) # 0
        BY <1>5, <3>1, StackMoves
      <4>2. QED
        BY <4>1, StackMoves
    <3>3. next.work = rest
      <4>1. Inside(v) = << >> /\ << >> \in Seq(Pieces(Values))
        BY <1>3, <2>4, <2>6
      <4>2. << >> \o rest = rest
        BY <1>2, <4>1, Before
      <4>3. QED
        BY <1>2, <4>1, <4>2
    <3>4. Within(Values, root, gs, next.work)
      BY <2>3, <2>4, <3>1, <3>3
    <3>5. QED
      BY <2>1, <2>2, <2>4, <3>1, <3>2, <3>4 DEF Reader
  <2>7. Enters(Values, saved, fs, got, m, v)
    BY <1>1, <1>5, <2>4, <2>5, <2>6 DEF Enters
  <2>8. QED
    BY <1>0, <2>7
<1>6. QED
  BY <1>4, <1>5

(* Before a key, it takes the key. *)
LEMMA ReaderTakesKey ==
  ASSUME NEW Values, Serializable(Values), NEW stream, NEW saved \in Seq(Values),
         NEW m, IsMark(Values, stream, saved, m),
         NEW fs, IsStack(fs), fs # << >>, NEW got, Reader(Values, saved, fs, m.end, got, m),
         NEW f, f = fs[Len(fs)], f.kind = "context", f.key = << >>, f.left > 0
  PROVE  /\ Visits(saved, m)
         /\ \E key \in Text :
              /\ Pending(saved, m)[1] = KeyPiece(key)
              /\ Reader(Values, saved, [fs EXCEPT ![Len(fs)] = [f EXCEPT !.key = <<key>>]],
                        After(saved, m).end, got, After(saved, m))
<1>1. PICK next, root : next = After(saved, m) /\ root = saved[Len(got) + 1]
  OBVIOUS
<1>2. Len(got) + 1 = m.begun /\ Within(Values, root, fs, m.work)
  BY <1>1 DEF Reader
<1>3. m.work # << >> /\ \E key \in Text :
         /\ m.work[1] = KeyPiece(key)
         /\ Within(Values, root, [fs EXCEPT ![Len(fs)] = [f EXCEPT !.key = <<key>>]], Tail(m.work))
  BY <1>2, TakesKey
<1>4. PICK key \in Text :
         /\ m.work[1] = KeyPiece(key)
         /\ Within(Values, root, [fs EXCEPT ![Len(fs)] = [f EXCEPT !.key = <<key>>]], Tail(m.work))
  BY <1>3
<1>5. Visits(saved, m)
  BY <1>3 DEF Visits
<1>6. Pending(saved, m) = m.work /\ Tail(m.work) \in Seq(Pieces(Values))
  BY <1>3, <1>5, PieceAfter
<1>7. next.work = Tail(m.work) /\ next.begun = m.begun
  <2>1. Inside(KeyPiece(key)) = << >>
    BY DEF Inside, KeyPiece
  <2>2. << >> \o Tail(m.work) = Tail(m.work)
    <3>1. PICK s : s = Tail(m.work)
      OBVIOUS
    <3>2. s \in Seq(Pieces(Values)) /\ << >> \in Seq(Pieces(Values))
      BY <1>6, <3>1
    <3>3. QED
      BY <3>1, <3>2, Before
  <2>3. QED
    BY <1>1, <1>3, <1>4, <1>6, <2>1, <2>2 DEF After
<1>8. PICK gs : gs = [fs EXCEPT ![Len(fs)] = [f EXCEPT !.key = <<key>>]]
  OBVIOUS
<1>9. gs # << >>
  <2>1. IsStack(gs) /\ Len(gs) = Len(fs) /\ Len(fs) # 0
    BY <1>8, StackMoves
  <2>2. QED
    BY <2>1, StackMoves
<1>10. Reader(Values, saved, gs, next.end, got, next)
  BY <1>1, <1>2, <1>4, <1>7, <1>8, <1>9 DEF Reader
<1>11. QED
  BY <1>1, <1>4, <1>5, <1>6, <1>8, <1>10

(* What it has read whole it delivers. *)
Delivers(Values, saved, fs, at, got, m, v) ==
  /\ v \in Values
  /\ Len(fs) = 1 =>
       /\ Len(got) + 1 \in 1 .. Len(saved) /\ v = saved[Len(got) + 1]
       /\ \A more : Len(more) = Len(got) + 1 => Reader(Values, saved, << >>, at, more, m)
  /\ Len(fs) > 1 =>
       Reader(Values, saved,
              [Front(fs) EXCEPT ![Len(fs) - 1] = Taking(Front(fs)[Len(fs) - 1], v)], at, got, m)

LEMMA ReaderLeaves ==
  ASSUME NEW Values, Serializable(Values), NEW stream, NEW saved \in Seq(Values),
         NEW m, IsMark(Values, stream, saved, m),
         NEW fs, IsStack(fs), fs # << >>, NEW at, NEW got, Len(got) \in Nat,
         Reader(Values, saved, fs, at, got, m), fs[Len(fs)].left = 0
  PROVE  Delivers(Values, saved, fs, at, got, m, <<fs[Len(fs)].kind, fs[Len(fs)].items>>)
<1> DEFINE v == <<fs[Len(fs)].kind, fs[Len(fs)].items>>
<1> HIDE DEF v
<1>1. PICK root : root = saved[Len(got) + 1]
  OBVIOUS
<1>2. Len(got) + 1 = m.begun /\ at = m.end /\ Within(Values, root, fs, m.work)
  BY <1>1 DEF Reader
<1>3. /\ v \in Values
      /\ Len(fs) = 1 => v = root /\ m.work = << >>
      /\ Len(fs) > 1 =>
           /\ Waits(Front(fs)[Len(fs) - 1])
           /\ \E more : Within(Values, root, Front(fs), more) /\ more[1] = v /\ Tail(more) = m.work
  <2>1. IsRead(Values, root, fs, m.work, v)
    BY <1>2, ReadWhole DEF v
  <2>2. QED
    BY <2>1 DEF IsRead
<1>4. ASSUME Len(fs) = 1
      PROVE  /\ Len(got) + 1 \in 1 .. Len(saved) /\ v = saved[Len(got) + 1]
             /\ \A more : Len(more) = Len(got) + 1 => Reader(Values, saved, << >>, at, more, m)
  <2>1. Len(got) + 1 \in 1 .. Len(saved)
    <3>1. m.begun =< Len(saved) /\ Len(saved) \in Nat
      BY LenProperties DEF IsMark
    <3>2. QED
      BY <1>2, <3>1
  <2>2. \A more : Len(more) = Len(got) + 1 => Reader(Values, saved, << >>, at, more, m)
    BY <1>2, <1>3, <1>4 DEF Reader
  <2>3. QED
    BY <1>1, <1>3, <1>4, <2>1, <2>2
<1>5. ASSUME Len(fs) > 1
      PROVE  Reader(Values, saved,
                    [Front(fs) EXCEPT ![Len(fs) - 1] = Taking(Front(fs)[Len(fs) - 1], v)], at, got, m)
  <2>1. PICK gs, n : gs = Front(fs) /\ n = Len(fs) - 1
    OBVIOUS
  <2>2. IsStack(gs) /\ Len(gs) = n /\ n > 0 /\ gs # << >>
    <3>1. IsStack(gs) /\ Len(gs) = n /\ Len(fs) \in Nat
      BY <2>1, StackMoves
    <3>2. n > 0
      BY <1>5, <2>1, <3>1
    <3>3. QED
      BY <3>1, <3>2, StackMoves
  <2>3. PICK more : Within(Values, root, gs, more) /\ more[1] = v /\ Tail(more) = m.work
    BY <1>3, <1>5, <2>1
  <2>4. Waits(gs[n])
    BY <1>3, <1>5, <2>1
  <2>5. PICK hs : hs = [gs EXCEPT ![n] = Taking(gs[n], v)]
    OBVIOUS
  <2>6. Within(Values, root, hs, m.work)
    <3>1. Within(Values, root, [gs EXCEPT ![Len(gs)] = Taking(gs[Len(gs)], more[1])], Tail(more))
      <4>1. Waits(gs[Len(gs)])
        BY <2>2, <2>4
      <4>2. QED
        BY <2>2, <2>3, <4>1, TakesValue
    <3>2. QED
      BY <2>2, <2>3, <2>5, <3>1
  <2>7. hs # << >>
    <3>1. IsStack(hs) /\ Len(hs) = n /\ n # 0
      BY <2>2, <2>5, StackMoves
    <3>2. QED
      BY <3>1, StackMoves
  <2>8. Reader(Values, saved, hs, at, got, m)
    BY <1>1, <1>2, <2>6, <2>7 DEF Reader
  <2>9. QED
    BY <2>1, <2>5, <2>8
<1>6. Delivers(Values, saved, fs, at, got, m, v)
  BY <1>3, <1>4, <1>5 DEF Delivers
<1>7. QED
  BY <1>6 DEF v

-----------------------------------------------------------------------------
(* What is always so: the stream holds the pieces visited, one after the   *)
(* other; the deserializer, as long as it goes on, is at one of the marks; *)
(* what it returned is what was saved. *)
AsSaved(Values, got, saved) ==
  /\ got \in Seq(Values) /\ Len(got) =< Len(saved)
  /\ \A i \in 1 .. Len(got) : got[i] = saved[i]

StreamInvariant(Values) ==
  /\ bytes \in Seq(Byte) /\ written \in Seq(Values) /\ IsStack(frames)
  /\ AsSaved(Values, loaded, written)
  /\ ending # "no" => frames = << >>
  /\ \E h, n :
       /\ Visited(Values, bytes, written, h, n)
       /\ Frontier(bytes, written, work, failed, h[n])
       /\ ending = "no" => \E k \in 0 .. n : Reader(Values, written, frames, pos, loaded, h[k])

LEMMA StreamStarts ==
  ASSUME NEW Values, StreamInit
  PROVE  StreamInvariant(Values)
<1>1. /\ bytes = << >> /\ work = << >> /\ written = << >> /\ failed = FALSE
      /\ pos = 0 /\ frames = << >> /\ loaded = << >> /\ ending = "no"
  BY DEF StreamInit
<1>2. PICK m, h : m = [end |-> 0, work |-> << >>, begun |-> 0] /\ h = [k \in 0 .. 0 |-> m]
  OBVIOUS
<1>3. h[0] = m /\ m.end = 0 /\ m.work = << >> /\ m.begun = 0
  BY <1>2
<1>4. << >> \in Seq(Byte) /\ << >> \in Seq(Values) /\ << >> \in Seq(Pieces(Values)) /\ Len(<< >>) = 0
  OBVIOUS
<1>5. IsMark(Values, << >>, << >>, m)
  BY <1>3, <1>4 DEF IsMark
<1>6. Visited(Values, << >>, << >>, h, 0)
  <2>1. (\A k \in 0 .. 0 : k = 0) /\ (\A k \in 0 .. 0 - 1 : FALSE)
    OBVIOUS
  <2>2. QED
    BY <1>2, <1>3, <1>5, <2>1 DEF Visited
<1>7. Frontier(<< >>, << >>, << >>, FALSE, m)
  BY <1>3, <1>4 DEF Frontier
<1>8. Reader(Values, << >>, << >>, 0, << >>, m)
  BY <1>3, <1>4 DEF Reader
<1>9. AsSaved(Values, << >>, << >>)
  <2>1. \A i \in 1 .. 0 : FALSE
    OBVIOUS
  <2>2. QED
    BY <1>4, <2>1 DEF AsSaved
<1>10. IsStack(<< >>)
  BY <1>4 DEF IsStack
<1>11. /\ bytes \in Seq(Byte) /\ written \in Seq(Values) /\ IsStack(frames)
       /\ AsSaved(Values, loaded, written)
       /\ Visited(Values, bytes, written, h, 0) /\ Frontier(bytes, written, work, failed, h[0])
       /\ Reader(Values, written, frames, pos, loaded, h[0])
  BY <1>1, <1>3, <1>4, <1>6, <1>7, <1>8, <1>9, <1>10
<1>12. QED
  BY <1>1, <1>11 DEF StreamInvariant

LEMMA SaveKeeps ==
  ASSUME NEW Values, Serializable(Values), StreamInvariant(Values), NEW value \in Values, Save(value)
  PROVE  StreamInvariant(Values)'
<1>1. /\ work = << >> /\ ~failed /\ work' = <<value>> /\ written' = Append(written, value)
      /\ bytes' = bytes /\ failed' = failed /\ pos' = pos /\ frames' = frames /\ loaded' = loaded
      /\ ending' = ending
  BY DEF Save
<1>2. /\ bytes \in Seq(Byte) /\ written \in Seq(Values) /\ IsStack(frames)
      /\ AsSaved(Values, loaded, written) /\ (ending # "no" => frames = << >>)
  BY DEF StreamInvariant
<1>3. PICK h, n :
        /\ Visited(Values, bytes, written, h, n)
        /\ Frontier(bytes, written, work, failed, h[n])
        /\ ending = "no" => \E k \in 0 .. n : Reader(Values, written, frames, pos, loaded, h[k])
  BY DEF StreamInvariant
<1>4. /\ Visited(Values, bytes, written', h, n)
      /\ written' \in Seq(Values) /\ Len(written) \in Nat /\ Len(written') = Len(written) + 1
      /\ written'[Len(written) + 1] = value
      /\ \A i \in 1 .. Len(written) : written'[i] = written[i]
  BY <1>1, <1>2, <1>3, SavedGrows
<1>5. AsSaved(Values, loaded, written')
  <2>1. Len(loaded) \in Nat /\ Len(loaded) =< Len(written) /\ \A i \in 1 .. Len(loaded) : loaded[i] = written[i]
    BY <1>2, LenProperties DEF AsSaved
  <2>2. Len(loaded) =< Len(written') /\ \A i \in 1 .. Len(loaded) : i \in 1 .. Len(written)
    BY <1>4, <2>1
  <2>3. QED
    BY <1>2, <1>4, <2>1, <2>2 DEF AsSaved
<1>6. Frontier(bytes, written', work', failed, h[n])
  <2>1. PICK m : m = h[n]
    OBVIOUS
  <2>2. m.work = << >> /\ m.begun = Len(written) /\ Len(bytes) = m.end
    BY <1>1, <1>3, <2>1 DEF Frontier
  <2>3. m.begun < Len(written') /\ m.begun + 1 = Len(written')
    BY <1>4, <2>2
  <2>4. Visits(written', m) /\ Pending(written', m) = work' /\ work' # << >>
    BY <1>1, <1>4, <2>2, <2>3 DEF Visits, Pending
  <2>5. QED
    BY <2>1, <2>2, <2>3, <2>4 DEF Frontier
<1>7. ASSUME NEW k \in 0 .. n, Reader(Values, written, frames, pos, loaded, h[k])
      PROVE  Reader(Values, written', frames, pos, loaded, h[k])
  <2>1. PICK m : m = h[k]
    OBVIOUS
  <2>2. m.begun \in Nat /\ m.begun =< Len(written)
    BY <1>3, <2>1 DEF Visited, IsMark
  <2>3. ASSUME frames # << >> PROVE written'[Len(loaded) + 1] = written[Len(loaded) + 1]
    <3>1. Len(loaded) + 1 = m.begun /\ Len(loaded) \in Nat
      BY <1>2, <1>7, <2>1, <2>3, LenProperties DEF Reader, AsSaved
    <3>2. m.begun \in 1 .. Len(written)
      BY <1>4, <2>2, <3>1
    <3>3. QED
      BY <1>4, <3>1, <3>2
  <2>4. QED
    BY <1>7, <2>3 DEF Reader
<1>8. /\ bytes' \in Seq(Byte) /\ IsStack(frames') /\ AsSaved(Values, loaded', written')
      /\ (ending' # "no" => frames' = << >>) /\ Visited(Values, bytes', written', h, n)
      /\ Frontier(bytes', written', work', failed', h[n])
  BY <1>1, <1>2, <1>4, <1>5, <1>6
<1>9. ending' = "no" => \E k \in 0 .. n : Reader(Values, written', frames', pos', loaded', h[k])
  BY <1>1, <1>3, <1>7
<1>10. QED
  BY <1>4, <1>8, <1>9 DEF StreamInvariant

(* The serializer has a piece to visit: the one after the last mark. *)
LEMMA ToVisit ==
  ASSUME NEW Values, Serializable(Values), bytes \in Seq(Byte), written \in Seq(Values),
         NEW h, NEW n, Visited(Values, bytes, written, h, n),
         Frontier(bytes, written, work, failed, h[n]), work # << >>, ~failed, work[1][1] # "path"
  PROVE  /\ n \in Nat /\ IsMark(Values, bytes, written, h[n])
         /\ Visits(written, h[n]) /\ Pending(written, h[n]) = work
         /\ h[n].end = Len(bytes) /\ Len(bytes) \in Nat
         /\ PieceBytes(work[1]) \in Seq(Byte) /\ Len(PieceBytes(work[1])) \in Nat
         /\ After(written, h[n]).begun = Len(written)
<1>1. PICK m : m = h[n]
  OBVIOUS
<1>2. n \in Nat /\ IsMark(Values, bytes, written, m)
  <2>1. n \in Nat /\ \A k \in 0 .. n : IsMark(Values, bytes, written, h[k])
    BY DEF Visited
  <2>2. QED
    BY <1>1, <2>1
<1>3. /\ Visits(written, m) /\ work = Pending(written, m) /\ Len(bytes) = m.end
      /\ m.work = << >> => m.begun + 1 = Len(written)
      /\ m.work # << >> => m.begun = Len(written)
  BY <1>1 DEF Frontier
<1>4. PieceBytes(work[1]) \in Seq(Byte) /\ Len(PieceBytes(work[1])) \in Nat
  BY <1>2, <1>3, PieceAfter
<1>5. After(written, m).begun = Len(written)
  BY <1>3 DEF After
<1>6. QED
  BY <1>1, <1>2, <1>3, <1>4, <1>5, LenProperties

LEMMA VisitKeeps ==
  ASSUME NEW Values, Serializable(Values), StreamInvariant(Values), Visit
  PROVE  StreamInvariant(Values)'
<1>1. /\ work # << >> /\ ~failed /\ work[1][1] # "path" /\ bytes' = bytes \o PieceBytes(work[1])
      /\ work' = Inside(work[1]) \o Tail(work)
      /\ written' = written /\ failed' = failed /\ pos' = pos /\ frames' = frames /\ loaded' = loaded
      /\ ending' = ending
  BY DEF Visit
<1>2. /\ bytes \in Seq(Byte) /\ written \in Seq(Values) /\ IsStack(frames)
      /\ AsSaved(Values, loaded, written) /\ (ending # "no" => frames = << >>)
  BY DEF StreamInvariant
<1>3. PICK h, n :
        /\ Visited(Values, bytes, written, h, n)
        /\ Frontier(bytes, written, work, failed, h[n])
        /\ ending = "no" => \E k \in 0 .. n : Reader(Values, written, frames, pos, loaded, h[k])
  BY DEF StreamInvariant
<1>4. PICK m, code : m = h[n] /\ code = PieceBytes(work[1])
  OBVIOUS
<1>5. /\ n \in Nat /\ IsMark(Values, bytes, written, m) /\ Visits(written, m) /\ Pending(written, m) = work
      /\ m.end = Len(bytes) /\ Len(bytes) \in Nat /\ code \in Seq(Byte) /\ Len(code) \in Nat
      /\ After(written, m).begun = Len(written)
  BY <1>1, <1>2, <1>3, <1>4, ToVisit
<1>6. bytes' = bytes \o code
  BY <1>1, <1>4
<1>7. /\ bytes' \in Seq(Byte) /\ Len(bytes') = Len(bytes) + Len(code)
      /\ \A i \in 1 .. Len(code) : bytes'[Len(bytes) + i] = code[i]
  BY <1>2, <1>5, <1>6, Joined
<1>8. Visited(Values, bytes', written, h, n)
  BY <1>2, <1>3, <1>5, <1>6, StreamGrows
<1>9. Wrote(bytes', written, m)
  <2>1. Lies(bytes', m.end, code)
    BY <1>5, <1>7 DEF Lies
  <2>2. QED
    BY <1>1, <1>4, <1>5, <2>1 DEF Wrote
<1>10. PICK g : /\ Visited(Values, bytes', written, g, n + 1)
                /\ g[n + 1] = After(written, m)
                /\ \A k \in 0 .. n : g[k] = h[k]
  BY <1>2, <1>4, <1>7, <1>8, <1>9, VisitedOn
<1>11. PICK next, j : next = After(written, m) /\ j = n + 1
  OBVIOUS
<1>12. Frontier(bytes', written, work', failed, next)
  <2>1. next.end = Len(bytes') /\ next.work = work' /\ next.begun = Len(written)
    BY <1>1, <1>4, <1>5, <1>7, <1>11 DEF After
  <2>2. work' # << >> => Visits(written, next) /\ work' = Pending(written, next)
    BY <2>1 DEF Visits, Pending
  <2>3. QED
    BY <2>1, <2>2 DEF Frontier
<1>13. /\ Visited(Values, bytes', written', g, j)
       /\ Frontier(bytes', written', work', failed', g[j])
  BY <1>1, <1>10, <1>11, <1>12
<1>14. ending' = "no" => \E k \in 0 .. j : Reader(Values, written', frames', pos', loaded', g[k])
  <2>1. \A k \in 0 .. n : k \in 0 .. j
    BY <1>5, <1>11
  <2>2. QED
    BY <1>1, <1>3, <1>10, <2>1
<1>15. /\ bytes' \in Seq(Byte) /\ written' \in Seq(Values) /\ IsStack(frames')
       /\ AsSaved(Values, loaded', written') /\ (ending' # "no" => frames' = << >>)
  BY <1>1, <1>2, <1>7
<1>16. QED
  BY <1>13, <1>14, <1>15 DEF StreamInvariant

LEMMA VisitPathKeeps ==
  ASSUME NEW Values, StreamInvariant(Values), VisitPath
  PROVE  StreamInvariant(Values)'
<1>1. /\ failed' = TRUE /\ bytes' = bytes /\ work' = work /\ written' = written
      /\ pos' = pos /\ frames' = frames /\ loaded' = loaded /\ ending' = ending /\ ~failed
  BY DEF VisitPath
<1>2. /\ bytes \in Seq(Byte) /\ written \in Seq(Values) /\ IsStack(frames)
      /\ AsSaved(Values, loaded, written) /\ (ending # "no" => frames = << >>)
  BY DEF StreamInvariant
<1>3. PICK h, n :
        /\ Visited(Values, bytes, written, h, n)
        /\ Frontier(bytes, written, work, failed, h[n])
        /\ ending = "no" => \E k \in 0 .. n : Reader(Values, written, frames, pos, loaded, h[k])
  BY DEF StreamInvariant
<1>4. Frontier(bytes, written, work, TRUE, h[n])
  BY <1>1, <1>3 DEF Frontier
<1>5. /\ bytes' \in Seq(Byte) /\ written' \in Seq(Values) /\ IsStack(frames')
      /\ AsSaved(Values, loaded', written') /\ (ending' # "no" => frames' = << >>)
      /\ Visited(Values, bytes', written', h, n)
      /\ Frontier(bytes', written', work', failed', h[n])
      /\ ending' = "no" => \E k \in 0 .. n : Reader(Values, written', frames', pos', loaded', h[k])
  BY <1>1, <1>2, <1>3, <1>4
<1>6. QED
  BY <1>5 DEF StreamInvariant

LEMMA WriteFailsKeeps ==
  ASSUME NEW Values, Serializable(Values), StreamInvariant(Values), WriteFails
  PROVE  StreamInvariant(Values)'
<1>1. /\ work # << >> /\ ~failed /\ work[1][1] # "path" /\ failed' = TRUE
      /\ work' = work /\ written' = written /\ pos' = pos /\ frames' = frames /\ loaded' = loaded
      /\ ending' = ending
  BY DEF WriteFails
<1>2. /\ bytes \in Seq(Byte) /\ written \in Seq(Values) /\ IsStack(frames)
      /\ AsSaved(Values, loaded, written) /\ (ending # "no" => frames = << >>)
  BY DEF StreamInvariant
<1>3. PICK h, n :
        /\ Visited(Values, bytes, written, h, n)
        /\ Frontier(bytes, written, work, failed, h[n])
        /\ ending = "no" => \E k \in 0 .. n : Reader(Values, written, frames, pos, loaded, h[k])
  BY DEF StreamInvariant
<1>4. PICK m, code : m = h[n] /\ code = PieceBytes(work[1])
  OBVIOUS
<1>5. /\ n \in Nat /\ Visits(written, m) /\ Pending(written, m) = work
      /\ m.end = Len(bytes) /\ Len(bytes) \in Nat /\ code \in Seq(Byte) /\ Len(code) \in Nat
  BY <1>1, <1>2, <1>3, <1>4, ToVisit
<1>6. PICK l \in 0 .. Len(code) - 1 : bytes' = bytes \o SubSeq(code, 1, l)
  BY <1>4 DEF WriteFails
<1>7. PICK part : part = SubSeq(code, 1, l)
  OBVIOUS
<1>8. l \in Nat /\ l < Len(code) /\ part \in Seq(Byte) /\ Len(part) = l /\ \A i \in 1 .. l : part[i] = code[i]
  <2>1. l \in Nat /\ l < Len(code) /\ 1 \in Int /\ \A i \in 1 .. l : i \in 1 .. Len(code)
    BY <1>5
  <2>2. \A i \in 1 .. l : code[i] \in Byte
    BY <1>5, <2>1, ElementOfSeq
  <2>3. /\ part \in Seq(Byte) /\ Len(part) = (IF 1 =< l THEN l - 1 + 1 ELSE 0)
        /\ \A i \in 1 .. l - 1 + 1 : part[i] = code[1 + i - 1]
    BY <1>7, <2>1, <2>2, SubSeqProperties
  <2>4. l - 1 + 1 = l /\ (~(1 =< l) => l = 0) /\ \A i \in Int : 1 + i - 1 = i
    BY <2>1
  <2>5. QED
    BY <2>1, <2>3, <2>4
<1>9. /\ bytes' \in Seq(Byte) /\ Len(bytes') = Len(bytes) + l
      /\ \A i \in 1 .. l : bytes'[Len(bytes) + i] = part[i]
  BY <1>2, <1>6, <1>7, <1>8, Joined
<1>10. Visited(Values, bytes', written, h, n)
  BY <1>2, <1>3, <1>6, <1>7, <1>8, StreamGrows
<1>11. CutShort(bytes', m.end, code)
  <2>1. m.end =< Len(bytes') /\ Len(bytes') < m.end + Len(code) /\ Len(bytes') - m.end = l
    BY <1>5, <1>8, <1>9
  <2>2. \A i \in 1 .. l : bytes'[m.end + i] = code[i]
    BY <1>5, <1>8, <1>9
  <2>3. QED
    BY <2>1, <2>2 DEF CutShort
<1>12. Frontier(bytes', written, work, TRUE, m)
  BY <1>1, <1>3, <1>4, <1>11 DEF Frontier
<1>13. /\ bytes' \in Seq(Byte) /\ written' \in Seq(Values) /\ IsStack(frames')
       /\ AsSaved(Values, loaded', written') /\ (ending' # "no" => frames' = << >>)
       /\ Visited(Values, bytes', written', h, n)
       /\ Frontier(bytes', written', work', failed', h[n])
       /\ ending' = "no" => \E k \in 0 .. n : Reader(Values, written', frames', pos', loaded', h[k])
  BY <1>1, <1>2, <1>3, <1>4, <1>9, <1>10, <1>12
<1>14. QED
  BY <1>13 DEF StreamInvariant

-----------------------------------------------------------------------------
(* The deserializer stops, or is at a mark that was written on from, or    *)
(* after which the stream ends. *)
LEMMA AtAMark ==
  ASSUME NEW Values, Serializable(Values), bytes \in Seq(Byte), written \in Seq(Values),
         NEW h, NEW n, Visited(Values, bytes, written, h, n),
         Frontier(bytes, written, work, failed, h[n]), NEW k \in 0 .. n
  PROVE  /\ IsMark(Values, bytes, written, h[k])
         /\ \/ /\ Wrote(bytes, written, h[k]) /\ Visits(written, h[k])
               /\ k + 1 \in 0 .. n /\ h[k + 1] = After(written, h[k])
            \/ Ends(bytes, written, h[k])
<1>1. /\ n \in Nat /\ IsMark(Values, bytes, written, h[k]) /\ IsMark(Values, bytes, written, h[n])
      /\ \A i \in 0 .. n - 1 : Wrote(bytes, written, h[i]) /\ h[i + 1] = After(written, h[i])
  <2>1. n \in Nat
    BY DEF Visited
  <2>2. n \in 0 .. n
    BY <2>1
  <2>3. QED
    BY <2>2 DEF Visited
<1>2. CASE k = n
  BY <1>1, <1>2, FrontierEnds
<1>3. CASE k # n
  <2>1. k \in 0 .. n - 1 /\ k + 1 \in 0 .. n
    BY <1>1, <1>3
  <2>2. QED
    BY <1>1, <2>1 DEF Wrote
<1>4. QED
  BY <1>2, <1>3

(* The reading stops, and goes on at a mark, as the serializer does        *)
(* nothing. *)
LEMMA StopsKeeps ==
  ASSUME NEW Values, StreamInvariant(Values), NEW error, Stops(error),
         UNCHANGED <<bytes, work, written, failed>>, error # "no"
  PROVE  StreamInvariant(Values)'
<1>1. /\ bytes' = bytes /\ work' = work /\ written' = written /\ failed' = failed
      /\ ending' # "no" /\ frames' = << >> /\ loaded' = loaded
  BY DEF Stops
<1>2. PICK h, n : Visited(Values, bytes, written, h, n) /\ Frontier(bytes, written, work, failed, h[n])
  BY DEF StreamInvariant
<1>3. bytes \in Seq(Byte) /\ written \in Seq(Values) /\ AsSaved(Values, loaded, written)
  BY DEF StreamInvariant
<1>4. IsStack(<< >>)
  <2>1. << >> \in Seq({})
    OBVIOUS
  <2>2. QED
    BY <2>1 DEF IsStack
<1>5. /\ bytes' \in Seq(Byte) /\ written' \in Seq(Values) /\ IsStack(frames')
      /\ AsSaved(Values, loaded', written') /\ frames' = << >>
      /\ Visited(Values, bytes', written', h, n)
      /\ Frontier(bytes', written', work', failed', h[n])
  BY <1>1, <1>2, <1>3, <1>4
<1>6. QED
  BY <1>1, <1>5 DEF StreamInvariant

LEMMA ReadsOn ==
  ASSUME NEW Values, UNCHANGED <<bytes, work, written, failed>>,
         bytes \in Seq(Byte), written \in Seq(Values),
         NEW h, NEW n, Visited(Values, bytes, written, h, n),
         Frontier(bytes, written, work, failed, h[n]), NEW k \in 0 .. n,
         ending' = "no", IsStack(frames'), AsSaved(Values, loaded', written),
         Reader(Values, written, frames', pos', loaded', h[k])
  PROVE  StreamInvariant(Values)'
<1>1. bytes' = bytes /\ work' = work /\ written' = written /\ failed' = failed
  OBVIOUS
<1>2. /\ bytes' \in Seq(Byte) /\ written' \in Seq(Values) /\ IsStack(frames')
      /\ AsSaved(Values, loaded', written')
      /\ Visited(Values, bytes', written', h, n)
      /\ Frontier(bytes', written', work', failed', h[n])
      /\ Reader(Values, written', frames', pos', loaded', h[k])
  BY <1>1
<1>3. QED
  BY <1>2 DEF StreamInvariant

(* One value more was returned. *)
LEMMA OneMoreAsSaved ==
  ASSUME NEW Values, NEW got, NEW saved \in Seq(Values), AsSaved(Values, got, saved),
         Len(got) + 1 \in 1 .. Len(saved), NEW value, value = saved[Len(got) + 1]
  PROVE  /\ AsSaved(Values, Append(got, value), saved)
         /\ Len(Append(got, value)) = Len(got) + 1 /\ Len(got) \in Nat
<1>1. PICK l, more : l = Len(got) /\ more = Append(got, value)
  OBVIOUS
<1>2. /\ got \in Seq(Values) /\ l \in Nat /\ value \in Values
      /\ \A i \in 1 .. l : got[i] = saved[i]
  BY <1>1, LenProperties, ElementOfSeq DEF AsSaved
<1>3. /\ more \in Seq(Values) /\ Len(more) = l + 1 /\ more[l + 1] = value
      /\ \A i \in 1 .. l : more[i] = got[i]
  BY <1>1, <1>2, AppendProperties
<1>4. ASSUME NEW i \in 1 .. l + 1 PROVE more[i] = saved[i]
  <2>1. i \in 1 .. l \/ i = l + 1
    BY <1>2
  <2>2. QED
    BY <1>1, <1>2, <1>3, <2>1
<1>5. Len(more) =< Len(saved)
  BY <1>1, <1>3
<1>6. QED
  BY <1>1, <1>2, <1>3, <1>4, <1>5 DEF AsSaved

(* What is delivered into a frame. *)
LEMMA DeliveredInto ==
  ASSUME NEW value, NEW around, around # << >>, Delivered(value, around)
  PROVE  /\ frames' = [around EXCEPT ![Len(around)] = Taking(around[Len(around)], value)]
         /\ loaded' = loaded
BY DEF Delivered

LEMMA ReadEndKeeps ==
  ASSUME NEW Values, StreamInvariant(Values), ReadEnd
  PROVE  StreamInvariant(Values)'
<1>1. Stops("done") /\ UNCHANGED <<bytes, work, written, failed>>
  BY DEF ReadEnd
<1>2. QED
  BY <1>1, StopsKeeps

LEMMA ReadKeyKeeps ==
  ASSUME NEW Values, Serializable(Values), StreamInvariant(Values), ReadKey
  PROVE  StreamInvariant(Values)'
<1>1. /\ ending = "no" /\ frames # << >> /\ Top.kind = "context" /\ Top.left > 0 /\ Top.key = << >>
      /\ UNCHANGED <<bytes, work, written, failed>>
      /\ read_string(pos).error # "none" => Stops(read_string(pos).error)
      /\ read_string(pos).error = "none" =>
           /\ pos' = read_string(pos).next
           /\ frames' = [frames EXCEPT ![Len(frames)].key = <<read_string(pos).what>>]
           /\ loaded' = loaded /\ ending' = ending
  BY DEF ReadKey, Reading, NeedsKey
<1>2. /\ bytes \in Seq(Byte) /\ written \in Seq(Values) /\ IsStack(frames)
      /\ AsSaved(Values, loaded, written)
  BY DEF StreamInvariant
<1>3. PICK h, n :
        /\ Visited(Values, bytes, written, h, n)
        /\ Frontier(bytes, written, work, failed, h[n])
        /\ \E k \in 0 .. n : Reader(Values, written, frames, pos, loaded, h[k])
  BY <1>1 DEF StreamInvariant
<1>4. PICK k \in 0 .. n : Reader(Values, written, frames, pos, loaded, h[k])
  BY <1>3
<1>5. PICK m, f : m = h[k] /\ f = frames[Len(frames)]
  OBVIOUS
<1>6. /\ IsMark(Values, bytes, written, m)
      /\ \/ /\ Wrote(bytes, written, m) /\ Visits(written, m)
            /\ k + 1 \in 0 .. n /\ h[k + 1] = After(written, m)
         \/ Ends(bytes, written, m)
  BY <1>2, <1>3, <1>5, AtAMark
<1>7. f.kind = "context" /\ f.key = << >> /\ f.left > 0 /\ pos = m.end
      /\ Reader(Values, written, frames, m.end, loaded, m)
  BY <1>1, <1>4, <1>5 DEF Top, Reader
<1>8. Visits(written, m) /\ \E key \in Text :
         /\ Pending(written, m)[1] = KeyPiece(key)
         /\ Reader(Values, written, [frames EXCEPT ![Len(frames)] = [f EXCEPT !.key = <<key>>]],
                   After(written, m).end, loaded, After(written, m))
  BY <1>1, <1>2, <1>5, <1>6, <1>7, ReaderTakesKey
<1>9. PICK key \in Text :
         /\ Pending(written, m)[1] = KeyPiece(key)
         /\ Reader(Values, written, [frames EXCEPT ![Len(frames)] = [f EXCEPT !.key = <<key>>]],
                   After(written, m).end, loaded, After(written, m))
  BY <1>8
<1>10. /\ Wrote(bytes, written, m) => read_string(pos) = Got(key, After(written, m).end)
       /\ Ends(bytes, written, m) => read_string(pos).error # "none"
  BY <1>2, <1>6, <1>7, <1>8, <1>9, ReadAtMark
<1>11. CASE read_string(pos).error # "none"
  <2>1. pos \in Nat
    BY <1>6, <1>7 DEF IsMark
  <2>2. read_string(pos).error # "no"
    BY <1>2, <2>1, ErrorsStop
  <2>3. QED
    BY <1>1, <1>11, <2>2, StopsKeeps
<1>12. CASE read_string(pos).error = "none"
  <2>1. /\ read_string(pos) = Got(key, After(written, m).end)
        /\ k + 1 \in 0 .. n /\ h[k + 1] = After(written, m)
    BY <1>6, <1>10, <1>12
  <2>2. read_string(pos).what = key /\ read_string(pos).next = After(written, m).end
    BY <2>1 DEF Got
  <2>3. /\ pos' = After(written, m).end /\ loaded' = loaded /\ ending' = "no"
        /\ frames' = [frames EXCEPT ![Len(frames)] = [f EXCEPT !.key = <<key>>]]
    BY <1>1, <1>5, <1>12, <2>2
  <2>4. IsStack(frames')
    BY <1>1, <1>2, <2>3, StackMoves
  <2>5. Reader(Values, written, frames', pos', loaded', h[k + 1])
    BY <1>9, <2>1, <2>3
  <2>6. QED
    BY <1>1, <1>2, <1>3, <2>1, <2>3, <2>4, <2>5, ReadsOn
<1>13. QED
  BY <1>11, <1>12

LEMMA ReturnKeeps ==
  ASSUME NEW Values, Serializable(Values), StreamInvariant(Values), Return
  PROVE  StreamInvariant(Values)'
<1>1. PICK v, around : v = <<Top.kind, Top.items>> /\ around = Front(frames)
  OBVIOUS
<1>2. /\ ending = "no" /\ ending' = "no" /\ frames # << >> /\ Top.left = 0 /\ Delivered(v, around)
      /\ pos' = pos /\ UNCHANGED <<bytes, work, written, failed>>
  BY <1>1 DEF Return, Reading, Complete
<1>3. /\ bytes \in Seq(Byte) /\ written \in Seq(Values) /\ IsStack(frames)
      /\ AsSaved(Values, loaded, written) /\ Len(loaded) \in Nat
  BY LenProperties DEF StreamInvariant, AsSaved
<1>4. PICK h, n :
        /\ Visited(Values, bytes, written, h, n)
        /\ Frontier(bytes, written, work, failed, h[n])
        /\ \E k \in 0 .. n : Reader(Values, written, frames, pos, loaded, h[k])
  BY <1>2 DEF StreamInvariant
<1>5. PICK k \in 0 .. n : Reader(Values, written, frames, pos, loaded, h[k])
  BY <1>4
<1>6. PICK m, f : m = h[k] /\ f = frames[Len(frames)]
  OBVIOUS
<1>7. IsMark(Values, bytes, written, m) /\ f.left = 0 /\ v = <<f.kind, f.items>>
  BY <1>1, <1>2, <1>3, <1>4, <1>6, AtAMark DEF Top
<1>8. /\ Len(frames) = 1 =>
           /\ Len(loaded) + 1 \in 1 .. Len(written) /\ v = written[Len(loaded) + 1]
           /\ \A more : Len(more) = Len(loaded) + 1 => Reader(Values, written, << >>, pos, more, m)
      /\ Len(frames) > 1 =>
           Reader(Values, written,
                  [Front(frames) EXCEPT ![Len(frames) - 1] = Taking(Front(frames)[Len(frames) - 1], v)],
                  pos, loaded, m)
  <2>1. Delivers(Values, written, frames, pos, loaded, m, <<frames[Len(frames)].kind, frames[Len(frames)].items>>)
    <3>1. frames[Len(frames)].left = 0 /\ Reader(Values, written, frames, pos, loaded, m)
      BY <1>5, <1>6, <1>7
    <3>2. QED
      BY <1>2, <1>3, <1>7, <3>1, ReaderLeaves
  <2>2. Delivers(Values, written, frames, pos, loaded, m, v)
    BY <1>6, <1>7, <2>1
  <2>3. QED
    BY <2>2 DEF Delivers
<1>9. /\ IsStack(around) /\ Len(around) = Len(frames) - 1 /\ Len(frames) \in Nat /\ Len(frames) >= 1
      /\ (around = << >> <=> Len(around) = 0)
  <2>1. IsStack(around) /\ Len(around) = Len(frames) - 1 /\ Len(frames) \in Nat /\ Len(frames) >= 1
    BY <1>1, <1>2, <1>3, StackMoves
  <2>2. around = << >> <=> Len(around) = 0
    BY <2>1, StackMoves
  <2>3. QED
    BY <2>1, <2>2
<1>10. CASE Len(frames) = 1
  <2>1. around = << >>
    BY <1>9, <1>10
  <2>2. loaded' = Append(loaded, v) /\ frames' = << >>
    BY <1>2, <2>1 DEF Delivered
  <2>3. AsSaved(Values, loaded', written) /\ Len(loaded') = Len(loaded) + 1
    BY <1>3, <1>8, <1>10, <2>2, OneMoreAsSaved
  <2>4. Reader(Values, written, frames', pos', loaded', h[k])
    BY <1>2, <1>6, <1>8, <1>10, <2>2, <2>3
  <2>5. IsStack(frames')
    BY <1>9, <2>1, <2>2
  <2>6. QED
    BY <1>2, <1>3, <1>4, <2>3, <2>4, <2>5, ReadsOn
<1>11. CASE Len(frames) # 1
  <2>1. around # << >> /\ Len(frames) > 1
    BY <1>9, <1>11
  <2>2. /\ frames' = [around EXCEPT ![Len(around)] = Taking(around[Len(around)], v)]
        /\ loaded' = loaded
    BY <1>2, <2>1, DeliveredInto
  <2>3. Reader(Values, written, frames', pos', loaded', h[k])
    <3>1. frames' = [Front(frames) EXCEPT ![Len(frames) - 1] = Taking(Front(frames)[Len(frames) - 1], v)]
      BY <1>1, <1>9, <2>2
    <3>2. QED
      BY <1>2, <1>6, <1>8, <2>1, <2>2, <3>1
  <2>4. IsStack(frames')
    BY <1>9, <2>1, <2>2, StackMoves
  <2>5. QED
    BY <1>2, <1>3, <1>4, <2>2, <2>3, <2>4, ReadsOn
<1>12. QED
  BY <1>10, <1>11

LEMMA ReadValueKeeps ==
  ASSUME NEW Values, Serializable(Values), StreamInvariant(Values), ReadValue
  PROVE  StreamInvariant(Values)'
<1>1. /\ ending = "no" /\ UNCHANGED <<bytes, work, written, failed>>
      /\ frames = << >> => pos # Len(bytes)
      /\ frames # << >> => Top.left # 0 /\ ~(Top.kind = "context" /\ Top.left > 0 /\ Top.key = << >>)
      /\ read_head(pos).error # "none" => Stops(read_head(pos).error)
      /\ read_head(pos).error = "none" =>
           /\ pos' = read_head(pos).next /\ ending' = ending
           /\ IF KindAt(pos) \in {"block", "context"}
              THEN frames' = Append(frames, Frame(KindAt(pos), read_head(pos).what)) /\ loaded' = loaded
              ELSE Delivered(<<KindAt(pos), read_head(pos).what>>, frames)
  BY DEF ReadValue, Reading, AtEnd, NeedsKey, Complete
<1>2. /\ bytes \in Seq(Byte) /\ written \in Seq(Values) /\ IsStack(frames)
      /\ AsSaved(Values, loaded, written) /\ Len(loaded) \in Nat
  BY LenProperties DEF StreamInvariant, AsSaved
<1>3. PICK h, n :
        /\ Visited(Values, bytes, written, h, n)
        /\ Frontier(bytes, written, work, failed, h[n])
        /\ \E k \in 0 .. n : Reader(Values, written, frames, pos, loaded, h[k])
  BY <1>1 DEF StreamInvariant
<1>4. PICK k \in 0 .. n : Reader(Values, written, frames, pos, loaded, h[k])
  BY <1>3
<1>5. PICK m, v, next : m = h[k] /\ v = Pending(written, m)[1] /\ next = After(written, m)
  OBVIOUS
<1>6. /\ IsMark(Values, bytes, written, m)
      /\ \/ /\ Wrote(bytes, written, m) /\ Visits(written, m)
            /\ k + 1 \in 0 .. n /\ h[k + 1] = next
         \/ Ends(bytes, written, m)
  BY <1>2, <1>3, <1>5, AtAMark
<1>7. pos = m.end /\ pos \in Nat /\ Reader(Values, written, frames, m.end, loaded, m)
  BY <1>4, <1>5, <1>6 DEF Reader, IsMark
<1>8. frames # << >> =>
        /\ Waits(frames[Len(frames)]) /\ m.work # << >>
        /\ Within(Values, written[Len(loaded) + 1], frames, m.work)
  <2>1. SUFFICES ASSUME frames # << >>
                 PROVE  /\ Waits(frames[Len(frames)]) /\ m.work # << >>
                        /\ Within(Values, written[Len(loaded) + 1], frames, m.work)
    OBVIOUS
  <2>2. Within(Values, written[Len(loaded) + 1], frames, m.work)
    BY <1>7, <2>1 DEF Reader
  <2>3. frames[Len(frames)].left \in Nat
    <3>1. PICK vs, rest : Nested(Values, written[Len(loaded) + 1], frames, vs, rest)
      BY <2>2 DEF Within
    <3>2. Finds(Values, frames[Len(frames)], vs[Len(frames)], Remains(frames, vs, rest), rest[Len(frames) - 1])
      BY <1>2, <2>1, <3>1, NextWithin
    <3>3. QED
      BY <3>2 DEF Finds
  <2>4. Waits(frames[Len(frames)])
    <3>1. PICK f : f = frames[Len(frames)]
      OBVIOUS
    <3>2. f.left \in Nat /\ f.left # 0 /\ ~(f.kind = "context" /\ f.left > 0 /\ f.key = << >>)
      BY <1>1, <2>1, <2>3, <3>1 DEF Top
    <3>3. f.left > 0
      BY <3>2
    <3>4. QED
      BY <3>1, <3>2, <3>3 DEF Waits
  <2>5. QED
    BY <1>2, <2>1, <2>2, <2>4, TakesValue
<1>9. Visits(written, m)
  <2>1. CASE frames = << >>
    <3>1. ~Visits(written, m) => ~Ends(bytes, written, m)
      BY <1>1, <1>7, <2>1 DEF Ends
    <3>2. QED
      BY <1>6, <3>1
  <2>2. CASE frames # << >>
    BY <1>8, <2>2 DEF Visits
  <2>3. QED
    BY <2>1, <2>2
<1>10. /\ v \in Values
       /\ Container(v) =>
            Reader(Values, written, Append(frames, Frame(v[1], Len(v[2]))), next.end, loaded, next)
       /\ ~Container(v) /\ frames = << >> =>
            /\ Len(loaded) + 1 \in 1 .. Len(written) /\ v = written[Len(loaded) + 1]
            /\ \A more : Len(more) = Len(loaded) + 1 =>
                 Reader(Values, written, << >>, next.end, more, next)
       /\ ~Container(v) /\ frames # << >> =>
            Reader(Values, written, [frames EXCEPT ![Len(frames)] = Taking(frames[Len(frames)], v)],
                   next.end, loaded, next)
  <2>1. Enters(Values, written, frames, loaded, m, Pending(written, m)[1])
    BY <1>2, <1>6, <1>7, <1>8, <1>9, ReaderEnters
  <2>2. Enters(Values, written, frames, loaded, m, v)
    BY <1>5, <2>1
  <2>3. QED
    BY <1>5, <2>2 DEF Enters
<1>11. CASE read_head(pos).error # "none"
  <2>1. read_head(pos).error # "no"
    BY <1>2, <1>7, ErrorsStop
  <2>2. QED
    BY <1>1, <1>11, <2>1, StopsKeeps
<1>12. CASE read_head(pos).error = "none"
  <2>1. Wrote(bytes, written, m) /\ k + 1 \in 0 .. n /\ h[k + 1] = next
    <3>1. ~Ends(bytes, written, m)
      BY <1>2, <1>5, <1>6, <1>7, <1>9, <1>10, <1>12, ReadAtMark
    <3>2. QED
      BY <1>6, <3>1
  <2>2. /\ KindAt(pos) = v[1]
        /\ read_head(pos) = Got(IF Container(v) THEN Len(v[2]) ELSE v[2], next.end)
    BY <1>2, <1>5, <1>6, <1>7, <1>9, <1>10, <1>12, <2>1, ReadAtMark
  <2>3. /\ read_head(pos).next = next.end
        /\ read_head(pos).what = IF Container(v) THEN Len(v[2]) ELSE v[2]
    BY <2>2 DEF Got
  <2>4. pos' = next.end /\ ending' = "no"
    BY <1>1, <1>12, <2>3
  <2>5. CASE Container(v)
    <3>1. frames' = Append(frames, Frame(v[1], Len(v[2]))) /\ loaded' = loaded
      BY <1>1, <1>12, <2>2, <2>3, <2>5 DEF Container
    <3>2. IsStack(frames')
      BY <1>2, <3>1, StackMoves
    <3>3. Reader(Values, written, frames', pos', loaded', h[k + 1])
      BY <1>10, <2>1, <2>4, <2>5, <3>1
    <3>4. QED
      BY <1>1, <1>2, <1>3, <2>1, <2>4, <3>1, <3>2, <3>3, ReadsOn
  <2>6. CASE ~Container(v)
    <3>1. Delivered(<<v[1], v[2]>>, frames)
      BY <1>1, <1>12, <2>2, <2>3, <2>6 DEF Container
    <3>2. v = <<v[1], v[2]>>
      <4>1. v[1] # "path"
        BY <1>5, <2>1 DEF Wrote
      <4>2. \/ v = <<"none", 0>>
            \/ v = <<"int", v[2]>> \/ v = <<"bool", v[2]>> \/ v = <<v[1], v[2]>>
            \/ v[1] = "block" \/ v[1] = "context"
        BY <1>10, <4>1, ValueKinds
      <4>3. v = <<"none", 0>> => v[1] = "none" /\ v[2] = 0
        OBVIOUS
      <4>4. \A a, b : v = <<a, b>> => v[1] = a /\ v[2] = b
        OBVIOUS
      <4>5. QED
        BY <2>6, <4>2, <4>3, <4>4 DEF Container
    <3>3. Delivered(v, frames)
      BY <3>1, <3>2
    <3>4. CASE frames = << >>
      <4>1. loaded' = Append(loaded, v) /\ frames' = << >>
        BY <3>3, <3>4 DEF Delivered
      <4>2. AsSaved(Values, loaded', written) /\ Len(loaded') = Len(loaded) + 1
        BY <1>2, <1>10, <2>6, <3>4, <4>1, OneMoreAsSaved
      <4>3. Reader(Values, written, frames', pos', loaded', h[k + 1])
        BY <1>10, <2>1, <2>4, <2>6, <3>4, <4>1, <4>2
      <4>4. IsStack(frames')
        BY <1>2, <3>4, <4>1
      <4>5. QED
        BY <1>1, <1>2, <1>3, <2>1, <2>4, <4>2, <4>3, <4>4, ReadsOn
    <3>5. CASE frames # << >>
      <4>1. /\ frames' = [frames EXCEPT ![Len(frames)] = Taking(frames[Len(frames)], v)]
            /\ loaded' = loaded
        BY <3>3, <3>5, DeliveredInto
      <4>2. Reader(Values, written, frames', pos', loaded', h[k + 1])
        BY <1>10, <2>1, <2>4, <2>6, <3>5, <4>1
      <4>3. IsStack(frames')
        BY <1>2, <3>5, <4>1, StackMoves
      <4>4. QED
        BY <1>1, <1>2, <1>3, <2>1, <2>4, <4>1, <4>2, <4>3, ReadsOn
    <3>6. QED
      BY <3>4, <3>5
  <2>7. QED
    BY <2>5, <2>6
<1>13. QED
  BY <1>11, <1>12

(* Every step keeps it. *)
LEMMA FormatKeeps ==
  ASSUME NEW Values, Serializable(Values), StreamInvariant(Values),
         [StreamNext(Values)]_streamVars
  PROVE  StreamInvariant(Values)'
<1>1. CASE UNCHANGED streamVars
  <2>1. /\ bytes' = bytes /\ work' = work /\ written' = written /\ failed' = failed /\ pos' = pos
        /\ frames' = frames /\ loaded' = loaded /\ ending' = ending
    BY <1>1 DEF streamVars
  <2>2. PICK h, n :
          /\ Visited(Values, bytes, written, h, n)
          /\ Frontier(bytes, written, work, failed, h[n])
          /\ ending = "no" => \E k \in 0 .. n : Reader(Values, written, frames, pos, loaded, h[k])
    BY DEF StreamInvariant
  <2>3. /\ bytes \in Seq(Byte) /\ written \in Seq(Values) /\ IsStack(frames)
        /\ AsSaved(Values, loaded, written) /\ (ending # "no" => frames = << >>)
    BY DEF StreamInvariant
  <2>4. /\ bytes' \in Seq(Byte) /\ written' \in Seq(Values) /\ IsStack(frames')
        /\ AsSaved(Values, loaded', written') /\ (ending' # "no" => frames' = << >>)
        /\ Visited(Values, bytes', written', h, n)
        /\ Frontier(bytes', written', work', failed', h[n])
        /\ ending' = "no" => \E k \in 0 .. n : Reader(Values, written', frames', pos', loaded', h[k])
    BY <2>1, <2>2, <2>3
  <2>5. QED
    BY <2>4 DEF StreamInvariant
<1>2. CASE \E value \in Values : Save(value)
  BY <1>2, SaveKeeps
<1>3. CASE Visit
  BY <1>3, VisitKeeps
<1>4. CASE VisitPath
  BY <1>4, VisitPathKeeps
<1>5. CASE WriteFails
  BY <1>5, WriteFailsKeeps
<1>6. CASE ReadEnd
  BY <1>6, ReadEndKeeps
<1>7. CASE ReadValue
  BY <1>7, ReadValueKeeps
<1>8. CASE ReadKey
  BY <1>8, ReadKeyKeeps
<1>9. CASE Return
  BY <1>9, ReturnKeeps
<1>10. QED
  BY <1>1, <1>2, <1>3, <1>4, <1>5, <1>6, <1>7, <1>8, <1>9 DEF StreamNext, Read

(* Around is what the frames are nested in. *)
LEMMA AroundIsNested ==
  ASSUME NEW Values, NEW vs, NEW rest, IsStack(frames), frames # << >>,
         Nested(Values, written[Len(loaded) + 1], frames, vs, rest)
  PROVE  \A d \in 1 .. Len(frames) : Around[d] = vs[d]
<1> DEFINE n == Len(frames)
           Body(g) == [depth \in 1 .. n |->
                         IF depth = 1 THEN written[Len(loaded) + 1]
                         ELSE Child(g[depth - 1], Len(frames[depth - 1].items) + 1)]
<1>1. n \in Nat /\ n >= 1
  BY StackMoves
<1>2. Around = CHOOSE g : g = Body(g)
  BY DEF Around
<1>3. vs = Body(vs)
  <2>1. /\ vs = [d \in 1 .. n |-> vs[d]] /\ vs[1] = written[Len(loaded) + 1]
        /\ \A d \in 1 .. n - 1 : vs[d + 1] = Child(vs[d], Len(frames[d].items) + 1)
    BY DEF Nested
  <2>2. ASSUME NEW d \in 1 .. n PROVE vs[d] = Body(vs)[d]
    <3>1. CASE d = 1
      BY <2>1, <3>1
    <3>2. CASE d # 1
      <4>1. PICK e : e = d - 1
        OBVIOUS
      <4>2. e \in 1 .. n - 1 /\ e + 1 = d
        BY <1>1, <3>2, <4>1
      <4>3. vs[d] = Child(vs[e], Len(frames[e].items) + 1)
        BY <2>1, <4>2
      <4>4. Body(vs)[d] = Child(vs[d - 1], Len(frames[d - 1].items) + 1)
        BY <3>2
      <4>5. QED
        BY <4>1, <4>3, <4>4
    <3>3. QED
      BY <3>1, <3>2
  <2>3. Body(vs) = [d \in 1 .. n |-> Body(vs)[d]]
    OBVIOUS
  <2> HIDE DEF Body
  <2>4. QED
    BY <2>1, <2>2, <2>3
<1>4. Around = Body(Around)
  <2> HIDE DEF Body
  <2>1. QED
    BY <1>2, <1>3
<1>5. ASSUME NEW g, g = Body(g) PROVE \A d \in 1 .. n : g[d] = vs[d]
  <2>1. DEFINE Wrong == {d \in 1 .. n : g[d] # vs[d]}
  <2>2. SUFFICES ASSUME Wrong # {} PROVE FALSE
    OBVIOUS
  <2>3. PICK d \in Wrong : \A e \in Wrong : d =< e
    <3>1. Wrong \in SUBSET Nat
      OBVIOUS
    <3> HIDE DEF Wrong
    <3>2. QED
      BY <2>2, <3>1, LeastOf
  <2>4. d \in 1 .. n /\ g[d] # vs[d]
    BY <2>3
  <2>5. CASE d = 1
    <3>1. g[1] = written[Len(loaded) + 1] /\ vs[1] = written[Len(loaded) + 1]
      <4>1. Body(g)[1] = written[Len(loaded) + 1] /\ Body(vs)[1] = written[Len(loaded) + 1]
        BY <1>1
      <4> HIDE DEF Body
      <4>2. QED
        BY <1>3, <1>5, <4>1
    <3>2. QED
      BY <2>4, <2>5, <3>1
  <2>6. CASE d # 1
    <3>1. PICK e : e = d - 1
      OBVIOUS
    <3>2. e \in 1 .. n /\ ~(d =< e)
      BY <1>1, <2>4, <2>6, <3>1
    <3>3. g[e] = vs[e]
      BY <2>3, <3>2
    <3>4. /\ Body(g)[d] = Child(g[d - 1], Len(frames[d - 1].items) + 1)
          /\ Body(vs)[d] = Child(vs[d - 1], Len(frames[d - 1].items) + 1)
      BY <2>4, <2>6
    <3> HIDE DEF Body
    <3>5. g[d] = Child(g[e], Len(frames[e].items) + 1) /\ vs[d] = Child(vs[e], Len(frames[e].items) + 1)
      BY <1>3, <1>5, <3>1, <3>4
    <3>6. QED
      BY <2>4, <3>3, <3>5
  <2>7. QED
    BY <2>5, <2>6
<1> HIDE DEF Body
<1>6. QED
  BY <1>4, <1>5

LEMMA InvariantLoads ==
  ASSUME NEW Values, Serializable(Values), StreamInvariant(Values)
  PROVE  LoadsWhatWasSaved
<1>1. /\ written \in Seq(Values) /\ IsStack(frames) /\ AsSaved(Values, loaded, written)
      /\ ending # "no" => frames = << >>
  BY DEF StreamInvariant
<1>2. IsPrefix(loaded, written)
  <2>1. PICK l : l = Len(loaded)
    OBVIOUS
  <2>2. /\ loaded \in Seq(Values) /\ l \in Nat /\ l =< Len(written)
        /\ Len(written) \in Nat /\ \A i \in 1 .. l : loaded[i] = written[i]
    BY <1>1, <2>1, LenProperties DEF AsSaved
  <2>3. SubSeq(loaded, 1, l) = loaded
    BY <2>1, <2>2, SubSeqFull
  <2>4. SubSeq(written, 1, l) = loaded
    <3>1. \A i \in 1 .. l : i \in 1 .. Len(written)
      BY <2>2
    <3>2. 1 \in Int /\ l \in Int /\ \A i \in 1 .. l : written[i] \in Values
      BY <1>1, <2>2, <3>1, ElementOfSeq
    <3>3. PICK s : s = SubSeq(written, 1, l)
      OBVIOUS
    <3>4. /\ s \in Seq(Values) /\ Len(s) = (IF 1 =< l THEN l - 1 + 1 ELSE 0)
          /\ \A i \in 1 .. l - 1 + 1 : s[i] = written[1 + i - 1]
      BY <3>2, <3>3, SubSeqProperties
    <3>5. l - 1 + 1 = l /\ (~(1 =< l) => l = 0) /\ \A i \in Int : 1 + i - 1 = i
      BY <2>2
    <3>6. Len(s) = l /\ \A i \in 1 .. l : s[i] = loaded[i]
      BY <2>2, <3>4, <3>5
    <3>7. QED
      BY <2>1, <2>2, <3>3, <3>4, <3>6, SameElements
  <2>5. QED
    BY <2>1, <2>2, <2>3, <2>4 DEF IsPrefix
<1>3. ASSUME frames # << >>
      PROVE  Len(loaded) < Len(written) /\ \A depth \in DOMAIN frames : Begins(frames[depth], Around[depth])
  <2>1. PICK h, n :
          /\ Visited(Values, bytes, written, h, n)
          /\ \E k \in 0 .. n : Reader(Values, written, frames, pos, loaded, h[k])
    BY <1>1, <1>3 DEF StreamInvariant
  <2>2. PICK k \in 0 .. n : Reader(Values, written, frames, pos, loaded, h[k])
    BY <2>1
  <2>3. PICK m : m = h[k]
    OBVIOUS
  <2>4. m.begun \in Nat /\ m.begun =< Len(written)
    BY <2>1, <2>3 DEF Visited, IsMark
  <2>5. Len(loaded) + 1 = m.begun /\ Within(Values, written[Len(loaded) + 1], frames, m.work)
    BY <1>3, <2>2, <2>3 DEF Reader
  <2>6. Len(loaded) < Len(written)
    <3>1. Len(loaded) \in Nat /\ Len(written) \in Nat
      BY <1>1, LenProperties DEF AsSaved
    <3>2. QED
      BY <2>4, <2>5, <3>1
  <2>7. PICK vs, rest : Nested(Values, written[Len(loaded) + 1], frames, vs, rest)
    BY <2>5 DEF Within
  <2>8. ASSUME NEW d \in DOMAIN frames PROVE Begins(frames[d], Around[d])
    <3>1. d \in 1 .. Len(frames)
      BY <1>1, StackMoves
    <3>2. Around[d] = vs[d]
      BY <1>1, <1>3, <2>7, <3>1, AroundIsNested
    <3>3. FrameOf(frames[d], vs[d])
      BY <2>7, <3>1 DEF Nested
    <3>4. PICK f, v : f = frames[d] /\ v = vs[d]
      OBVIOUS
    <3>5. /\ f.kind = v[1] /\ Len(f.items) + f.left = Len(v[2])
          /\ f.items = SubSeq(v[2], 1, Len(f.items))
          /\ f.key # << >> => f.key = <<v[2][Len(f.items) + 1][1]>>
      BY <3>3, <3>4 DEF FrameOf
    <3>6. f.key # << >> => f.key[1] = v[2][Len(f.items) + 1][1]
      BY <3>5
    <3>7. Begins(f, v)
      BY <3>5, <3>6 DEF Begins
    <3>8. QED
      BY <3>2, <3>4, <3>7
  <2>9. QED
    BY <2>6, <2>8
<1>4. QED
  BY <1>2, <1>3 DEF LoadsWhatWasSaved

(* Whatever values are saved, and however the writer fails, what is loaded *)
(* is what was saved, value by value, and what is being loaded is the      *)
(* beginning of the value saved at that place. *)
THEOREM LoadsAlways ==
  ASSUME NEW CONSTANT Values, Serializable(Values)
  PROVE  StreamSpec(Values) => []LoadsWhatWasSaved
<1>1. StreamInit => StreamInvariant(Values)
  BY StreamStarts
<1>2. StreamInvariant(Values) /\ [StreamNext(Values)]_streamVars => StreamInvariant(Values)'
  BY FormatKeeps
<1>3. StreamInvariant(Values) => LoadsWhatWasSaved
  BY InvariantLoads
<1>4. QED
  BY <1>1, <1>2, <1>3, PTL DEF StreamSpec

-----------------------------------------------------------------------------
(* The NaN-boxed values of rebeldb and rebeldb-core, bit by bit.  A value  *)
(* is a number of 64 bits: a sign, eleven bits of exponent that are all    *)
(* set, and 52 bits of fraction that hold a tag and a payload.  There are  *)
(* two layouts.  In crates/rebeldb/src/boxed.rs and crates/rebeldb-core/   *)
(* src/value.rs bit 51 is set and 47 bits of payload hold a number in      *)
(* two's complement; in crates/rebeldb/src/value.rs the payload has 48     *)
(* bits, and the sign of a number is the sign of the word.                 *)
(*                                                                         *)
(* These widths are beyond what TLC counts to: what holds of them is       *)
(* proved.  A mask is the remainder of a division, a shift to the right    *)
(* its quotient, and bits that are or-ed into a place of their own are     *)
(* added.                                                                  *)

Two32 == 4294967296
Two46 == 70368744177664
Two47 == 140737488355328
Two48 == 281474976710656
Two51 == 2251799813685248
Two52 == 4503599627370496

Ok(v)  == [ok |-> TRUE, value |-> v]
Failed == [ok |-> FALSE, value |-> 0]    \* the assertion or the error

Exponents == 2047 * Two52         \* EXP_MASK, bits 62..52

Exponent(w) == (w \div Two52) % 2048
Fraction(w) == w % Two52
Address(w)  == w % Two32            \* as u32

-----------------------------------------------------------------------------
(* boxed.rs and rebeldb-core: bit 51, four bits of tag, 47 of payload.     *)

TagInt == 0
TagPtr == 1

Boxed(tag, payload) ==
  Exponents + Two51 + tag * Two47 + payload

BoxTag(w)      == (w \div Two47) % 16
TopOf(w)      == (w \div Two51) % 2
PayloadOf(w)  == w % Two47
IsBoxed(w, tag) == Exponent(w) = 2047 /\ TopOf(w) = 1 /\ BoxTag(w) = tag

(* Shifted up and down again: the low 47 bits, and their sign. *)
Low47(v)    == v % Two47
Signed(p)   == IF p < Two46 THEN p ELSE p - Two47

(* BoxedValue of boxed.rs; new_int panics outside of its range. *)
NewInt(v) ==
  IF -Two46 =< v /\ v =< Two46 - 1 THEN Ok(Boxed(TagInt, Low47(v))) ELSE Failed
AsInt(w)  == IF IsBoxed(w, TagInt) THEN Ok(Signed(PayloadOf(w))) ELSE Failed
NewPtr(a) == Boxed(TagPtr, a)
AsPtr(w)  == IF IsBoxed(w, TagPtr) THEN Ok(Address(PayloadOf(w))) ELSE Failed

(* Value of rebeldb-core.  new_int takes numbers of 47 bits without sign;  *)
(* a pointer has fifteen bits beside its address, the length of a string.  *)
CoreNewInt(v) ==
  IF -Two46 =< v /\ v =< Two47 - 1 THEN Ok(Boxed(TagInt, Low47(v))) ELSE Failed
CoreNewPtr(tag, high, a) == Boxed(tag, Low47(high * Two32 + a))
HighBits(w)  == (PayloadOf(w) \div Two32) % 65536

-----------------------------------------------------------------------------
(* value.rs of rebeldb: four bits of tag, 48 of payload.                   *)

SignBit(v)    == IF v < 0 THEN 1 ELSE 0
Wide(sign, tag, payload) == (sign * 2048 + 2047) * Two52 + (tag * Two48 + payload)
Magnitude(v)  == IF v < 0 THEN -v ELSE v
IsNegative(w) == ((w \div Two52) \div 2048) % 2 = 1
WideTag(w)    == (w \div Two48) % 16
IsWide(w, tag) == Exponent(w) = 2047 /\ Fraction(w) # 0 /\ WideTag(w) = tag

WideNewInt(v) ==
  IF Magnitude(v) < Two48
  THEN Ok(Wide(SignBit(v), TagInt, Magnitude(v))) ELSE Failed
WideAsInt(w) ==
  IF IsWide(w, TagInt)
  THEN Ok(IF IsNegative(w) THEN -(w % Two48) ELSE w % Two48) ELSE Failed
WideNewPtr(a) == Wide(0, TagPtr, a)
WideAsPtr(w)  == IF IsWide(w, TagPtr) THEN Ok(Address(Fraction(w))) ELSE Failed

-----------------------------------------------------------------------------
(* A word that was boxed is read by its own tag and by no other, and its   *)
(* payload comes back: tag and payload do not run into one another, nor    *)
(* into the exponent. *)
LEMMA BoxedReadsBack ==
  ASSUME NEW tag \in Int, 0 =< tag, tag =< 15,
         NEW p \in Int, 0 =< p, p < Two47
  PROVE  /\ PayloadOf(Boxed(tag, p)) = p
         /\ \A other \in Int : IsBoxed(Boxed(tag, p), other) <=> other = tag
<1> DEFINE w == Boxed(tag, p)
<1>1. PayloadOf(w) = p
  BY SMT DEF PayloadOf, Boxed, Exponents, Two32, Two46, Two47, Two48, Two51, Two52
<1>2. BoxTag(w) = tag
  BY SMT DEF BoxTag, Boxed, Exponents, Two32, Two46, Two47, Two48, Two51, Two52
<1>3. TopOf(w) = 1
  BY SMT DEF TopOf, Boxed, Exponents, Two32, Two46, Two47, Two48, Two51, Two52
<1>4. Exponent(w) = 2047
  BY SMT DEF Exponent, Boxed, Exponents, Two32, Two46, Two47, Two48, Two51, Two52
<1> QED
  BY <1>1, <1>2, <1>3, <1>4 DEF IsBoxed

LEMMA Low47Range ==
  ASSUME NEW v \in Int
  PROVE  Low47(v) \in Int /\ 0 =< Low47(v) /\ Low47(v) < Two47
BY SMT DEF Low47, Two32, Two46, Two47, Two48, Two51, Two52

(* boxed.rs: every number new_int takes comes back from as_int, and no     *)
(* number is read as a pointer. *)
THEOREM IntsComeBack ==
  ASSUME NEW v \in Int, -Two46 =< v, v =< Two46 - 1
  PROVE  /\ NewInt(v).ok
         /\ AsInt(NewInt(v).value) = Ok(v)
         /\ AsPtr(NewInt(v).value) = Failed
<1> DEFINE w == Boxed(TagInt, Low47(v))
<1>1. NewInt(v).ok /\ NewInt(v).value = w
  BY DEF NewInt, Ok
<1>2. PayloadOf(w) = Low47(v) /\ IsBoxed(w, TagInt) /\ ~IsBoxed(w, TagPtr)
  BY BoxedReadsBack, Low47Range, SMT DEF TagInt, TagPtr
<1>3. Signed(Low47(v)) = v
  BY SMT DEF Signed, Low47, Two32, Two46, Two47, Two48, Two51, Two52
<1> QED
  BY <1>1, <1>2, <1>3 DEF AsInt, AsPtr

(* boxed.rs: every address comes back, and none is read as a number. *)
THEOREM PointersComeBack ==
  ASSUME NEW a \in Int, 0 =< a, a < Two32
  PROVE  AsPtr(NewPtr(a)) = Ok(a) /\ AsInt(NewPtr(a)) = Failed
<1>1. a < Two47
  BY SMT DEF Two32, Two47
<1>2. PayloadOf(NewPtr(a)) = a /\ IsBoxed(NewPtr(a), TagPtr) /\ ~IsBoxed(NewPtr(a), TagInt)
  BY <1>1, BoxedReadsBack, SMT DEF NewPtr, TagInt, TagPtr
<1>3. Address(a) = a
  BY SMT DEF Address, Two32, Two46, Two47, Two48, Two51, Two52
<1> QED
  BY <1>2, <1>3 DEF AsPtr, AsInt

(* rebeldb-core: the numbers from 2^46 on are taken and come back 2^47     *)
(* smaller; those the comment on new_int names come back as they are. *)
THEOREM HighIntsComeBackNegative ==
  ASSUME NEW v \in Int, -Two46 =< v, v =< Two47 - 1
  PROVE  /\ CoreNewInt(v).ok
         /\ AsInt(CoreNewInt(v).value) = Ok(IF v < Two46 THEN v ELSE v - Two47)
<1> DEFINE w == Boxed(TagInt, Low47(v))
<1>1. CoreNewInt(v).ok /\ CoreNewInt(v).value = w
  BY DEF CoreNewInt, Ok
<1>2. PayloadOf(w) = Low47(v) /\ IsBoxed(w, TagInt)
  BY BoxedReadsBack, Low47Range, SMT DEF TagInt
<1>3. Signed(Low47(v)) = IF v < Two46 THEN v ELSE v - Two47
  BY SMT DEF Signed, Low47, Two32, Two46, Two47, Two48, Two51, Two52
<1> QED
  BY <1>1, <1>2, <1>3 DEF AsInt

(* rebeldb-core: a string, word, block or context keeps its address and    *)
(* the fifteen bits beside it, and is verified by its own tag only. *)
THEOREM LongPointersComeBack ==
  ASSUME NEW tag \in Int, 0 =< tag, tag =< 15,
         NEW high \in Int, 0 =< high, high < 32768,
         NEW a \in Int, 0 =< a, a < Two32
  PROVE  /\ Address(CoreNewPtr(tag, high, a)) = a
         /\ HighBits(CoreNewPtr(tag, high, a)) = high
         /\ \A other \in Int : IsBoxed(CoreNewPtr(tag, high, a), other) <=> other = tag
<1> DEFINE p == high * Two32 + a
<1>1. p \in Int /\ 0 =< p /\ p < Two47
  BY SMT DEF Two32, Two46, Two47, Two48, Two51, Two52
<1>2. Low47(p) = p
  BY <1>1, SMT DEF Low47, Two32, Two46, Two47, Two48, Two51, Two52
<1>3. CoreNewPtr(tag, high, a) = Boxed(tag, p)
  BY <1>2 DEF CoreNewPtr
<1>4. /\ PayloadOf(Boxed(tag, p)) = p
      /\ \A other \in Int : IsBoxed(Boxed(tag, p), other) <=> other = tag
  BY <1>1, BoxedReadsBack
<1>5. (p \div Two32) % 65536 = high
  BY SMT DEF Two32, Two46, Two47, Two48, Two51, Two52
<1>6. Address(Boxed(tag, p)) = a
  BY SMT DEF Address, Boxed, Exponents, Two32, Two46, Two47, Two48, Two51, Two52
<1> QED
  BY <1>3, <1>4, <1>5, <1>6 DEF HighBits

(* value.rs of rebeldb: sign, tag and payload each come out of the word as *)
(* they went in. *)
LEMMA WideReadsBack ==
  ASSUME NEW sign \in Int, sign = 0 \/ sign = 1, NEW tag \in Int, tag = 0 \/ tag = 1,
         NEW p \in Int, 0 =< p, p < Two48
  PROVE  LET w == Wide(sign, tag, p)
         IN  /\ Exponent(w) = 2047 /\ WideTag(w) = tag /\ w % Two48 = p
             /\ Fraction(w) = tag * Two48 + p
             /\ (IsNegative(w) <=> sign = 1)
<1> DEFINE f == tag * Two48 + p
           w == (sign * 2048 + 2047) * Two52 + f
<1>1. f \in Int /\ 0 =< f /\ f < Two52
  BY SMT DEF Two48, Two52
<1>2. w \div Two52 = sign * 2048 + 2047 /\ w % Two52 = f
  BY <1>1, SMT DEF Two52
<1>3. (sign * 2048 + 2047) % 2048 = 2047 /\ ((sign * 2048 + 2047) \div 2048) % 2 = sign
  BY SMT
<1>4. w % Two48 = p
  BY SMT DEF Two48, Two52
<1>5. (w \div Two48) % 16 = tag
  BY SMT DEF Two48, Two52
<1> QED
  BY <1>2, <1>3, <1>4, <1>5 DEF Wide, Exponent, WideTag, Fraction, IsNegative

(* value.rs of rebeldb: every number but zero comes back, up to 48 bits of *)
(* magnitude; zero is boxed as an infinity, which as_int refuses. *)
THEOREM OnlyZeroIsLost ==
  ASSUME NEW v \in Int, -Two48 < v, v < Two48
  PROVE  /\ WideNewInt(v).ok
         /\ WideAsInt(WideNewInt(v).value) = IF v = 0 THEN Failed ELSE Ok(v)
<1> DEFINE m == Magnitude(v)
           w == Wide(SignBit(v), TagInt, m)
<1>1. m \in Int /\ 0 =< m /\ m < Two48 /\ (m = 0 <=> v = 0) /\ v = IF v < 0 THEN -m ELSE m
  BY SMT DEF Magnitude, Two48
<1>2. WideNewInt(v).ok /\ WideNewInt(v).value = w
  BY <1>1 DEF WideNewInt, Ok
<1>3. SignBit(v) \in Int /\ (SignBit(v) = 0 \/ SignBit(v) = 1) /\ (SignBit(v) = 1 <=> v < 0)
  BY SMT DEF SignBit
<1> HIDE DEF m
<1>4. /\ Exponent(w) = 2047 /\ Fraction(w) = m /\ WideTag(w) = 0
      /\ w % Two48 = m /\ (IsNegative(w) <=> v < 0)
  BY <1>1, <1>3, WideReadsBack, SMT DEF TagInt, Two48
<1>5. IsWide(w, TagInt) <=> v # 0
  BY <1>1, <1>4 DEF IsWide, TagInt
<1> QED
  BY <1>1, <1>2, <1>4, <1>5 DEF WideAsInt

(* value.rs of rebeldb: every address comes back, and none is read as a    *)
(* number. *)
THEOREM WidePointersComeBack ==
  ASSUME NEW a \in Int, 0 =< a, a < Two32
  PROVE  WideAsPtr(WideNewPtr(a)) = Ok(a) /\ WideAsInt(WideNewPtr(a)) = Failed
<1> DEFINE w == Wide(0, TagPtr, a)
<1>1. a < Two48
  BY SMT DEF Two32, Two48
<1>2. Exponent(w) = 2047 /\ WideTag(w) = 1 /\ Fraction(w) = Two48 + a
  BY <1>1, WideReadsBack, SMT DEF TagPtr, Two48
<1>3. Two48 + a # 0 /\ Address(Two48 + a) = a
  BY SMT DEF Address, Two32, Two48
<1>4. TagInt # TagPtr /\ TagPtr = 1
  BY SMT DEF TagInt, TagPtr
<1> QED
  BY <1>2, <1>3, <1>4 DEF WideNewPtr, WideAsPtr, WideAsInt, IsWide
=============================================================================
