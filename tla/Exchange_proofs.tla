--------------------------- MODULE Exchange_proofs ---------------------------
(***************************************************************************)
(* Proofs about Exchange: what the frames of pkg/contract carry, whatever  *)
(* the objects they are read into held; the types of its state; and that   *)
(* every call gets its own answer, byte for byte, and the calls are those  *)
(* of AtMostOnce, each handled once at most and whole: for any number of   *)
(* callers, pooled objects and contexts, and messages of any length.       *)
(***************************************************************************)
EXTENDS Exchange, SequenceTheorems, TLAPS

(* What SubSeq returns of a sequence of bytes.                             *)
LEMMA Part ==
  ASSUME NEW s \in Seq(Byte), NEW m \in Nat \ {0}, NEW n \in 0..Len(s)
  PROVE  /\ SubSeq(s, m, n) \in Seq(Byte)
         /\ Len(SubSeq(s, m, n)) = IF m <= n THEN n - m + 1 ELSE 0
         /\ \A i \in 1..(n - m + 1) : SubSeq(s, m, n)[i] = s[m + i - 1]
<1>1. Len(s) \in Nat /\ \A i \in 1..Len(s) : s[i] \in Byte
  BY LenProperties, ElementOfSeq
<1>2. \A i \in m..n : s[i] \in Byte
  BY <1>1
<1>3. m \in Int /\ n \in Int
  BY <1>1
<1> QED
  BY <1>2, <1>3, SubSeqProperties

(* What is written over a buffer is there, and the buffer is no shorter.   *)
LEMMA OverFacts ==
  ASSUME NEW buf \in Seq(Byte), NEW bytes \in Seq(Byte)
  PROVE  /\ Over(buf, bytes) \in Seq(Byte)
         /\ Len(Over(buf, bytes)) = IF Len(buf) < Len(bytes) THEN Len(bytes) ELSE Len(buf)
         /\ \A i \in 1..Len(bytes) : Over(buf, bytes)[i] = bytes[i]
<1> DEFINE rest == SubSeq(buf, Len(bytes) + 1, Len(buf))
<1>1. Len(buf) \in Nat /\ Len(bytes) \in Nat
  BY LenProperties
<1>2. /\ rest \in Seq(Byte)
      /\ Len(rest) = IF Len(bytes) + 1 <= Len(buf) THEN Len(buf) - Len(bytes) ELSE 0
  BY <1>1, Part
<1>3. Over(buf, bytes) = bytes \o rest
  BY DEF Over
<1> HIDE DEF rest
<1>4. /\ bytes \o rest \in Seq(Byte)
      /\ Len(bytes \o rest) = Len(bytes) + Len(rest)
      /\ \A i \in 1..(Len(bytes) + Len(rest)) :
           (bytes \o rest)[i] = IF i <= Len(bytes) THEN bytes[i] ELSE rest[i - Len(bytes)]
  BY <1>2, ConcatProperties
<1> QED
  BY <1>1, <1>2, <1>3, <1>4

(* A size takes four bytes and is read back as it was.                     *)
LEMMA Size ==
  ASSUME NEW n \in Nat, n <= MaxBytesSize
  PROVE  /\ AppendUint32(n) \in Seq(Byte) /\ Len(AppendUint32(n)) = 4
         /\ \A b : (\A i \in 1..4 : b[i] = AppendUint32(n)[i]) => Bytes2Uint32(b) = n
<1> DEFINE b1 == n % 256
           b2 == (n \div 256) % 256
           b3 == (n \div 65536) % 256
           b4 == n \div 16777216
<1>1. b1 \in 0..255 /\ b2 \in 0..255 /\ b3 \in 0..255
  BY SMT
<1>2. b4 \in 0..255
  BY SizesAssumption, SMT DEF SizesAssumption
<1>3. b1 + 256 * b2 + 65536 * b3 + 16777216 * b4 - n = 0
  BY SMT
<1>4. AppendUint32(n) = <<b1, b2, b3, b4>>
  BY SMT DEF AppendUint32
<1> HIDE DEF b1, b2, b3, b4
<1>5. AppendUint32(n) \in Seq(Byte) /\ Len(AppendUint32(n)) = 4
  BY <1>1, <1>2, <1>4, SMT DEF Byte
<1>6. ASSUME NEW b, \A i \in 1..4 : b[i] = AppendUint32(n)[i] PROVE Bytes2Uint32(b) = n
  <2>1. b[1] = b1 /\ b[2] = b2 /\ b[3] = b3 /\ b[4] = b4
    BY <1>4, <1>6, SMT
  <2> QED
    BY <1>1, <1>2, <1>3, <2>1, SMT DEF Bytes2Uint32
<1> QED
  BY <1>5, <1>6, SMT

LEMMA GrownFacts ==
  ASSUME NEW buf \in Seq(Byte), NEW n \in Nat
  PROVE  Grown(buf, n) \in Seq(Byte) /\ Len(Grown(buf, n)) >= n
<1>1. CASE Len(buf) < n
  <2> DEFINE zeros == [i \in 1..n |-> 0]
  <2>1. zeros \in [1..n -> Byte]
    BY DEF Byte
  <2>2. zeros \in Seq(Byte)
    BY <2>1, SeqDef
  <2>3. Len(zeros) = n
    OBVIOUS
  <2> QED
    BY <1>1, <2>2, <2>3 DEF Grown
<1>2. CASE ~(Len(buf) < n)
  BY <1>2, LenProperties DEF Grown
<1> QED
  BY <1>1, <1>2

LEMMA ValueFacts ==
  ASSUME NEW o \in TLV, Fits(o)
  PROVE  /\ Value(o) \in Seq(Byte) /\ Len(Value(o)) = o.len
         /\ \A i \in 1..o.len : Value(o)[i] = o.buf[i]
<1>1. o.buf \in Seq(Byte) /\ o.len \in 0..Len(o.buf) /\ o.len \in Nat
  BY DEF TLV, Fits
<1> QED
  BY <1>1, Part DEF Value

LEMMA UintType ==
  ASSUME NEW in \in Seq(Byte), Len(in) >= 4
  PROVE  Bytes2Uint32(in) \in Nat
<1>0. Len(in) \in Nat
  BY LenProperties
<1>1. \A i \in 1..4 : i \in 1..Len(in)
  BY <1>0, SMT
<1>2. \A i \in 1..Len(in) : in[i] \in Byte
  BY ElementOfSeq
<1>3. in[1] \in Byte /\ in[2] \in Byte /\ in[3] \in Byte /\ in[4] \in Byte
  BY <1>1, <1>2
<1>4. \A i \in Byte : i \in Nat
  BY DEF Byte
<1>5. in[1] \in Nat /\ in[2] \in Nat /\ in[3] \in Nat /\ in[4] \in Nat
  BY <1>3, <1>4
<1>6. Bytes2Uint32(in) = in[1] + 256 * in[2] + 65536 * in[3] + 16777216 * in[4]
  BY DEF Bytes2Uint32
<1>7. PICK b1, b2, b3, b4 \in Nat :
        in[1] = b1 /\ in[2] = b2 /\ in[3] = b3 /\ in[4] = b4
  BY ONLY <1>5
<1>8. b1 + 256 * b2 + 65536 * b3 + 16777216 * b4 \in Nat
  BY ONLY SMT
<1> QED
  BY ONLY <1>6, <1>7, <1>8

(* Reading whatever is there leaves an object whose length its buffer has  *)
(* (common.go:28-46).                                                      *)
LEMMA ReadBytesType ==
  ASSUME NEW o \in TLV, Fits(o), NEW in \in Seq(Byte)
  PROVE  /\ ReadBytes(o, in).o \in TLV /\ Fits(ReadBytes(o, in).o)
         /\ ReadBytes(o, in).o.head = o.head /\ ReadBytes(o, in).err \in BOOLEAN
<1> DEFINE size == Bytes2Uint32(in)
           buf == Over(Grown(o.buf, size), Body(in, size))
<1>0. o.buf \in Seq(Byte) /\ o.head \in Byte /\ Len(in) \in Nat
  BY LenProperties DEF TLV
<1>1. CASE Len(in) < 4 \/ size > MaxBytesSize
  <2> DEFINE new == [o EXCEPT !.len = 0]
  <2>1. ReadBytes(o, in) = [o |-> new, err |-> TRUE]
    BY <1>1 DEF ReadBytes, Refused
  <2>2. new \in TLV /\ Fits(new) /\ new.head = o.head
    BY <1>0 DEF TLV, Fits
  <2> HIDE DEF new
  <2> QED
    BY <2>1, <2>2
<1>2. CASE ~(Len(in) < 4 \/ size > MaxBytesSize)
  <2> DEFINE new == [o EXCEPT !.buf = buf, !.len = size]
  <2>1. size \in Nat
    <3>1. Len(in) >= 4
      BY <1>0, <1>2
    <3> QED
      BY <3>1, UintType
  <2>2. ReadBytes(o, in) = [o |-> new, err |-> Len(in) < 4 + size]
    BY <1>2 DEF ReadBytes
  <2>3. Body(in, size) \in Seq(Byte)
    <3>1. (IF Len(in) < 4 + size THEN Len(in) ELSE 4 + size) \in 0..Len(in)
      BY <1>0, <2>1
    <3> QED
      BY <3>1, Part DEF Body
  <2> HIDE DEF size
  <2>4. Grown(o.buf, size) \in Seq(Byte) /\ Len(Grown(o.buf, size)) >= size
    BY <1>0, <2>1, GrownFacts
  <2>5. buf \in Seq(Byte) /\ Len(buf) >= size
    <3>1. Len(Grown(o.buf, size)) \in Nat /\ Len(Body(in, size)) \in Nat
      BY <2>3, <2>4, LenProperties
    <3> QED
      BY <2>1, <2>3, <2>4, <3>1, OverFacts
  <2> HIDE DEF buf
  <2>6. new \in TLV /\ Fits(new) /\ new.head = o.head
    BY <1>0, <2>1, <2>5 DEF TLV, Fits
  <2> HIDE DEF new
  <2> QED
    BY <2>2, <2>6
<1> QED
  BY <1>1, <1>2

(* A value that is there is read as it was written, over whatever the      *)
(* buffer held; one that is not there whole is an error.                   *)
Holds(in, v, k) ==
  /\ \A i \in 1..4 : i <= k => in[i] = AppendUint32(Len(v))[i]
  /\ \A i \in 1..Len(v) : 4 + i <= k => in[4 + i] = v[i]

LEMMA ReadBytesWhole ==
  ASSUME NEW o \in TLV, Fits(o), NEW in \in Seq(Byte), NEW v \in Seq(Byte),
         Len(v) <= MaxBytesSize, Len(in) >= 4 + Len(v), Holds(in, v, 4 + Len(v))
  PROVE  ~ReadBytes(o, in).err /\ Value(ReadBytes(o, in).o) = v
<1> DEFINE size == Bytes2Uint32(in)
           buf == Over(Grown(o.buf, size), Body(in, size))
           new == [o EXCEPT !.buf = buf, !.len = size]
<1>0. /\ Len(v) \in Nat /\ Len(in) \in Nat /\ o.buf \in Seq(Byte)
      /\ MaxBytesSize \in Nat
  BY LenProperties, SizesAssumption DEF TLV, SizesAssumption
<1>1. size = Len(v)
  BY <1>0, Size DEF Holds
<1> HIDE DEF size
<1>2. ReadBytes(o, in) = [o |-> new, err |-> Len(in) < 4 + size]
  <2>1. ~(Len(in) < 4 \/ size > MaxBytesSize)
    BY <1>0, <1>1
  <2> QED
    BY <2>1 DEF ReadBytes, size
<1>3. /\ Body(in, size) \in Seq(Byte) /\ Len(Body(in, size)) = Len(v)
      /\ \A i \in 1..Len(v) : Body(in, size)[i] = v[i]
  <2>1. Body(in, size) = SubSeq(in, 5, 4 + Len(v))
    BY <1>0, <1>1 DEF Body
  <2>2. /\ SubSeq(in, 5, 4 + Len(v)) \in Seq(Byte)
        /\ Len(SubSeq(in, 5, 4 + Len(v))) = Len(v)
        /\ \A i \in 1..Len(v) : SubSeq(in, 5, 4 + Len(v))[i] = in[4 + i]
    <3>1. 4 + Len(v) \in 0..Len(in)
      BY <1>0
    <3> QED
      BY <1>0, <3>1, Part
  <2> QED
    BY <1>0, <2>1, <2>2 DEF Holds
<1>4. Grown(o.buf, size) \in Seq(Byte)
  BY <1>0, <1>1, GrownFacts
<1>5. \A i \in 1..Len(v) : buf[i] = v[i]
  BY <1>3, <1>4, OverFacts
<1> HIDE DEF buf
<1>6. new \in TLV /\ Fits(new)
  <2>1. ReadBytes(o, in).o = new
    BY <1>2
  <2> QED
    BY <2>1, ReadBytesType
<1>7. new.len = Len(v) /\ new.buf = buf
  BY <1>1 DEF TLV
<1> HIDE DEF new
<1>8. Value(new) = v
  <2>1. Value(new) \in Seq(Byte) /\ Len(Value(new)) = Len(v)
    BY <1>6, <1>7, ValueFacts
  <2>2. \A i \in 1..Len(v) : Value(new)[i] = v[i]
    BY <1>5, <1>6, <1>7, ValueFacts
  <2> QED
    BY <2>1, <2>2, SeqEqual
<1>9. ReadBytes(o, in).o = new
  BY <1>2
<1>10. ReadBytes(o, in).err = (Len(in) < 4 + size)
  BY <1>2
<1>11. ~(Len(in) < 4 + size)
  BY <1>0, <1>1
<1> QED
  BY <1>8, <1>9, <1>10, <1>11

LEMMA ReadBytesCut ==
  ASSUME NEW o \in TLV, Fits(o), NEW in \in Seq(Byte), NEW v \in Seq(Byte),
         Len(v) <= MaxBytesSize, Len(in) < 4 + Len(v), Holds(in, v, Len(in))
  PROVE  ReadBytes(o, in).err
<1>0. Len(v) \in Nat /\ Len(in) \in Nat
  BY LenProperties
<1>1. CASE Len(in) < 4
  BY <1>1 DEF ReadBytes, Refused
<1>2. CASE Len(in) >= 4
  <2>1. Bytes2Uint32(in) = Len(v)
    BY <1>0, <1>2, Size DEF Holds
  <2> QED
    BY <2>1 DEF ReadBytes, Refused
<1> QED
  BY <1>0, <1>1, <1>2

-----------------------------------------------------------------------------
(* Frames.                                                                 *)

(* What \o returns of sequences of bytes.                                  *)
LEMMA Joined ==
  ASSUME NEW a \in Seq(Byte), NEW b \in Seq(Byte)
  PROVE  /\ a \o b \in Seq(Byte) /\ Len(a \o b) = Len(a) + Len(b)
         /\ \A i \in 1..Len(a) : (a \o b)[i] = a[i]
         /\ \A i \in 1..Len(b) : (a \o b)[Len(a) + i] = b[i]
<1> DEFINE c == a \o b
<1>1. /\ c \in Seq(Byte) /\ Len(c) = Len(a) + Len(b)
      /\ \A i \in 1..(Len(a) + Len(b)) : c[i] = IF i <= Len(a) THEN a[i] ELSE b[i - Len(a)]
  BY ConcatProperties
<1>2. Len(a) \in Nat /\ Len(b) \in Nat
  BY LenProperties
<1> HIDE DEF c
<1>3. \A i \in 1..Len(a) : c[i] = a[i]
  <2>1. \A i \in 1..Len(a) : i \in 1..(Len(a) + Len(b)) /\ i <= Len(a)
    BY <1>2
  <2> QED
    BY <1>1, <2>1
<1>4. \A i \in 1..Len(b) : c[Len(a) + i] = b[i]
  <2>1. \A i \in 1..Len(b) : /\ Len(a) + i \in 1..(Len(a) + Len(b))
                             /\ ~(Len(a) + i <= Len(a)) /\ (Len(a) + i) - Len(a) = i
    BY <1>2
  <2> QED
    BY <1>1, <2>1
<1> QED
  BY <1>1, <1>3, <1>4 DEF c

(* The bytes of a frame that is not refused (common.go:11-26).             *)
LEMMA FrameBytes ==
  ASSUME NEW n \in Byte, NEW w \in TLV, Fits(w), ~Frame(n, w).err
  PROVE  /\ w.len \in Nat /\ w.len <= MaxBytesSize
         /\ Frame(n, w).bytes \in Seq(Byte) /\ Len(Frame(n, w).bytes) = 6 + w.len
         /\ Frame(n, w).bytes[1] = n /\ Frame(n, w).bytes[2] = w.head
         /\ \A i \in 1..4 : Frame(n, w).bytes[2 + i] = AppendUint32(w.len)[i]
         /\ \A i \in 1..w.len : Frame(n, w).bytes[6 + i] = Value(w)[i]
<1> DEFINE v == Value(w)
           sizeBytes == AppendUint32(w.len)
           first == <<n, w.head>>
<1>1. v \in Seq(Byte) /\ Len(v) = w.len /\ w.len \in Nat /\ w.head \in Byte
  BY ValueFacts DEF TLV
<1>2. ~(Len(v) > MaxBytesSize)
  <2>1. Frame(n, w).err = WriteBytes(v).err
    BY DEF Frame, WriteBytes
  <2> QED
    BY <2>1 DEF WriteBytes
<1>3. Frame(n, w).bytes = first \o (sizeBytes \o v)
  BY <1>1, <1>2 DEF Frame, WriteBytes
<1>4. w.len <= MaxBytesSize
  BY <1>1, <1>2, SizesAssumption DEF SizesAssumption
<1>5. sizeBytes \in Seq(Byte) /\ Len(sizeBytes) = 4
  BY <1>1, <1>4, Size
<1>6. first \in Seq(Byte) /\ Len(first) = 2 /\ first[1] = n /\ first[2] = w.head
  BY <1>1
<1> HIDE DEF v, sizeBytes, first
<1> DEFINE tail == sizeBytes \o v
<1>7. /\ tail \in Seq(Byte) /\ Len(tail) = 4 + w.len
      /\ \A i \in 1..4 : tail[i] = sizeBytes[i]
      /\ \A i \in 1..w.len : tail[4 + i] = v[i]
  <2>1. /\ tail \in Seq(Byte) /\ Len(tail) = Len(sizeBytes) + Len(v)
        /\ \A i \in 1..Len(sizeBytes) : tail[i] = sizeBytes[i]
        /\ \A i \in 1..Len(v) : tail[Len(sizeBytes) + i] = v[i]
    BY <1>1, <1>5, Joined
  <2> HIDE DEF tail
  <2> QED
    BY <1>1, <1>5, <2>1
<1> DEFINE f == Frame(n, w).bytes
<1>8. f = first \o tail
  BY <1>3
<1> HIDE DEF tail
<1>9. /\ f \in Seq(Byte) /\ Len(f) = 2 + (4 + w.len)
      /\ \A i \in 1..2 : f[i] = first[i]
      /\ \A i \in 1..(4 + w.len) : f[2 + i] = tail[i]
  <2> DEFINE g == first \o tail
  <2>1. /\ g \in Seq(Byte) /\ Len(g) = Len(first) + Len(tail)
        /\ \A i \in 1..Len(first) : g[i] = first[i]
        /\ \A i \in 1..Len(tail) : g[Len(first) + i] = tail[i]
    BY <1>6, <1>7, Joined
  <2>2. f = g
    BY <1>8
  <2> HIDE DEF f, g
  <2> QED
    BY <1>1, <1>6, <1>7, <2>1, <2>2
<1> HIDE DEF f
<1>10. Len(f) = 6 + w.len
  BY <1>1, <1>9
<1>11. f[1] = n /\ f[2] = w.head
  BY <1>6, <1>9
<1>12. \A i \in 1..4 : f[2 + i] = sizeBytes[i]
  <2>1. \A i \in 1..4 : i \in 1..(4 + w.len)
    BY <1>1
  <2> QED
    BY <1>7, <1>9, <2>1
<1>13. \A i \in 1..w.len : f[6 + i] = v[i]
  <2>1. \A i \in 1..w.len : 4 + i \in 1..(4 + w.len) /\ 2 + (4 + i) = 6 + i
    BY <1>1
  <2> QED
    BY <1>7, <1>9, <2>1
<1> QED
  BY <1>1, <1>4, <1>9, <1>10, <1>11, <1>12, <1>13 DEF f, v, sizeBytes

(* common.go:11-46, request.go:65-92, response.go:66-92: a frame that was  *)
(* not refused is read back as it was written, its byte and its value,     *)
(* whatever the pooled object it is read into held before, and what comes  *)
(* behind it on the connection is left there.                              *)
THEOREM ReadBack ==
  ASSUME NEW n \in Byte, NEW w \in TLV, Fits(w), ~Frame(n, w).err,
         NEW o \in TLV, Fits(o), NEW rest \in Seq(Byte)
  PROVE  LET in == Frame(n, w).bytes \o rest
             read == ReadFrame(o, in)
         IN  /\ ~read.err /\ read.o.head = w.head /\ Value(read.o) = Value(w)
             /\ After(in) = rest
<1> DEFINE f == Frame(n, w).bytes
           in == f \o rest
           body == SubSeq(in, 3, Len(in))
           old == [o EXCEPT !.head = in[2]]
<1>1. /\ w.len \in Nat /\ w.len <= MaxBytesSize /\ f \in Seq(Byte) /\ Len(f) = 6 + w.len
      /\ f[1] = n /\ f[2] = w.head
      /\ \A i \in 1..4 : f[2 + i] = AppendUint32(w.len)[i]
      /\ \A i \in 1..w.len : f[6 + i] = Value(w)[i]
  BY FrameBytes
<1>2. Len(rest) \in Nat /\ w.len \in Nat
  BY <1>1, LenProperties
<1> HIDE DEF f
<1>3. /\ in \in Seq(Byte) /\ Len(in) = (6 + w.len) + Len(rest)
      /\ \A i \in 1..(6 + w.len) : in[i] = f[i]
      /\ \A i \in 1..Len(rest) : in[(6 + w.len) + i] = rest[i]
  <2>1. /\ in \in Seq(Byte) /\ Len(in) = Len(f) + Len(rest)
        /\ \A i \in 1..Len(f) : in[i] = f[i]
        /\ \A i \in 1..Len(rest) : in[Len(f) + i] = rest[i]
    BY <1>1, Joined
  <2> HIDE DEF in
  <2> QED
    BY <1>1, <2>1
<1> HIDE DEF in
<1>len. Len(in) = 6 + w.len + Len(rest) /\ Len(in) \in Nat
  <2>1. Len(in) = (6 + w.len) + Len(rest)
    BY <1>3
  <2> QED
    BY <1>2, <2>1
<1>4. in[2] = w.head
  <2>1. 2 \in 1..(6 + w.len)
    BY <1>2
  <2> QED
    BY <1>1, <1>3, <2>1
<1>5. /\ body \in Seq(Byte) /\ Len(body) = 4 + w.len + Len(rest)
      /\ \A i \in 1..(4 + w.len + Len(rest)) : body[i] = in[2 + i]
  <2> DEFINE last == Len(in)
  <2>1. last \in 0..last /\ last \in Nat /\ last = 6 + w.len + Len(rest)
    BY <1>2, <1>len
  <2> HIDE DEF last
  <2>2. /\ SubSeq(in, 3, last) \in Seq(Byte)
        /\ Len(SubSeq(in, 3, last)) = IF 3 <= last THEN last - 3 + 1 ELSE 0
        /\ \A i \in 1..(last - 3 + 1) : SubSeq(in, 3, last)[i] = in[3 + i - 1]
    <3>1. last \in 0..Len(in) /\ 3 \in Nat \ {0}
      BY <2>1 DEF last
    <3> QED
      BY <1>3, <3>1, Part
  <2>3. 3 <= last /\ last - 3 + 1 = 4 + w.len + Len(rest)
    BY <1>2, <2>1
  <2>4. \A i \in 1..(4 + w.len + Len(rest)) : 3 + i - 1 = 2 + i
    BY <1>2
  <2>5. body = SubSeq(in, 3, last)
    BY DEF last
  <2> QED
    BY <2>2, <2>3, <2>4, <2>5
<1>6. old \in TLV /\ Fits(old) /\ old.head = w.head
  BY <1>4 DEF TLV, Fits
<1>7. ReadFrame(o, in) = ReadBytes(old, body)
  <2>1. ~(Len(in) < 2)
    BY <1>2, <1>len
  <2> QED
    BY <2>1 DEF ReadFrame
<1> HIDE DEF body, old
<1>8. Value(w) \in Seq(Byte) /\ Len(Value(w)) = w.len
  BY ValueFacts
<1>9. \A i \in 1..4 : body[i] = AppendUint32(w.len)[i]
  <2>1. \A i \in 1..4 : i \in 1..(4 + w.len + Len(rest)) /\ 2 + i \in 1..(6 + w.len)
    BY <1>2
  <2>2. \A i \in 1..4 : body[i] = in[2 + i] /\ in[2 + i] = f[2 + i]
    BY <1>3, <1>5, <2>1
  <2> QED
    BY <1>1, <2>2
<1>10. \A i \in 1..w.len : body[4 + i] = Value(w)[i]
  <2>1. \A i \in 1..w.len :
          /\ 4 + i \in 1..(4 + w.len + Len(rest)) /\ 2 + (4 + i) = 6 + i
          /\ 6 + i \in 1..(6 + w.len)
    BY <1>2
  <2>2. \A i \in 1..w.len : body[4 + i] = in[6 + i] /\ in[6 + i] = f[6 + i]
    BY <1>3, <1>5, <2>1
  <2> QED
    BY <1>1, <2>2
<1>11. Holds(body, Value(w), 4 + Len(Value(w)))
  BY <1>1, <1>8, <1>9, <1>10 DEF Holds
<1>12. ~ReadBytes(old, body).err /\ Value(ReadBytes(old, body).o) = Value(w)
  <2>1. Len(Value(w)) <= MaxBytesSize
    BY <1>1, <1>8
  <2>2. Len(body) >= 4 + Len(Value(w))
    BY <1>2, <1>5, <1>8
  <2>3. body \in Seq(Byte)
    BY <1>5
  <2> QED
    BY <1>6, <1>8, <1>11, <2>1, <2>2, <2>3, ReadBytesWhole
<1>13. ReadBytes(old, body).o.head = w.head
  BY <1>5, <1>6, ReadBytesType
<1>14. After(in) = rest
  <2> DEFINE four == SubSeq(in, 3, 6)
  <2>0. Len(in) \in Nat /\ 6 <= Len(in)
    BY <1>2, <1>len
  <2>1. \A i \in 1..4 : four[i] = in[2 + i]
    <3>1. 6 \in 0..Len(in) /\ 3 \in Nat \ {0}
      BY <2>0
    <3>2. \A i \in 1..(6 - 3 + 1) : four[i] = in[3 + i - 1]
      BY <1>3, <3>1, Part
    <3> HIDE DEF four
    <3> QED
      BY <3>2
  <2> HIDE DEF four
  <2>2. \A i \in 1..4 : four[i] = AppendUint32(w.len)[i]
    <3>1. \A i \in 1..4 : 2 + i \in 1..(6 + w.len)
      BY <1>2
    <3> QED
      BY <1>1, <1>3, <2>1, <3>1
  <2>3. SizeOf(in) = w.len
    BY <1>1, <2>2, Size DEF SizeOf, four
  <2> DEFINE last == Len(in)
             from == 7 + w.len
             left == SubSeq(in, from, last)
  <2>4. /\ last \in 0..Len(in) /\ from \in Nat \ {0} /\ last = (6 + w.len) + Len(rest)
        /\ last \in Nat
    BY <1>2, <1>len
  <2> HIDE DEF last, from
  <2>5. /\ left \in Seq(Byte) /\ Len(left) = IF from <= last THEN last - from + 1 ELSE 0
        /\ \A i \in 1..(last - from + 1) : left[i] = in[from + i - 1]
    BY <1>3, <2>4, Part
  <2> HIDE DEF left
  <2>6. last - from + 1 = Len(rest) /\ (~(from <= last) => Len(rest) = 0)
    <3>1. last = (6 + w.len) + Len(rest) /\ from = 7 + w.len
      BY <2>4 DEF from
    <3> HIDE DEF from
    <3> QED
      BY ONLY <1>2, <3>1, SMT
  <2>7. \A i \in 1..Len(rest) : from + i - 1 = (6 + w.len) + i
    BY <1>2, SMT DEF from
  <2>8. \A i \in 1..Len(rest) : left[i] = rest[i]
    BY <1>3, <2>5, <2>6, <2>7
  <2>9. left \in Seq(Byte) /\ Len(left) = Len(rest)
    BY <2>5, <2>6
  <2>10. left = rest
    BY <2>8, <2>9, SeqEqual
  <2> QED
    BY <2>3, <2>10 DEF After, left, from, last
<1> QED
  BY <1>7, <1>12, <1>13, <1>14 DEF in, f

(* common.go:28-46: a connection that ends within a frame yields an error, *)
(* never a value pieced together from what came and what the pooled object *)
(* held before.                                                            *)
THEOREM CutShort ==
  ASSUME NEW n \in Byte, NEW w \in TLV, Fits(w), ~Frame(n, w).err,
         NEW o \in TLV, Fits(o), NEW k \in 0..(Len(Frame(n, w).bytes) - 1)
  PROVE  ReadFrame(o, SubSeq(Frame(n, w).bytes, 1, k)).err
<1> DEFINE f == Frame(n, w).bytes
           in == SubSeq(f, 1, k)
           body == SubSeq(in, 3, Len(in))
           old == [o EXCEPT !.head = in[2]]
<1>1. /\ w.len \in Nat /\ w.len <= MaxBytesSize /\ f \in Seq(Byte) /\ Len(f) = 6 + w.len
      /\ f[2] = w.head
      /\ \A i \in 1..4 : f[2 + i] = AppendUint32(w.len)[i]
      /\ \A i \in 1..w.len : f[6 + i] = Value(w)[i]
  BY FrameBytes
<1>2. k \in 0..Len(f) /\ k \in Nat /\ k < 6 + w.len
  BY <1>1
<1> HIDE DEF f
<1>3. in \in Seq(Byte) /\ Len(in) = k /\ \A i \in 1..k : in[i] = f[i]
  <2>1. /\ in \in Seq(Byte) /\ Len(in) = IF 1 <= k THEN k - 1 + 1 ELSE 0
        /\ \A i \in 1..(k - 1 + 1) : in[i] = f[1 + i - 1]
    BY <1>1, <1>2, Part
  <2> HIDE DEF in
  <2>2. k - 1 + 1 = k /\ \A i \in 1..k : 1 + i - 1 = i
    BY <1>2
  <2> QED
    BY <1>2, <2>1, <2>2
<1> HIDE DEF in
<1>4. CASE k < 2
  BY <1>3, <1>4 DEF ReadFrame, in, f
<1>5. CASE ~(k < 2)
  <2>1. ReadFrame(o, in) = ReadBytes(old, body)
    BY <1>3, <1>5 DEF ReadFrame
  <2>2. /\ body \in Seq(Byte) /\ Len(body) = k - 2
        /\ \A i \in 1..(k - 2) : body[i] = in[2 + i]
    <3>1. k \in 0..Len(in)
      BY <1>2, <1>3
    <3>2. /\ body \in Seq(Byte) /\ Len(body) = IF 3 <= k THEN k - 3 + 1 ELSE 0
          /\ \A i \in 1..(k - 3 + 1) : body[i] = in[3 + i - 1]
      BY <1>3, <3>1, Part
    <3> HIDE DEF body
    <3>3. k - 3 + 1 = k - 2 /\ \A i \in 1..(k - 2) : 3 + i - 1 = 2 + i
      BY <1>2
    <3> QED
      BY <1>2, <1>5, <3>2, <3>3
  <2>3. old \in TLV /\ Fits(old)
    <3>1. in[2] \in Byte
      <4>1. 2 \in 1..Len(in)
        BY <1>2, <1>3, <1>5
      <4> QED
        BY <1>3, <4>1, ElementOfSeq
    <3> QED
      BY <3>1 DEF TLV, Fits
  <2> HIDE DEF body, old
  <2>4. Value(w) \in Seq(Byte) /\ Len(Value(w)) = w.len
    BY ValueFacts
  <2>5. Holds(body, Value(w), Len(body))
    <3>1. \A i \in 1..4 : i <= k - 2 => body[i] = AppendUint32(w.len)[i]
      <4>1. \A i \in 1..4 : i <= k - 2 => body[i] = in[2 + i] /\ in[2 + i] = f[2 + i]
        BY <1>2, <1>3, <2>2
      <4> QED
        BY <1>1, <4>1
    <3>2. \A i \in 1..w.len : 4 + i <= k - 2 => body[4 + i] = Value(w)[i]
      <4>1. \A i \in 1..w.len : 4 + i <= k - 2 =>
              /\ 4 + i \in 1..(k - 2) /\ 2 + (4 + i) = 6 + i /\ 6 + i \in 1..k
        BY <1>1, <1>2
      <4>2. \A i \in 1..w.len :
              4 + i <= k - 2 => body[4 + i] = in[6 + i] /\ in[6 + i] = f[6 + i]
        BY <1>3, <2>2, <4>1
      <4> QED
        BY <1>1, <4>2
    <3> QED
      BY <2>2, <2>4, <3>1, <3>2 DEF Holds
  <2>6. Len(body) < 4 + Len(Value(w))
    BY <1>1, <1>2, <2>2, <2>4
  <2>7. ReadBytes(old, body).err
    BY <1>1, <2>2, <2>3, <2>4, <2>5, <2>6, ReadBytesCut
  <2> QED
    BY <2>1, <2>7 DEF in, f
<1> QED
  BY <1>4, <1>5

-----------------------------------------------------------------------------
(* Types.                                                                  *)

Slice(o) == o \in TLV /\ Fits(o)

LEMMA NewSlice == Slice(New)
  BY SeqDef DEF Slice, TLV, Fits, New, Byte

LEMMA ResetSlice ==
  ASSUME NEW o, Slice(o)
  PROVE  Slice(Reset(o)) /\ Slice(ResetResponse(o))
<1>1. o.buf \in Seq(Byte) /\ Len(o.buf) \in Nat
  BY LenProperties DEF Slice, TLV
<1>2. 0 \in Byte /\ 1 \in Byte
  BY DEF Byte
<1>3. ASSUME NEW h \in Byte PROVE Slice([o EXCEPT !.head = h, !.len = 0])
  <2> DEFINE r == [o EXCEPT !.head = h, !.len = 0]
  <2>1. r \in TLV
    BY DEF Slice, TLV
  <2>2. r.len = 0 /\ r.buf = o.buf
    BY DEF Slice, TLV
  <2> HIDE DEF r
  <2>3. Fits(r)
    BY <1>1, <2>2 DEF Fits
  <2> QED
    BY <2>1, <2>3 DEF r, Slice
<1> QED
  BY <1>2, <1>3 DEF Reset, ResetResponse

LEMMA HeadSlice ==
  ASSUME NEW o, Slice(o), NEW h \in Byte
  PROVE  Slice([o EXCEPT !.head = h])
BY DEF Slice, TLV, Fits

LEMMA AppendSlice ==
  ASSUME NEW o, Slice(o), NEW v \in Seq(Byte)
  PROVE  Slice(AppendValue(o, v))
<1> DEFINE both == Value(o) \o v
           buf == Over(o.buf, both)
           new == [o EXCEPT !.buf = buf, !.len = o.len + Len(v)]
<1>1. Value(o) \in Seq(Byte) /\ Len(Value(o)) = o.len /\ o.len \in Nat /\ o.buf \in Seq(Byte)
  BY ValueFacts DEF Slice, TLV
<1>2. both \in Seq(Byte) /\ Len(both) = Len(Value(o)) + Len(v)
  BY <1>1, Joined
<1>3. Len(v) \in Nat /\ Len(o.buf) \in Nat
  BY <1>1, LenProperties
<1> HIDE DEF both
<1>4. buf \in Seq(Byte) /\ Len(buf) = IF Len(o.buf) < Len(both) THEN Len(both) ELSE Len(o.buf)
  BY <1>1, <1>2, OverFacts
<1> HIDE DEF buf
<1>5. Len(buf) >= o.len + Len(v)
  BY <1>1, <1>2, <1>3, <1>4
<1>6. AppendValue(o, v) = new
  BY DEF AppendValue, new, buf, both
<1>7. new \in TLV /\ new.buf = buf /\ new.len = o.len + Len(v)
  <2>1. o.len + Len(v) \in Nat
    BY <1>1, <1>3
  <2> QED
    BY <1>4, <2>1 DEF Slice, TLV
<1> HIDE DEF new
<1> QED
  BY <1>5, <1>6, <1>7 DEF Slice, Fits

(* Of a frame that is refused two bytes were written.                      *)
LEMMA RefusedFrame ==
  ASSUME NEW n \in Byte, NEW w, Slice(w), Frame(n, w).err
  PROVE  /\ Frame(n, w).bytes \in Seq(Byte) /\ Len(Frame(n, w).bytes) = 2
         /\ Frame(n, w).err = TRUE
<1>1. Frame(n, w).err = WriteBytes(Value(w)).err
  BY DEF Frame, WriteBytes
<1>2. WriteBytes(Value(w)) = [bytes |-> <<>>, err |-> TRUE]
  BY <1>1 DEF WriteBytes
<1>3. Frame(n, w).bytes = <<n, w.head>> \o <<>> /\ Frame(n, w).err = TRUE
  <2> DEFINE written == WriteBytes(Value(w))
  <2>1. written = [bytes |-> <<>>, err |-> TRUE]
    BY <1>2
  <2>2. Frame(n, w) = [written EXCEPT !.bytes = <<n, w.head>> \o @]
    BY DEF Frame
  <2> HIDE DEF written
  <2> QED
    BY <2>1, <2>2
<1>4. <<n, w.head>> \in Seq(Byte) /\ Len(<<n, w.head>>) = 2
  BY DEF Slice, TLV
<1>5. <<n, w.head>> \o <<>> = <<n, w.head>>
  BY <1>4, ConcatEmptySeq
<1> QED
  BY <1>3, <1>4, <1>5

(* A frame is bytes, refused or not.                                       *)
LEMMA FrameType ==
  ASSUME NEW n \in Byte, NEW w, Slice(w)
  PROVE  Frame(n, w).bytes \in Seq(Byte) /\ Frame(n, w).err \in BOOLEAN
<1>1. CASE ~Frame(n, w).err
  <2>1. Frame(n, w).err \in BOOLEAN
    BY DEF Frame, WriteBytes
  <2> QED
    BY <1>1, <2>1, FrameBytes DEF Slice
<1>2. CASE Frame(n, w).err
  BY <1>2, RefusedFrame
<1> QED
  BY <1>1, <1>2

(* What reading a frame leaves, whatever the bytes are; without an error   *)
(* the frame and its size were there.                                      *)
LEMMA ReadFrameType ==
  ASSUME NEW o, Slice(o), NEW in \in Seq(Byte)
  PROVE  /\ Slice(ReadFrame(o, in).o) /\ ReadFrame(o, in).err \in BOOLEAN
         /\ ~ReadFrame(o, in).err => After(in) \in Seq(Byte)
<1>0. Len(in) \in Nat
  BY LenProperties
<1>1. CASE Len(in) < 2
  BY <1>1 DEF ReadFrame
<1>2. CASE ~(Len(in) < 2)
  <2> DEFINE body == SubSeq(in, 3, Len(in))
             old == [o EXCEPT !.head = in[2]]
  <2>1. body \in Seq(Byte) /\ Len(body) = IF 3 <= Len(in) THEN Len(in) - 3 + 1 ELSE 0
    <3>1. Len(in) \in 0..Len(in)
      BY <1>0
    <3> QED
      BY <3>1, Part
  <2>2. old \in TLV /\ Fits(old)
    <3>1. 2 \in 1..Len(in)
      BY <1>0, <1>2
    <3>2. in[2] \in Byte
      BY <3>1, ElementOfSeq
    <3> QED
      BY <3>2, HeadSlice DEF Slice
  <2>3. ReadFrame(o, in) = ReadBytes(old, body)
    BY <1>2 DEF ReadFrame
  <2> HIDE DEF body, old
  <2>4. ReadBytes(old, body).o \in TLV /\ Fits(ReadBytes(old, body).o)
        /\ ReadBytes(old, body).err \in BOOLEAN
    BY <2>1, <2>2, ReadBytesType
  <2>5. ASSUME ~ReadBytes(old, body).err PROVE After(in) \in Seq(Byte)
    <3>1. ~(Len(body) < 4)
      BY <2>5 DEF ReadBytes, Refused
    <3>2. Len(in) >= 6
      BY <1>0, <2>1, <3>1
    <3> DEFINE four == SubSeq(in, 3, 6)
    <3>3. four \in Seq(Byte) /\ Len(four) = 4
      <4>1. 6 \in 0..Len(in) /\ 3 \in Nat \ {0}
        BY <1>0, <3>2
      <4> QED
        BY <4>1, Part
    <3> HIDE DEF four
    <3>4. Bytes2Uint32(four) \in Nat
      <4>1. Len(four) >= 4
        BY <3>3
      <4> QED
        BY <3>3, <4>1, UintType
    <3>5. SizeOf(in) \in Nat
      BY <3>4 DEF SizeOf, four
    <3>6. 7 + SizeOf(in) \in Nat \ {0} /\ Len(in) \in 0..Len(in)
      BY <1>0, <3>5
    <3> QED
      BY <3>6, Part DEF After
  <2> QED
    BY <2>3, <2>4, <2>5 DEF Slice
<1> QED
  BY <1>1, <1>2

CallType ==
  [pc : {"idle", "ready", "waiting", "answered", "failed"},
   n : 0..MaxCalls, req : Objects, resp : Objects]

CtxType ==
  [phase : {"idle", "serve", "done"}, n : Byte, live : BOOLEAN,
   request : TLV, response : TLV]

ResultType == [ok : BOOLEAN, n : 0..MaxCalls, head : Byte, value : Seq(Byte)]

TLVs == [head : Byte, value : Seq(Byte)]

(* TypeOK in the parts that an action disturbs.                            *)
PoolsOK ==
  /\ requests \in [Objects -> TLV] /\ responses \in [Objects -> TLV]
  /\ \A o \in Objects : Fits(requests[o]) /\ Fits(responses[o])
  /\ freeRequests \subseteq Objects /\ freeResponses \subseteq Objects

StreamOK == up \in Seq(Byte) /\ down \in Seq(Byte) /\ connected \in BOOLEAN

CtxOK ==
  /\ ctx \in [Ctxs -> CtxType]
  /\ \A k \in Ctxs : Fits(ctx[k].request) /\ Fits(ctx[k].response)

CallsOK ==
  /\ call \in [Callers -> CallType]
  /\ asked \in Seq(Messages) /\ Len(asked) <= MaxCalls
  /\ served \in Seq(Byte \X TLVs)
  /\ result \in [Callers -> ResultType]

LEMMA Parts == TypeOK <=> PoolsOK /\ StreamOK /\ CtxOK /\ CallsOK
BY DEF TypeOK, PoolsOK, StreamOK, CtxOK, CallsOK, CallType, CtxType, ResultType, TLVs

(* Of functions whose values have parts.                                   *)
LEMMA SlicesExcept ==
  ASSUME NEW f \in [Objects -> TLV], \A o \in Objects : Fits(f[o]),
         NEW x \in Objects, NEW v, Slice(v)
  PROVE  /\ [f EXCEPT ![x] = v] \in [Objects -> TLV]
         /\ \A o \in Objects : Fits([f EXCEPT ![x] = v][o])
BY DEF Slice

LEMMA CtxExcept ==
  ASSUME CtxOK, NEW k \in Ctxs, NEW c \in CtxType, Fits(c.request), Fits(c.response),
         ctx' = [ctx EXCEPT ![k] = c]
  PROVE  CtxOK'
BY DEF CtxOK

LEMMA Numbers == MaxCalls \in Nat /\ \A n \in 0..MaxCalls : n \in Byte
BY SizesAssumption DEF SizesAssumption, Byte

LEMMA InitOK == Init => TypeOK
<1> SUFFICES ASSUME Init PROVE PoolsOK /\ StreamOK /\ CtxOK /\ CallsOK
  BY Parts
<1>1. New \in TLV /\ Fits(New)
  BY NewSlice DEF Slice
<1>2. <<>> \in Seq(Byte) /\ <<>> \in Seq(Messages) /\ Len(<<>>) = 0
  OBVIOUS
<1>3. PoolsOK
  BY <1>1 DEF Init, PoolsOK
<1>4. StreamOK
  BY <1>2 DEF Init, StreamOK
<1>5. CtxOK
  <2>1. 0 \in Byte
    BY DEF Byte
  <2> DEFINE c == [phase |-> "idle", n |-> 0, live |-> FALSE,
                   request |-> New, response |-> New]
  <2>2. c \in CtxType /\ c.request = New /\ c.response = New
    BY <1>1, <2>1 DEF CtxType
  <2>3. ctx = [k \in Ctxs |-> c]
    BY DEF Init
  <2> HIDE DEF c
  <2> QED
    BY <1>1, <2>2, <2>3 DEF CtxOK
<1>6. CallsOK
  <2>1. (CHOOSE o \in Objects : TRUE) \in Objects
    BY ObjectsAssumption DEF ObjectsAssumption
  <2>2. 0 \in 0..MaxCalls /\ 0 \in Byte /\ 0 <= MaxCalls
    BY Numbers DEF Byte
  <2> DEFINE c == [pc |-> "idle", n |-> 0, req |-> CHOOSE o \in Objects : TRUE,
                   resp |-> CHOOSE o \in Objects : TRUE]
  <2>3. c \in CallType
    BY <2>1, <2>2 DEF CallType
  <2>4. NoResult \in ResultType
    BY <1>2, <2>2 DEF NoResult, ResultType
  <2>5. call = [p \in Callers |-> c] /\ result = [p \in Callers |-> NoResult]
    BY DEF Init
  <2>6. asked = <<>> /\ served = <<>> /\ served \in Seq(Byte \X TLVs)
    BY DEF Init
  <2> HIDE DEF c
  <2> QED
    BY <1>2, <2>2, <2>3, <2>4, <2>5, <2>6 DEF CallsOK
<1> QED
  BY <1>3, <1>4, <1>5, <1>6

LEMMA AcquireOK ==
  ASSUME TypeOK, NEW p \in Callers, NEW o \in Objects, NEW q \in Objects,
         NEW m \in Messages, Acquire(p, o, q, m)
  PROVE  TypeOK'
<1>0. PoolsOK /\ StreamOK /\ CtxOK /\ CallsOK
  BY Parts
<1>1. m.head \in Byte /\ m.value \in Seq(Byte)
  BY MessagesAssumption DEF MessagesAssumption
<1> DEFINE r == AppendValue([requests[o] EXCEPT !.head = m.head], m.value)
<1>2. Slice(r)
  <2>1. Slice(requests[o])
    BY <1>0 DEF PoolsOK, Slice
  <2> QED
    BY <1>1, <2>1, HeadSlice, AppendSlice
<1>3. requests' = [requests EXCEPT ![o] = r]
  BY DEF Acquire
<1> HIDE DEF r
<1>4. PoolsOK'
  <2>1. requests \in [Objects -> TLV] /\ \A x \in Objects : Fits(requests[x])
    BY <1>0 DEF PoolsOK
  <2>2. /\ requests' \in [Objects -> TLV]
        /\ \A x \in Objects : Fits(requests'[x])
    BY <1>2, <1>3, <2>1, SlicesExcept
  <2> QED
    BY <1>0, <2>2 DEF Acquire, PoolsOK
<1>5. StreamOK' /\ CtxOK'
  BY <1>0 DEF Acquire, stream, StreamOK, CtxOK
<1>6. CallsOK'
  <2>1. asked' \in Seq(Messages) /\ Len(asked') = Len(asked) + 1 /\ Len(asked) \in Nat
    BY <1>0, AppendProperties, LenProperties DEF Acquire, CallsOK
  <2>2. Len(asked') \in 0..MaxCalls /\ Len(asked') <= MaxCalls
    BY <2>1, Numbers DEF Acquire
  <2> DEFINE c == [pc |-> "ready", n |-> Len(asked'), req |-> o, resp |-> q]
  <2>3. c \in CallType
    BY <2>2 DEF CallType
  <2>4. call' = [call EXCEPT ![p] = c]
    BY DEF Acquire
  <2> HIDE DEF c
  <2>5. NoResult \in ResultType
    <3>1. 0 \in 0..MaxCalls /\ 0 \in Byte /\ <<>> \in Seq(Byte)
      BY Numbers DEF Byte
    <3> QED
      BY <3>1 DEF NoResult, ResultType
  <2>6. result' = [result EXCEPT ![p] = NoResult]
    BY DEF Acquire
  <2>7. served' = served
    BY DEF Acquire
  <2> QED
    BY <1>0, <2>1, <2>2, <2>3, <2>4, <2>5, <2>6, <2>7 DEF CallsOK
<1> QED
  BY <1>4, <1>5, <1>6, Parts, PTL

(* A caller that moves on keeps its number and its objects.                *)
LEMMA MoveToOK ==
  ASSUME CallsOK, NEW p \in Callers, NEW from,
         NEW to \in {"idle", "ready", "waiting", "answered", "failed"},
         MoveTo(p, from, to), UNCHANGED <<asked, served, result>>
  PROVE  CallsOK'
<1> DEFINE c == [call[p] EXCEPT !.pc = to]
<1>1. c \in CallType
  BY DEF CallsOK, CallType
<1>2. call' = [call EXCEPT ![p] = c]
  BY DEF MoveTo
<1> HIDE DEF c
<1> QED
  BY <1>1, <1>2 DEF CallsOK

LEMMA WriteRequestOK ==
  ASSUME TypeOK, NEW p \in Callers, WriteRequest(p)
  PROVE  TypeOK'
<1>0. PoolsOK /\ StreamOK /\ CtxOK /\ CallsOK
  BY Parts
<1> DEFINE frame == Frame(call[p].n, requests[call[p].req])
<1>1. frame.bytes \in Seq(Byte) /\ frame.err \in BOOLEAN
  <2>1. call[p].n \in Byte /\ call[p].req \in Objects
    BY <1>0, Numbers DEF CallsOK, CallType
  <2>2. Slice(requests[call[p].req])
    BY <1>0, <2>1 DEF PoolsOK, Slice
  <2> QED
    BY <2>1, <2>2, FrameType
<1>2. /\ MoveTo(p, "ready", IF frame.err THEN "failed" ELSE "waiting")
      /\ up' = up \o frame.bytes /\ connected' = ~frame.err
  BY DEF WriteRequest
<1> HIDE DEF frame
<1>3. PoolsOK' /\ CtxOK'
  BY <1>0 DEF WriteRequest, pools, PoolsOK, CtxOK
<1>4. StreamOK'
  <2>1. up' \in Seq(Byte)
    BY <1>0, <1>1, <1>2, Joined DEF StreamOK
  <2>2. connected' \in BOOLEAN
    BY <1>1, <1>2
  <2> QED
    BY <1>0, <2>1, <2>2 DEF WriteRequest, StreamOK
<1>5. CallsOK'
  <2> DEFINE to == IF frame.err THEN "failed" ELSE "waiting"
  <2>1. to \in {"idle", "ready", "waiting", "answered", "failed"}
    OBVIOUS
  <2>2. MoveTo(p, "ready", to) /\ UNCHANGED <<asked, served, result>>
    BY <1>2 DEF WriteRequest
  <2> HIDE DEF to
  <2> QED
    BY <1>0, <2>1, <2>2, MoveToOK
<1> QED
  BY <1>3, <1>4, <1>5, Parts, PTL

LEMMA FailOK ==
  ASSUME TypeOK, NEW p \in Callers, Fail(p)
  PROVE  TypeOK'
<1>0. PoolsOK /\ StreamOK /\ CtxOK /\ CallsOK
  BY Parts
<1>1. PoolsOK' /\ StreamOK' /\ CtxOK'
  BY <1>0 DEF Fail, pools, stream, PoolsOK, StreamOK, CtxOK
<1>2. CallsOK'
  <2>1. PICK from : MoveTo(p, from, "failed") /\ UNCHANGED <<asked, served, result>>
    BY DEF Fail
  <2> QED
    BY <1>0, <2>1, MoveToOK
<1> QED
  BY <1>1, <1>2, Parts, PTL

LEMMA ReadResponseOK ==
  ASSUME TypeOK, ReadResponse
  PROVE  TypeOK'
<1>0. PoolsOK /\ StreamOK /\ CtxOK /\ CallsOK
  BY Parts
<1> DEFINE for == Waiting(down[1])
           first == CHOOSE p \in for : TRUE
           old == IF for = {} THEN New ELSE responses[call[first].resp]
           read == ReadFrame(old, down)
<1>1. Slice(old)
  <2>1. CASE for = {}
    BY <2>1, NewSlice
  <2>2. CASE for # {}
    <3>1. first \in Callers
      BY <2>2 DEF Waiting
    <3>2. call[first].resp \in Objects
      BY <1>0, <3>1 DEF CallsOK, CallType
    <3> QED
      BY <1>0, <2>2, <3>2 DEF PoolsOK, Slice
  <2> QED
    BY <2>1, <2>2
<1>2. /\ responses' = [o \in Objects |->
           IF \E p \in for : call[p].resp = o THEN read.o ELSE responses[o]]
      /\ call' = [p \in Callers |->
           IF p \in for
           THEN [call[p] EXCEPT !.pc = IF read.err THEN "failed" ELSE "answered"]
           ELSE call[p]]
      /\ connected' = (connected /\ ~read.err)
      /\ down' = IF read.err THEN <<>> ELSE After(down)
      /\ UNCHANGED <<requests, freeRequests, freeResponses, up, ctx, asked, served, result>>
  BY DEF ReadResponse
<1> HIDE DEF old
<1>3. Slice(read.o) /\ read.err \in BOOLEAN /\ (~read.err => After(down) \in Seq(Byte))
  BY <1>0, <1>1, ReadFrameType DEF StreamOK
<1> HIDE DEF read, for
<1>4. PoolsOK'
  <2>1. responses' \in [Objects -> TLV] /\ \A o \in Objects : Fits(responses'[o])
    BY <1>0, <1>2, <1>3 DEF PoolsOK, Slice
  <2> QED
    BY <1>0, <1>2, <2>1 DEF PoolsOK
<1>5. StreamOK'
  <2>1. <<>> \in Seq(Byte)
    OBVIOUS
  <2>2. down' \in Seq(Byte)
    BY <1>2, <1>3, <2>1
  <2>3. connected' \in BOOLEAN
    BY <1>2
  <2> QED
    BY <1>0, <1>2, <2>2, <2>3 DEF StreamOK
<1>6. CtxOK'
  BY <1>0, <1>2 DEF CtxOK
<1>7. CallsOK'
  <2> DEFINE to == IF read.err THEN "failed" ELSE "answered"
  <2>1. to \in {"idle", "ready", "waiting", "answered", "failed"}
    OBVIOUS
  <2>2. call' = [p \in Callers |-> IF p \in for THEN [call[p] EXCEPT !.pc = to] ELSE call[p]]
    BY <1>2
  <2> HIDE DEF to
  <2>3. \A p \in Callers : [call[p] EXCEPT !.pc = to] \in CallType
    BY <1>0, <2>1 DEF CallsOK, CallType
  <2> QED
    BY <1>0, <1>2, <2>2, <2>3 DEF CallsOK
<1> QED
  BY <1>4, <1>5, <1>6, <1>7, Parts, PTL

LEMMA ReturnOK ==
  ASSUME TypeOK, NEW p \in Callers, Return(p)
  PROVE  TypeOK'
<1>0. PoolsOK /\ StreamOK /\ CtxOK /\ CallsOK
  BY Parts
<1> DEFINE o == call[p].req
           q == call[p].resp
           res == [ok |-> call[p].pc = "answered", n |-> call[p].n,
                   head |-> responses[q].head, value |-> Value(responses[q])]
           c == [call[p] EXCEPT !.pc = "idle"]
<1>1. o \in Objects /\ q \in Objects /\ call[p].n \in 0..MaxCalls
  BY <1>0 DEF CallsOK, CallType
<1>2. Slice(requests[o]) /\ Slice(responses[q])
  BY <1>0, <1>1 DEF PoolsOK, Slice
<1>3. res \in ResultType
  <2>1. responses[q].head \in Byte /\ Value(responses[q]) \in Seq(Byte)
    BY <1>2, ValueFacts DEF Slice, TLV
  <2> QED
    BY <1>1, <2>1 DEF ResultType
<1>4. c \in CallType
  BY <1>0 DEF CallsOK, CallType
<1>5. /\ result' = [result EXCEPT ![p] = res] /\ call' = [call EXCEPT ![p] = c]
      /\ requests' = [requests EXCEPT ![o] = Reset(requests[o])]
      /\ responses' = [responses EXCEPT ![q] = ResetResponse(responses[q])]
      /\ freeRequests' = freeRequests \cup {o} /\ freeResponses' = freeResponses \cup {q}
      /\ UNCHANGED <<stream, ctx, asked, served>>
  BY DEF Return
<1> HIDE DEF o, q, res, c
<1>6. PoolsOK'
  <2>1. Slice(Reset(requests[o])) /\ Slice(ResetResponse(responses[q]))
    BY <1>2, ResetSlice
  <2>2. /\ requests' \in [Objects -> TLV]
        /\ \A x \in Objects : Fits(requests'[x])
    BY <1>0, <1>1, <1>5, <2>1, SlicesExcept DEF PoolsOK
  <2>3. /\ responses' \in [Objects -> TLV]
        /\ \A x \in Objects : Fits(responses'[x])
    BY <1>0, <1>1, <1>5, <2>1, SlicesExcept DEF PoolsOK
  <2>4. freeRequests' \subseteq Objects /\ freeResponses' \subseteq Objects
    BY <1>0, <1>1, <1>5 DEF PoolsOK
  <2> QED
    BY <2>2, <2>3, <2>4 DEF PoolsOK
<1>7. StreamOK' /\ CtxOK'
  BY <1>0, <1>5 DEF stream, StreamOK, CtxOK
<1>8. CallsOK'
  BY <1>0, <1>3, <1>4, <1>5 DEF CallsOK
<1> QED
  BY <1>6, <1>7, <1>8, Parts, PTL

LEMMA ReadRequestOK ==
  ASSUME TypeOK, NEW k \in Ctxs, ReadRequest(k)
  PROVE  TypeOK'
<1>0. PoolsOK /\ StreamOK /\ CtxOK /\ CallsOK
  BY Parts
<1> DEFINE old == Reset(ctx[k].request)
           read == ReadFrame(old, up)
           c == [phase |-> IF read.err THEN "idle" ELSE "serve", n |-> up[1], live |-> TRUE,
                 request |-> read.o, response |-> ResetResponse(ctx[k].response)]
<1>1. Slice(old) /\ Slice(ResetResponse(ctx[k].response))
  <2>1. Slice(ctx[k].request) /\ Slice(ctx[k].response)
    BY <1>0 DEF CtxOK, CtxType, Slice
  <2> QED
    BY <2>1, ResetSlice
<1>2. /\ ctx' = [ctx EXCEPT ![k] = c] /\ connected' = (connected /\ ~read.err)
      /\ up' = IF read.err THEN <<>> ELSE After(up)
      /\ UNCHANGED <<pools, call, down, asked, served, result>>
  BY DEF ReadRequest
<1>3. up[1] \in Byte
  <2>1. up # <<>>
    <3>1. Len(<<>>) = 0
      OBVIOUS
    <3>2. ~(Len(<<>>) >= 6)
      BY <3>1
    <3> QED
      BY <3>2 DEF ReadRequest, Readable
  <2>2. 1 \in 1..Len(up)
    BY <1>0, <2>1, EmptySeq, LenProperties DEF StreamOK
  <2> QED
    BY <1>0, <2>2, ElementOfSeq DEF StreamOK
<1> HIDE DEF old
<1>4. Slice(read.o) /\ read.err \in BOOLEAN /\ (~read.err => After(up) \in Seq(Byte))
  BY <1>0, <1>1, ReadFrameType DEF StreamOK
<1> HIDE DEF read
<1>5. c \in CtxType /\ Fits(c.request) /\ Fits(c.response)
  <2>1. c \in CtxType
    BY <1>1, <1>3, <1>4 DEF CtxType, Slice
  <2>2. c.request = read.o /\ c.response = ResetResponse(ctx[k].response)
    OBVIOUS
  <2> HIDE DEF c
  <2> QED
    BY <1>1, <1>4, <2>1, <2>2 DEF Slice
<1> HIDE DEF c
<1>6. CtxOK'
  BY <1>0, <1>2, <1>5, CtxExcept
<1>7. StreamOK'
  <2>1. <<>> \in Seq(Byte)
    OBVIOUS
  <2>2. up' \in Seq(Byte)
    BY <1>2, <1>4, <2>1
  <2>3. connected' \in BOOLEAN
    BY <1>2
  <2> QED
    BY <1>0, <1>2, <2>2, <2>3 DEF StreamOK
<1>8. PoolsOK' /\ CallsOK'
  BY <1>0, <1>2 DEF pools, PoolsOK, CallsOK
<1> QED
  BY <1>6, <1>7, <1>8, Parts, PTL

LEMMA HandleOK ==
  ASSUME TypeOK, NEW k \in Ctxs, Handle(k)
  PROVE  TypeOK'
<1>0. PoolsOK /\ StreamOK /\ CtxOK /\ CallsOK
  BY Parts
<1> DEFINE m == Asked(ctx[k].request)
           answer == IF m \in Messages THEN Answers[m] ELSE [head |-> 5, value |-> <<>>]
           r == AppendValue([ctx[k].response EXCEPT !.head = answer.head], answer.value)
           c == [ctx[k] EXCEPT !.phase = "done", !.response = r]
<1>1. answer.head \in Byte /\ answer.value \in Seq(Byte)
  <2>1. 5 \in Byte /\ <<>> \in Seq(Byte)
    BY DEF Byte
  <2>2. m \in Messages => Answers[m] \in [head : Byte, value : Seq(Byte)]
    BY AnswersAssumption DEF AnswersAssumption
  <2> HIDE DEF m
  <2> QED
    BY <2>1, <2>2
<1>2. /\ ctx' = [ctx EXCEPT ![k] = c] /\ served' = Append(served, <<ctx[k].n, m>>)
      /\ UNCHANGED <<pools, call, stream, asked, result>>
  BY DEF Handle
<1>3. <<ctx[k].n, m>> \in Byte \X TLVs
  <2>1. ctx[k].n \in Byte /\ Slice(ctx[k].request)
    BY <1>0 DEF CtxOK, CtxType, Slice
  <2>2. ctx[k].request.head \in Byte /\ Value(ctx[k].request) \in Seq(Byte)
    BY <2>1, ValueFacts DEF Slice, TLV
  <2> QED
    BY <2>1, <2>2 DEF Asked, TLVs
<1> HIDE DEF m
<1> HIDE DEF answer
<1>4. Slice(r)
  <2>1. Slice(ctx[k].response)
    BY <1>0 DEF CtxOK, CtxType, Slice
  <2> QED
    BY <1>1, <2>1, HeadSlice, AppendSlice
<1> HIDE DEF r
<1>5. c \in CtxType /\ c.request = ctx[k].request /\ c.response = r
  BY <1>0, <1>4 DEF CtxOK, CtxType, Slice
<1> HIDE DEF c
<1>6. Fits(c.request) /\ Fits(c.response)
  BY <1>0, <1>4, <1>5 DEF CtxOK, Slice
<1>7. CtxOK'
  BY <1>0, <1>2, <1>5, <1>6, CtxExcept
<1>8. PoolsOK' /\ StreamOK' /\ CallsOK'
  <2>1. served' \in Seq(Byte \X TLVs)
    BY <1>0, <1>2, <1>3, AppendProperties DEF CallsOK
  <2> QED
    BY <1>0, <1>2, <2>1 DEF pools, stream, PoolsOK, StreamOK, CallsOK
<1> QED
  BY <1>7, <1>8, Parts, PTL

LEMMA WriteResponseOK ==
  ASSUME TypeOK, NEW k \in Ctxs, WriteResponse(k)
  PROVE  TypeOK'
<1>0. PoolsOK /\ StreamOK /\ CtxOK /\ CallsOK
  BY Parts
<1> DEFINE frame == Frame(ctx[k].n, ctx[k].response)
           c == [ctx[k] EXCEPT !.phase = "idle"]
<1>1. frame.bytes \in Seq(Byte) /\ frame.err \in BOOLEAN
  <2>1. ctx[k].n \in Byte /\ Slice(ctx[k].response)
    BY <1>0 DEF CtxOK, CtxType, Slice
  <2> QED
    BY <2>1, FrameType
<1>2. /\ ctx' = [ctx EXCEPT ![k] = c]
      /\ \/ down' = down \o frame.bytes /\ connected' = ~frame.err
         \/ UNCHANGED <<down, connected>>
      /\ UNCHANGED <<pools, call, up, asked, served, result>>
  BY DEF WriteResponse
<1> HIDE DEF frame
<1>3. c \in CtxType /\ c.request = ctx[k].request /\ c.response = ctx[k].response
  BY <1>0 DEF CtxOK, CtxType
<1> HIDE DEF c
<1>4. Fits(c.request) /\ Fits(c.response)
  BY <1>0, <1>3 DEF CtxOK
<1>5. CtxOK'
  BY <1>0, <1>2, <1>3, <1>4, CtxExcept
<1>6. StreamOK'
  <2>1. down' \in Seq(Byte)
    BY <1>0, <1>1, <1>2, Joined DEF StreamOK
  <2>2. connected' \in BOOLEAN
    BY <1>0, <1>1, <1>2 DEF StreamOK
  <2> QED
    BY <1>0, <1>2, <2>1, <2>2 DEF StreamOK
<1>7. PoolsOK' /\ CallsOK'
  BY <1>0, <1>2 DEF pools, PoolsOK, CallsOK
<1> QED
  BY <1>5, <1>6, <1>7, Parts, PTL

(* What arrived of a stream is bytes.                                      *)
LEMMA Arrived ==
  ASSUME NEW s \in Seq(Byte), NEW t \in Prefixes(s)
  PROVE  t \in Seq(Byte)
<1>1. PICK l \in 0..Len(s) : t = SubSeq(s, 1, l)
  BY DEF Prefixes
<1> QED
  BY <1>1, Part

LEMMA CloseOK == TypeOK /\ Close => TypeOK'
<1> SUFFICES ASSUME TypeOK, Close PROVE TypeOK'
  OBVIOUS
<1>0. PoolsOK /\ StreamOK /\ CtxOK /\ CallsOK
  BY Parts
<1>1. StreamOK'
  BY <1>0, Arrived DEF Close, StreamOK
<1>2. PoolsOK' /\ CtxOK' /\ CallsOK'
  BY <1>0 DEF Close, pools, PoolsOK, CtxOK, CallsOK
<1> QED
  BY <1>1, <1>2, Parts, PTL

LEMMA DialOK == TypeOK /\ Dial => TypeOK'
<1> SUFFICES ASSUME TypeOK, Dial PROVE TypeOK'
  OBVIOUS
<1>0. PoolsOK /\ StreamOK /\ CtxOK /\ CallsOK
  BY Parts
<1>1. <<>> \in Seq(Byte)
  OBVIOUS
<1>2. StreamOK'
  BY <1>1 DEF Dial, StreamOK
<1>3. CtxOK'
  <2>1. ctx' = [k \in Ctxs |-> [ctx[k] EXCEPT !.live = FALSE]]
    BY DEF Dial
  <2>2. \A k \in Ctxs :
          /\ [ctx[k] EXCEPT !.live = FALSE] \in CtxType
          /\ [ctx[k] EXCEPT !.live = FALSE].request = ctx[k].request
          /\ [ctx[k] EXCEPT !.live = FALSE].response = ctx[k].response
    BY <1>0 DEF CtxOK, CtxType
  <2> QED
    BY <1>0, <2>1, <2>2 DEF CtxOK
<1>4. PoolsOK' /\ CallsOK'
  BY <1>0 DEF Dial, pools, PoolsOK, CallsOK
<1> QED
  BY <1>2, <1>3, <1>4, Parts, PTL

LEMMA Stuttering == TypeOK /\ UNCHANGED vars => TypeOK'
<1> SUFFICES ASSUME TypeOK, UNCHANGED vars PROVE TypeOK'
  OBVIOUS
<1>0. PoolsOK /\ StreamOK /\ CtxOK /\ CallsOK
  BY Parts
<1>1. PoolsOK' /\ StreamOK' /\ CtxOK' /\ CallsOK'
  BY <1>0 DEF vars, pools, stream, PoolsOK, StreamOK, CtxOK, CallsOK
<1> QED
  BY <1>1, Parts, PTL

(* common.go:28-46, request.go:35-92, response.go:36-92: a slice is never   *)
(* longer than the buffer it is of, so that a value can be taken of it,    *)
(* whatever bytes were read into it and whoever used it before.            *)
THEOREM TypeCorrect == Spec => []TypeOK
<1>1. TypeOK /\ Next => TypeOK'
  <2> SUFFICES ASSUME TypeOK, Next PROVE TypeOK'
    OBVIOUS
  <2>1. ASSUME NEW p \in Callers, Call(p) PROVE TypeOK'
    BY <2>1, AcquireOK, WriteRequestOK, FailOK, ReturnOK DEF Call
  <2>2. ASSUME NEW k \in Ctxs, Serve(k) PROVE TypeOK'
    BY <2>2, ReadRequestOK, HandleOK, WriteResponseOK DEF Serve
  <2> QED
    BY <2>1, <2>2, ReadResponseOK, CloseOK, DialOK DEF Next
<1> QED
  BY <1>1, InitOK, Stuttering, PTL DEF Spec

-----------------------------------------------------------------------------
(* A stream is a sequence of frames.                                       *)

Numbered == Byte \X TLVs

(* The frame of a number and a message, and whether it can be written.     *)
Holder(m) == [head |-> m.head, buf |-> m.value, len |-> Len(m.value)]
FrameOf(f) == Frame(f[1], Holder(f[2]))
Bytes(f) == FrameOf(f).bytes
Fine(f) == ~FrameOf(f).err

(* A first part of a frame, or of one that was refused.                    *)
Broken(F, s) ==
  \/ Len(s) <= 2
  \/ \E f \in F : Fine(f) /\ \E k \in 0..(Len(Bytes(f)) - 1) : s = SubSeq(Bytes(f), 1, k)

(* Frames of F, one behind the other and none of them twice, the last of   *)
(* which may be cut.  Seen from its end: G is the set of what is left of   *)
(* it at some time, with the frames that may then still come.              *)
Lefts == Seq(Byte) \X SUBSET Numbered

Frames(F, G, s, cut) ==
  \/ s = <<>>
  \/ cut /\ Broken(F, s)
  \/ \E f \in F, x \in G :
       Fine(f) /\ s = Bytes(f) \o x[1] /\ x[2] \subseteq F \ {f}

Stream(F, in, cut) ==
  \E G \in SUBSET Lefts : <<in, F>> \in G /\ \A x \in G : Frames(x[2], G, x[1], cut)

LEMMA HolderSlice ==
  ASSUME NEW m \in TLVs
  PROVE  Slice(Holder(m)) /\ Holder(m).head = m.head /\ Value(Holder(m)) = m.value
<1>1. m.value \in Seq(Byte) /\ m.head \in Byte /\ Len(m.value) \in Nat
  BY LenProperties DEF TLVs
<1>2. /\ Holder(m) \in TLV /\ Holder(m).head = m.head
      /\ Holder(m).buf = m.value /\ Holder(m).len = Len(m.value)
  BY <1>1 DEF Holder, TLV
<1>3. Fits(Holder(m))
  BY <1>1, <1>2 DEF Fits
<1>4. Value(Holder(m)) = m.value
  BY <1>1, <1>2, SubSeqFull DEF Value
<1> QED
  BY <1>2, <1>3, <1>4 DEF Slice

(* A frame is of what an object holds, not of what its buffer does.        *)
LEMMA SameFrame ==
  ASSUME NEW n \in Byte, NEW w, Slice(w), NEW m \in TLVs, Asked(w) = m
  PROVE  Frame(n, w) = FrameOf(<<n, m>>)
<1>1. w.head = m.head /\ Value(w) = m.value
  <2>1. Asked(w).head = w.head /\ Asked(w).value = Value(w)
    BY DEF Asked
  <2> QED
    BY <2>1
<1>2. Holder(m).head = m.head /\ Value(Holder(m)) = m.value
  BY HolderSlice
<1>3. FrameOf(<<n, m>>) = Frame(n, Holder(m))
  BY DEF FrameOf
<1> QED
  BY <1>1, <1>2, <1>3 DEF Frame

LEMMA BytesType ==
  ASSUME NEW f \in Numbered
  PROVE  /\ Bytes(f) \in Seq(Byte) /\ Len(Bytes(f)) \in Nat
         /\ Fine(f) => Len(Bytes(f)) >= 6 /\ Bytes(f)[1] = f[1]
         /\ ~Fine(f) => Len(Bytes(f)) = 2
<1>1. f[1] \in Byte /\ f[2] \in TLVs
  BY DEF Numbered
<1> DEFINE w == Holder(f[2])
<1>2. Slice(w) /\ FrameOf(f) = Frame(f[1], w)
  BY <1>1, HolderSlice DEF FrameOf
<1> HIDE DEF w
<1>3. Bytes(f) = Frame(f[1], w).bytes /\ (Fine(f) <=> ~Frame(f[1], w).err)
  BY <1>2 DEF Bytes, Fine
<1>4. Bytes(f) \in Seq(Byte)
  BY <1>1, <1>2, <1>3, FrameType
<1>5. ASSUME Fine(f) PROVE Len(Bytes(f)) >= 6 /\ Bytes(f)[1] = f[1]
  <2>1. w.len \in Nat /\ Len(Frame(f[1], w).bytes) = 6 + w.len
        /\ Frame(f[1], w).bytes[1] = f[1]
    BY <1>1, <1>2, <1>3, <1>5, FrameBytes DEF Slice
  <2> QED
    BY <1>3, <2>1
<1>6. ASSUME ~Fine(f) PROVE Len(Bytes(f)) = 2
  BY <1>1, <1>2, <1>3, <1>6, RefusedFrame
<1> QED
  BY <1>4, <1>5, <1>6, LenProperties

-----------------------------------------------------------------------------
(* What keeps a stream one.                                                *)

LEMMA NoBytes ==
  ASSUME NEW F, F \subseteq Numbered, NEW cut
  PROVE  Stream(F, <<>>, cut)
<1> DEFINE G == {<<(<<>>), F>>}
<1>1. G \in SUBSET Lefts
  <2>1. <<>> \in Seq(Byte)
    OBVIOUS
  <2>2. <<(<<>>), F>> \in Seq(Byte) \X SUBSET Numbered
    BY <2>1
  <2> QED
    BY <2>2 DEF Lefts
<1>2. \A x \in G : Frames(x[2], G, x[1], cut)
  BY DEF Frames
<1> QED
  BY <1>1, <1>2 DEF Stream

LEMMA MoreFrames ==
  ASSUME NEW F1, NEW F2, F1 \subseteq F2, F2 \subseteq Numbered,
         NEW c1 \in BOOLEAN, NEW c2 \in BOOLEAN, c1 => c2,
         NEW in, Stream(F1, in, c1)
  PROVE  Stream(F2, in, c2)
<1>1. PICK G \in SUBSET Lefts : <<in, F1>> \in G /\ \A x \in G : Frames(x[2], G, x[1], c1)
  BY DEF Stream
<1> DEFINE H == G \cup {<<in, F2>>}
<1>2. H \in SUBSET Lefts
  <2>1. in \in Seq(Byte)
    BY <1>1 DEF Lefts
  <2> QED
    BY <2>1 DEF Lefts
<1>3. ASSUME NEW E, NEW D, E \subseteq D, NEW t, Frames(E, G, t, c1) PROVE Frames(D, H, t, c2)
  <2>1. CASE t = <<>>
    BY <2>1 DEF Frames
  <2>2. CASE c1 /\ Broken(E, t)
    BY <1>3, <2>2 DEF Frames, Broken
  <2>3. CASE \E f \in E, x \in G :
               Fine(f) /\ t = Bytes(f) \o x[1] /\ x[2] \subseteq E \ {f}
    <3>1. PICK f \in E, x \in G : Fine(f) /\ t = Bytes(f) \o x[1] /\ x[2] \subseteq E \ {f}
      BY <2>3
    <3>2. f \in D /\ x \in H /\ x[2] \subseteq D \ {f}
      BY <1>3, <3>1
    <3> QED
      BY <3>1, <3>2 DEF Frames
  <2> QED
    BY <1>3, <2>1, <2>2, <2>3 DEF Frames
<1>4. ASSUME NEW x \in H PROVE Frames(x[2], H, x[1], c2)
  <2>1. CASE x \in G
    BY <1>1, <1>3, <2>1
  <2>2. CASE x = <<in, F2>>
    <3>1. Frames(F1, G, in, c1)
      BY <1>1
    <3>2. Frames(F2, H, in, c2)
      BY <1>3, <3>1
    <3> QED
      BY <2>2, <3>2
  <2> QED
    BY <2>1, <2>2
<1> HIDE DEF H
<1>5. \A x \in H : Frames(x[2], H, x[1], c2)
  BY <1>4
<1>6. <<in, F2>> \in H
  BY DEF H
<1> QED
  BY <1>2, <1>5, <1>6 DEF Stream

LEMMA Behind ==
  ASSUME NEW F1, NEW in \in Seq(Byte), Stream(F1, in, FALSE),
         NEW F2, NEW b \in Seq(Byte), NEW cut, Stream(F2, b, cut),
         F1 \subseteq Numbered, F2 \subseteq Numbered, F1 \cap F2 = {}
  PROVE  Stream(F1 \cup F2, in \o b, cut)
<1>1. PICK G \in SUBSET Lefts : <<in, F1>> \in G /\ \A x \in G : Frames(x[2], G, x[1], FALSE)
  BY DEF Stream
<1>2. PICK B \in SUBSET Lefts : <<b, F2>> \in B /\ \A x \in B : Frames(x[2], B, x[1], cut)
  BY DEF Stream
<1> DEFINE Then(x) == <<x[1] \o b, x[2] \cup F2>>
           early == {x \in G : x[2] \subseteq F1}
           H == {Then(x) : x \in early} \cup B
<1>3. ASSUME NEW x \in early
      PROVE  x[1] \in Seq(Byte) /\ x[1] \o b \in Seq(Byte) /\ Then(x) \in Lefts
  <2>1. x[1] \in Seq(Byte) /\ x[2] \subseteq Numbered
    BY DEF Lefts
  <2>2. x[1] \o b \in Seq(Byte)
    BY <2>1, Joined
  <2> QED
    BY <2>1, <2>2 DEF Lefts
<1>4. H \in SUBSET Lefts /\ <<in \o b, F1 \cup F2>> \in H
  <2>1. <<in, F1>> \in early /\ Then(<<in, F1>>) = <<in \o b, F1 \cup F2>>
    BY <1>1
  <2> QED
    BY <1>3, <2>1
<1>5. ASSUME NEW x \in B PROVE Frames(x[2], H, x[1], cut)
  <2>1. B \subseteq H
    OBVIOUS
  <2>2. Frames(x[2], B, x[1], cut)
    BY <1>2
  <2> HIDE DEF H
  <2> QED
    BY <2>1, <2>2 DEF Frames
<1>6. ASSUME NEW x \in early PROVE Frames(Then(x)[2], H, Then(x)[1], cut)
  <2>1. CASE x[1] = <<>>
    <3>1. x[1] \o b = b
      BY <2>1, ConcatEmptySeq
    <3>2. Frames(F2, B, b, cut)
      BY <1>2
    <3>3. Frames(x[2] \cup F2, H, b, cut)
      <4>1. CASE b = <<>>
        BY <4>1 DEF Frames
      <4>2. CASE cut /\ Broken(F2, b)
        BY <4>2 DEF Frames, Broken
      <4>3. CASE \E f \in F2, y \in B :
                   Fine(f) /\ b = Bytes(f) \o y[1] /\ y[2] \subseteq F2 \ {f}
        <5>1. PICK f \in F2, y \in B : Fine(f) /\ b = Bytes(f) \o y[1] /\ y[2] \subseteq F2 \ {f}
          BY <4>3
        <5>2. f \in x[2] \cup F2 /\ y \in H /\ y[2] \subseteq (x[2] \cup F2) \ {f}
          BY <5>1
        <5> HIDE DEF H
        <5> QED
          BY <5>1, <5>2 DEF Frames
      <4> QED
        BY <3>2, <4>1, <4>2, <4>3 DEF Frames
    <3> HIDE DEF H
    <3> QED
      BY <3>1, <3>3
  <2>2. CASE \E f \in x[2], y \in G :
               Fine(f) /\ x[1] = Bytes(f) \o y[1] /\ y[2] \subseteq x[2] \ {f}
    <3>1. PICK f \in x[2], y \in G :
            Fine(f) /\ x[1] = Bytes(f) \o y[1] /\ y[2] \subseteq x[2] \ {f}
      BY <2>2
    <3>2. x[2] \subseteq F1 /\ f \in F1 /\ f \notin F2 /\ f \in Numbered
      BY <3>1
    <3>3. Bytes(f) \in Seq(Byte)
      BY <3>2, BytesType
    <3>4. y \in early
      BY <3>1, <3>2
    <3>5. y[1] \in Seq(Byte)
      BY <1>3, <3>4
    <3>6. x[1] \o b = Bytes(f) \o (y[1] \o b)
      <4> HIDE DEF H, Then, early
      <4>1. PICK v \in Seq(Byte) : v = y[1]
        BY <3>5
      <4>2. PICK u \in Seq(Byte) : u = Bytes(f)
        BY <3>3
      <4>3. (u \o v) \o b = u \o (v \o b)
        BY ConcatAssociative
      <4>4. x[1] = u \o v
        BY <3>1, <4>1, <4>2
      <4> QED
        BY <4>1, <4>2, <4>3, <4>4
    <3>7. Then(y) \in H
      BY <3>4
    <3>8. /\ Then(y)[1] = y[1] \o b /\ Then(y)[2] = y[2] \cup F2
          /\ Then(x)[1] = x[1] \o b /\ Then(x)[2] = x[2] \cup F2
      OBVIOUS
    <3> HIDE DEF H, Then, early
    <3>9. f \in Then(x)[2] /\ Then(y)[2] \subseteq Then(x)[2] \ {f}
      BY <3>1, <3>2, <3>8
    <3>10. Then(x)[1] = Bytes(f) \o Then(y)[1]
      BY <3>6, <3>8
    <3> QED
      BY <3>1, <3>7, <3>9, <3>10 DEF Frames
  <2>3. Frames(x[2], G, x[1], FALSE)
    BY <1>1
  <2> QED
    BY <2>1, <2>2, <2>3 DEF Frames
<1>7. \A x \in H : Frames(x[2], H, x[1], cut)
  <2>1. \A x \in H : x \in B \/ \E y \in early : x = Then(y)
    OBVIOUS
  <2> HIDE DEF H, Then, early
  <2> QED
    BY <1>5, <1>6, <2>1
<1> HIDE DEF H
<1> QED
  BY <1>4, <1>7 DEF Stream

(* A frame is written behind the others; one that is refused is the last.  *)
LEMMA Written ==
  ASSUME NEW F, F \subseteq Numbered, NEW f \in Numbered, f \notin F,
         NEW in \in Seq(Byte), Stream(F, in, FALSE)
  PROVE  Stream(F \cup {f}, in \o Bytes(f), ~Fine(f))
<1>1. Bytes(f) \in Seq(Byte) /\ (~Fine(f) => Len(Bytes(f)) = 2)
  BY BytesType
<1>2. Stream({f}, Bytes(f), ~Fine(f))
  <2> DEFINE G == {<<Bytes(f), {f}>>, <<(<<>>), {}>>}
  <2>1. G \in SUBSET Lefts /\ <<Bytes(f), {f}>> \in G
    <3>1. <<>> \in Seq(Byte) /\ {f} \in SUBSET Numbered /\ {} \in SUBSET Numbered
      OBVIOUS
    <3>2. <<Bytes(f), {f}>> \in Lefts /\ <<(<<>>), {}>> \in Lefts
      BY <1>1, <3>1 DEF Lefts
    <3> QED
      BY <3>2
  <2>2. Frames({}, G, <<>>, ~Fine(f))
    BY DEF Frames
  <2>3. Frames({f}, G, Bytes(f), ~Fine(f))
    <3>1. CASE Fine(f)
      <4>1. Bytes(f) = Bytes(f) \o <<>>
        BY <1>1, ConcatEmptySeq
      <4> DEFINE x == <<(<<>>), {}>>
      <4>2. x \in G /\ x[1] = <<>> /\ x[2] \subseteq {f} \ {f}
        OBVIOUS
      <4> HIDE DEF x, G
      <4>3. f \in {f} /\ Bytes(f) = Bytes(f) \o x[1]
        BY <4>1, <4>2
      <4> QED
        BY <3>1, <4>2, <4>3 DEF Frames
    <3>2. CASE ~Fine(f)
      <4> HIDE DEF G
      <4>1. Len(Bytes(f)) = 2 /\ 2 <= 2
        BY <1>1, <3>2
      <4>2. Broken({f}, Bytes(f))
        BY <4>1 DEF Broken
      <4> QED
        BY <3>2, <4>2 DEF Frames
    <3> QED
      BY <3>1, <3>2
  <2>4. \A x \in G : Frames(x[2], G, x[1], ~Fine(f))
    <3>1. \A x \in G : \/ x[1] = Bytes(f) /\ x[2] = {f}
                       \/ x[1] = <<>> /\ x[2] = {}
      OBVIOUS
    <3> HIDE DEF G
    <3> QED
      BY <2>2, <2>3, <3>1
  <2> HIDE DEF G
  <2> QED
    BY <2>1, <2>4 DEF Stream
<1>3. {f} \subseteq Numbered /\ F \cap {f} = {}
  OBVIOUS
<1> QED
  BY <1>1, <1>2, <1>3, Behind

(* What arrived of a stream before its connection ended.                   *)
LEMMA BrokenPart ==
  ASSUME NEW F, F \subseteq Numbered, NEW s \in Seq(Byte), Broken(F, s),
         NEW l \in 0..Len(s)
  PROVE  Broken(F, SubSeq(s, 1, l))
<1> DEFINE t == SubSeq(s, 1, l)
<1>0. Len(s) \in Nat /\ l \in Nat /\ l <= Len(s)
  BY LenProperties
<1>1. t \in Seq(Byte) /\ Len(t) = l
  <2>1. t \in Seq(Byte) /\ Len(t) = IF 1 <= l THEN l - 1 + 1 ELSE 0
    BY Part
  <2> HIDE DEF t
  <2> QED
    BY <1>0, <2>1
<1>2. CASE l <= 2
  BY <1>1, <1>2 DEF Broken
<1>3. CASE ~(l <= 2)
  <2>1. ~(Len(s) <= 2)
    BY <1>0, <1>3
  <2>2. PICK f \in F : Fine(f) /\ \E k \in 0..(Len(Bytes(f)) - 1) : s = SubSeq(Bytes(f), 1, k)
    BY <2>1 DEF Broken
  <2>3. PICK k \in 0..(Len(Bytes(f)) - 1) : s = SubSeq(Bytes(f), 1, k)
    BY <2>2
  <2>4. Bytes(f) \in Seq(Byte) /\ Len(Bytes(f)) \in Nat
    BY BytesType
  <2>5. k \in 0..Len(Bytes(f)) /\ k \in Nat
    BY <2>4
  <2>6. Len(s) = k
    <3>1. Len(SubSeq(Bytes(f), 1, k)) = IF 1 <= k THEN k - 1 + 1 ELSE 0
      BY <2>4, <2>5, Part
    <3> QED
      BY <2>3, <2>5, <3>1
  <2>7. /\ 1 \in 1..Len(Bytes(f)) /\ k \in 1..Len(Bytes(f))
        /\ 1 \in 1..(k - 1 + 1) /\ l \in 1..(k - 1 + 1)
    BY <1>0, <1>3, <2>4, <2>5, <2>6
  <2>8. SubSeq(SubSeq(Bytes(f), 1, k), 1, l) = SubSeq(Bytes(f), 1 + 1 - 1, 1 + l - 1)
    BY <2>4, <2>7, SubSeqOfSubSeq
  <2>9. 1 + 1 - 1 = 1 /\ 1 + l - 1 = l
    BY <1>0
  <2>10. t = SubSeq(Bytes(f), 1, l)
    BY <2>3, <2>8, <2>9
  <2>11. l \in 0..(Len(Bytes(f)) - 1)
    BY <1>0, <2>4, <2>6
  <2> QED
    BY <2>2, <2>10, <2>11 DEF Broken
<1> QED
  BY <1>2, <1>3

LEMMA StreamPart ==
  ASSUME NEW F, F \subseteq Numbered, NEW in \in Seq(Byte), NEW cut, Stream(F, in, cut),
         NEW t \in Prefixes(in)
  PROVE  Stream(F, t, TRUE)
<1>1. PICK G \in SUBSET Lefts : <<in, F>> \in G /\ \A x \in G : Frames(x[2], G, x[1], cut)
  BY DEF Stream
<1> DEFINE H == {y \in Lefts : \E x \in G : y[1] \in Prefixes(x[1]) /\ y[2] = x[2]}
<1>2. H \in SUBSET Lefts
  OBVIOUS
<1>3. <<t, F>> \in H
  <2>1. <<t, F>> \in Lefts
    BY Arrived DEF Lefts
  <2>2. <<t, F>>[1] \in Prefixes(<<in, F>>[1]) /\ <<t, F>>[2] = <<in, F>>[2]
    OBVIOUS
  <2> QED
    BY <1>1, <2>1, <2>2
<1>4. ASSUME NEW g \in G, NEW l \in 0..Len(g[1])
      PROVE  Frames(g[2], H, SubSeq(g[1], 1, l), TRUE)
  <2> DEFINE s == g[1]
             E == g[2]
             u == SubSeq(s, 1, l)
  <2>0. /\ s \in Seq(Byte) /\ Len(s) \in Nat /\ l \in Nat /\ l <= Len(s)
        /\ E \subseteq Numbered
    BY LenProperties DEF Lefts
  <2>1. Frames(E, G, s, cut)
    BY <1>1
  <2> SUFFICES Frames(E, H, u, TRUE)
    OBVIOUS
  <2> HIDE DEF s, E
  <2>2. u \in Seq(Byte) /\ Len(u) = l
    <3>1. u \in Seq(Byte) /\ Len(u) = IF 1 <= l THEN l - 1 + 1 ELSE 0
      BY <2>0, Part
    <3> HIDE DEF u
    <3> QED
      BY <2>0, <3>1
  <2>3. CASE s = <<>>
    <3>1. Len(s) = 0
      BY <2>3
    <3>2. u = <<>>
      BY <2>0, <2>2, <3>1, EmptySeq
    <3> QED
      BY <3>2 DEF Frames
  <2>4. CASE Broken(E, s)
    BY <2>0, <2>4, BrokenPart DEF Frames
  <2>5. CASE \E f \in E, x \in G :
               Fine(f) /\ s = Bytes(f) \o x[1] /\ x[2] \subseteq E \ {f}
    <3>0. PICK f \in E, x \in G : Fine(f) /\ s = Bytes(f) \o x[1] /\ x[2] \subseteq E \ {f}
      BY <2>5
    <3> DEFINE rest == x[1]
    <3>1. Fine(f) /\ s = Bytes(f) \o rest
      BY <3>0
    <3>2. Bytes(f) \in Seq(Byte) /\ Len(Bytes(f)) \in Nat /\ Len(Bytes(f)) >= 6
      BY <2>0, <3>1, BytesType
    <3>3. rest \in Seq(Byte) /\ Len(rest) \in Nat
      BY LenProperties DEF Lefts
    <3> HIDE DEF rest
    <3>4. /\ Len(s) = Len(Bytes(f)) + Len(rest)
          /\ \A i \in 1..Len(Bytes(f)) : s[i] = Bytes(f)[i]
          /\ \A i \in 1..Len(rest) : s[Len(Bytes(f)) + i] = rest[i]
      BY <3>1, <3>2, <3>3, Joined
    <3>5. CASE l < Len(Bytes(f))
      <4>1. CASE l = 0
        BY <2>2, <4>1 DEF Frames, Broken
      <4>2. CASE l # 0
        <5>1. 1 \in 1..Len(Bytes(f)) /\ l \in 1..Len(Bytes(f))
          BY <2>0, <3>2, <3>5, <4>2
        <5>2. u = SubSeq(Bytes(f), 1, l)
          BY <3>1, <3>2, <3>3, <5>1, SubSeqOfConcat1
        <5>3. l \in 0..(Len(Bytes(f)) - 1)
          BY <2>0, <3>2, <3>5
        <5> QED
          BY <3>1, <5>2, <5>3 DEF Frames, Broken
      <4> QED
        BY <4>1, <4>2
    <3>6. CASE ~(l < Len(Bytes(f)))
      <4> DEFINE m == l - Len(Bytes(f))
                 v == SubSeq(rest, 1, m)
      <4>1. m \in 0..Len(rest) /\ m \in Nat /\ l = Len(Bytes(f)) + m
        BY <2>0, <3>2, <3>3, <3>4, <3>6
      <4> HIDE DEF m
      <4>2. v \in Seq(Byte) /\ Len(v) = m /\ \A i \in 1..m : v[i] = rest[i]
        <5>1. /\ v \in Seq(Byte) /\ Len(v) = IF 1 <= m THEN m - 1 + 1 ELSE 0
              /\ \A i \in 1..(m - 1 + 1) : v[i] = rest[1 + i - 1]
          BY <3>3, <4>1, Part
        <5> HIDE DEF v
        <5>2. m - 1 + 1 = m /\ \A i \in 1..m : 1 + i - 1 = i
          BY <4>1
        <5> QED
          BY <4>1, <5>1, <5>2
      <4>3. <<v, x[2]>> \in H
        <5>1. v \in Prefixes(x[1])
          BY <3>3, <4>1 DEF Prefixes, rest
        <5>2. <<v, x[2]>> \in Lefts
          BY <4>2 DEF Lefts
        <5> QED
          BY <5>1, <5>2
      <4> HIDE DEF v
      <4>4. /\ Bytes(f) \o v \in Seq(Byte) /\ Len(Bytes(f) \o v) = l
            /\ \A i \in 1..Len(Bytes(f)) : (Bytes(f) \o v)[i] = Bytes(f)[i]
            /\ \A i \in 1..m : (Bytes(f) \o v)[Len(Bytes(f)) + i] = v[i]
        <5>1. /\ Bytes(f) \o v \in Seq(Byte)
              /\ Len(Bytes(f) \o v) = Len(Bytes(f)) + Len(v)
              /\ \A i \in 1..Len(Bytes(f)) : (Bytes(f) \o v)[i] = Bytes(f)[i]
              /\ \A i \in 1..Len(v) : (Bytes(f) \o v)[Len(Bytes(f)) + i] = v[i]
          BY <3>2, <4>2, Joined
        <5> QED
          BY <4>1, <4>2, <5>1
      <4>5. \A i \in 1..l : u[i] = s[i]
        <5>1. \A i \in 1..(l - 1 + 1) : u[i] = s[1 + i - 1]
          BY <2>0, Part
        <5> HIDE DEF u
        <5>2. l - 1 + 1 = l /\ \A i \in 1..l : 1 + i - 1 = i
          BY <2>0
        <5> QED
          BY <5>1, <5>2
      <4>6. \A i \in 1..l : u[i] = (Bytes(f) \o v)[i]
        <5> DEFINE n == Len(Bytes(f))
        <5>1. n \in Nat /\ l = n + m
          BY <3>2, <4>1
        <5> HIDE DEF n
        <5>2. ASSUME NEW i \in 1..l, i <= n PROVE u[i] = (Bytes(f) \o v)[i]
          <6>1. i \in 1..n
            BY <5>1, <5>2
          <6> QED
            BY <3>4, <4>4, <4>5, <6>1 DEF n
        <5>3. ASSUME NEW i \in 1..l, ~(i <= n) PROVE u[i] = (Bytes(f) \o v)[i]
          <6>1. PICK j \in 1..m : i = n + j
            <7>1. i - n \in 1..m /\ i = n + (i - n)
              BY <4>1, <5>1, <5>3
            <7> QED
              BY <7>1
          <6>2. j \in 1..Len(rest)
            BY <3>3, <4>1
          <6>3. s[n + j] = rest[j] /\ (Bytes(f) \o v)[n + j] = v[j] /\ v[j] = rest[j]
            BY <3>4, <4>2, <4>4, <6>2 DEF n
          <6> QED
            BY <4>5, <6>1, <6>3
        <5> QED
          BY <5>2, <5>3
      <4>7. u = Bytes(f) \o v
        BY <2>2, <4>4, <4>6, SeqEqual
      <4> DEFINE y == <<v, x[2]>>
      <4>8. y \in H /\ y[1] = v /\ y[2] = x[2]
        BY <4>3
      <4> HIDE DEF y, H, u
      <4> QED
        BY <3>0, <4>7, <4>8 DEF Frames
    <3> QED
      BY <3>5, <3>6
  <2> QED
    BY <2>1, <2>3, <2>4, <2>5 DEF Frames
<1>5. ASSUME NEW y \in H PROVE Frames(y[2], H, y[1], TRUE)
  <2>1. PICK x \in G : y[1] \in Prefixes(x[1]) /\ y[2] = x[2]
    OBVIOUS
  <2>2. PICK l \in 0..Len(x[1]) : y[1] = SubSeq(x[1], 1, l)
    BY <2>1 DEF Prefixes
  <2> HIDE DEF H
  <2> QED
    BY <1>4, <2>1, <2>2
<1> HIDE DEF H
<1>6. \A y \in H : Frames(y[2], H, y[1], TRUE)
  BY <1>5
<1> QED
  BY <1>2, <1>3, <1>6 DEF Stream

(* The next read of a stream: an error, or the first of its frames.        *)
Reads(F, in, cut, f) ==
  /\ in[1] = f[1]
  /\ \A o : Slice(o) => ~ReadFrame(o, in).err /\ Asked(ReadFrame(o, in).o) = f[2]
  /\ Stream(F \ {f}, After(in), cut)

LEMMA BrokenRead ==
  ASSUME NEW F, F \subseteq Numbered, NEW in \in Seq(Byte), Broken(F, in),
         NEW o, Slice(o)
  PROVE  ReadFrame(o, in).err
<1>0. Len(in) \in Nat
  BY LenProperties
<1>1. CASE Len(in) < 2
  BY <1>1 DEF ReadFrame
<1>2. CASE Len(in) = 2
  <2> DEFINE body == SubSeq(in, 3, Len(in))
  <2>1. body = <<>>
    BY <1>2, SubSeqEmpty
  <2>2. Len(body) < 4
    <3>1. Len(<<>>) = 0
      OBVIOUS
    <3> HIDE DEF body
    <3> QED
      BY <2>1, <3>1
  <2>3. ReadFrame(o, in) = ReadBytes([o EXCEPT !.head = in[2]], body)
    BY <1>2 DEF ReadFrame
  <2> HIDE DEF body
  <2> QED
    BY <2>2, <2>3 DEF ReadBytes, Refused
<1>3. CASE ~(Len(in) <= 2)
  <2>1. PICK f \in F : Fine(f) /\ \E k \in 0..(Len(Bytes(f)) - 1) : in = SubSeq(Bytes(f), 1, k)
    BY <1>3 DEF Broken
  <2>2. PICK k \in 0..(Len(Bytes(f)) - 1) : in = SubSeq(Bytes(f), 1, k)
    BY <2>1
  <2>3. f[1] \in Byte /\ f[2] \in TLVs
    BY DEF Numbered
  <2> DEFINE n == f[1]
             w == Holder(f[2])
  <2>4. w \in TLV /\ Fits(w) /\ o \in TLV /\ Fits(o)
    BY <2>3, HolderSlice DEF Slice
  <2>5. Bytes(f) = Frame(n, w).bytes /\ ~Frame(n, w).err
    BY <2>1 DEF Bytes, Fine, FrameOf
  <2>6. k \in 0..(Len(Frame(n, w).bytes) - 1)
    BY <2>5
  <2> HIDE DEF n, w
  <2>7. ReadFrame(o, SubSeq(Frame(n, w).bytes, 1, k)).err
    <3>1. n \in Byte
      BY <2>3 DEF n
    <3> QED
      BY <2>4, <2>5, <2>6, <3>1, CutShort
  <2> QED
    BY <2>2, <2>5, <2>7
<1>4. Len(in) < 2 \/ Len(in) = 2 \/ ~(Len(in) <= 2)
  BY <1>0
<1> QED
  BY <1>1, <1>2, <1>3, <1>4

LEMMA ReadStream ==
  ASSUME NEW F, F \subseteq Numbered, NEW in \in Seq(Byte), in # <<>>,
         NEW cut \in BOOLEAN, Stream(F, in, cut)
  PROVE  \/ cut /\ \A o : Slice(o) => ReadFrame(o, in).err
         \/ \E f \in F : Reads(F, in, cut, f)
<1>1. PICK G \in SUBSET Lefts : <<in, F>> \in G /\ \A x \in G : Frames(x[2], G, x[1], cut)
  BY DEF Stream
<1>2. CASE cut /\ Broken(F, in)
  BY <1>2, BrokenRead
<1>3. CASE \E f \in F, x \in G : Fine(f) /\ in = Bytes(f) \o x[1] /\ x[2] \subseteq F \ {f}
  <2>1. PICK f \in F, x \in G : Fine(f) /\ in = Bytes(f) \o x[1] /\ x[2] \subseteq F \ {f}
    BY <1>3
  <2> DEFINE rest == x[1]
  <2>2. Fine(f) /\ in = Bytes(f) \o rest
    BY <2>1
  <2>3. rest \in Seq(Byte)
    BY DEF Lefts
  <2> HIDE DEF rest
  <2> DEFINE n == f[1]
             w == Holder(f[2])
  <2>4. n \in Byte /\ f[2] \in TLVs
    BY DEF Numbered
  <2>5. w \in TLV /\ Fits(w) /\ w.head = f[2].head /\ Value(w) = f[2].value
    BY <2>4, HolderSlice DEF Slice
  <2>6. Bytes(f) = Frame(n, w).bytes /\ ~Frame(n, w).err
    BY <2>2 DEF Bytes, Fine, FrameOf
  <2> HIDE DEF n, w
  <2>7. rest \in Seq(Byte) /\ in = Frame(n, w).bytes \o rest
    BY <2>2, <2>3, <2>6
  <2>8. ASSUME NEW o, Slice(o)
        PROVE  /\ ~ReadFrame(o, in).err /\ ReadFrame(o, in).o.head = f[2].head
               /\ Value(ReadFrame(o, in).o) = f[2].value /\ After(in) = rest
    <3>1. o \in TLV /\ Fits(o)
      BY <2>8 DEF Slice
    <3> QED
      BY <2>4, <2>5, <2>6, <2>7, <3>1, ReadBack
  <2>9. ASSUME NEW o, Slice(o)
        PROVE  ~ReadFrame(o, in).err /\ Asked(ReadFrame(o, in).o) = f[2]
    <3>1. f[2] = [head |-> f[2].head, value |-> f[2].value]
      BY <2>4 DEF TLVs
    <3> QED
      BY <2>8, <2>9, <3>1 DEF Asked
  <2>10. After(in) = rest
    BY <2>8, NewSlice
  <2>11. in[1] = f[1]
    <3>1. Bytes(f) \in Seq(Byte) /\ Len(Bytes(f)) \in Nat
          /\ Len(Bytes(f)) >= 6 /\ Bytes(f)[1] = f[1]
      BY <2>2, BytesType
    <3>2. 1 \in 1..Len(Bytes(f))
      BY <3>1
    <3>3. in[1] = Bytes(f)[1]
      <4>1. \A i \in 1..Len(Bytes(f)) : (Bytes(f) \o rest)[i] = Bytes(f)[i]
        BY <2>7, <3>1, Joined
      <4> QED
        BY <2>2, <3>2, <4>1
    <3> QED
      BY <3>1, <3>3
  <2>12. Stream(F \ {f}, rest, cut)
    <3>1. Stream(x[2], x[1], cut)
      <4>1. <<x[1], x[2]>> = x
        BY DEF Lefts
      <4> QED
        BY <1>1, <4>1 DEF Stream
    <3>2. F \ {f} \subseteq Numbered
      OBVIOUS
    <3>3. Stream(F \ {f}, x[1], cut)
      BY <2>1, <3>1, <3>2, MoreFrames
    <3> QED
      BY <3>3 DEF rest
  <2> QED
    BY <2>9, <2>10, <2>11, <2>12 DEF Reads
<1>4. Frames(F, G, in, cut)
  BY <1>1
<1> QED
  BY <1>2, <1>3, <1>4 DEF Frames

(* A value appended to an empty object is all it holds.                    *)
LEMMA AppendedOnly ==
  ASSUME NEW o, Slice(o), o.len = 0, NEW v \in Seq(Byte)
  PROVE  Value(AppendValue(o, v)) = v /\ AppendValue(o, v).head = o.head
<1> DEFINE both == Value(o) \o v
           buf == Over(o.buf, both)
           new == [o EXCEPT !.buf = buf, !.len = o.len + Len(v)]
<1>0. o.buf \in Seq(Byte) /\ Len(v) \in Nat
  BY LenProperties DEF Slice, TLV
<1>1. Value(o) = <<>>
  <2>1. Value(o) = SubSeq(o.buf, 1, 0)
    BY DEF Value
  <2> QED
    BY <2>1, SubSeqEmpty
<1>2. both = v
  BY <1>1, ConcatEmptySeq
<1> HIDE DEF both
<1>3. \A i \in 1..Len(v) : buf[i] = v[i]
  BY <1>0, <1>2, OverFacts
<1> HIDE DEF buf
<1>4. AppendValue(o, v) = new
  BY DEF AppendValue, buf, both
<1>5. new.buf = buf /\ new.len = Len(v) /\ new.head = o.head
  <2>1. o.len + Len(v) = Len(v)
    BY <1>0
  <2> QED
    BY <2>1 DEF Slice, TLV
<1> HIDE DEF new
<1>6. new \in TLV /\ Fits(new)
  BY <1>4, AppendSlice DEF Slice
<1>7. Value(new) \in Seq(Byte) /\ Len(Value(new)) = Len(v)
      /\ \A i \in 1..Len(v) : Value(new)[i] = v[i]
  BY <1>3, <1>5, <1>6, ValueFacts
<1>8. Value(new) = v
  BY <1>7, SeqEqual
<1> QED
  BY <1>4, <1>5, <1>8

-----------------------------------------------------------------------------
(* The inductive invariant.  On the way up there are requests under their  *)
(* own numbers that are nowhere else, on the way down the answers to those *)
(* that were handled and are nowhere else; whoever holds objects holds     *)
(* them alone; and what is not being used is empty.                        *)

Known(n) == n \in 1..Len(asked)
Active(p) == call[p].pc # "idle"

(* Where a request is, by its number.                                      *)
Ready == {call[p].n : p \in {q \in Callers : call[q].pc = "ready"}}
Serving == {ctx[k].n : k \in {j \in Ctxs : ctx[j].phase = "serve"}}
Handled == {served[i][1] : i \in DOMAIN served}
Done == {ctx[k].n : k \in {j \in Ctxs : ctx[j].phase = "done"}}

Unread == {n \in 1..Len(asked) : n \notin Ready /\ n \notin Serving /\ n \notin Handled}
Unanswered == {n \in 1..Len(asked) : n \in Handled /\ n \notin Done}

Ups(a, N) == {<<n, a[n]>> : n \in N}
Downs(a, N) == {<<n, Answers[a[n]]>> : n \in N}
UpFrames == Ups(asked, Unread)
DownFrames == Downs(asked, Unanswered)

PoolInv ==
  /\ \A o \in freeRequests : requests[o].len = 0
  /\ \A p \in Callers : Active(p) =>
       /\ call[p].req \notin freeRequests /\ call[p].resp \notin freeResponses
       /\ Known(call[p].n)
  /\ \A p, q \in Callers : Active(p) /\ Active(q) /\ p # q =>
       call[p].req # call[q].req /\ call[p].resp # call[q].resp

CallInv ==
  \A p \in Callers :
    /\ call[p].pc = "ready" => Asked(requests[call[p].req]) = asked[call[p].n]
    /\ call[p].pc = "answered" =>
         Asked(responses[call[p].resp]) = Answers[asked[call[p].n]]

ResultInv ==
  \A p \in Callers : result[p].ok =>
    /\ Known(result[p].n)
    /\ [head |-> result[p].head, value |-> result[p].value] = Answers[asked[result[p].n]]

CtxInv ==
  \A k \in Ctxs :
    /\ ctx[k].phase = "serve" =>
         /\ Known(ctx[k].n) /\ Asked(ctx[k].request) = asked[ctx[k].n]
         /\ ctx[k].response.len = 0
    /\ ctx[k].phase = "done" =>
         Known(ctx[k].n) /\ Asked(ctx[k].response) = Answers[asked[ctx[k].n]]

StreamInv == Stream(UpFrames, up, ~connected) /\ Stream(DownFrames, down, ~connected)

(* Each request is in one place, and was served as it was asked, once.     *)
ServedInv ==
  /\ \A i \in DOMAIN served :
       Known(served[i][1]) /\ served[i][2] = asked[served[i][1]]
  /\ \A i, j \in DOMAIN served : i # j => served[i][1] # served[j][1]

PlaceInv ==
  /\ Ready \cap Serving = {} /\ Ready \cap Handled = {} /\ Serving \cap Handled = {}
  /\ Done \subseteq Handled

CallerInv ==
  /\ \A p \in Callers : call[p].pc = "answered" => call[p].n \in Handled
  /\ \A p, q \in Callers : Active(p) /\ Active(q) /\ p # q => call[p].n # call[q].n

AloneInv ==
  \A j, k \in Ctxs :
    ctx[j].phase = ctx[k].phase /\ ctx[k].phase # "idle" /\ j # k => ctx[j].n # ctx[k].n

OnceInv == ServedInv /\ PlaceInv /\ CallerInv /\ AloneInv

Inv == PoolInv /\ CallInv /\ ResultInv /\ CtxInv /\ OnceInv /\ StreamInv

TypesOK == PoolsOK /\ StreamOK /\ CtxOK /\ CallsOK

LEMMA AskedType ==
  ASSUME CallsOK, NEW n \in 1..Len(asked)
  PROVE  /\ n \in Byte /\ asked[n] \in Messages
         /\ asked[n] \in TLVs /\ Answers[asked[n]] \in TLVs
<1>1. asked[n] \in Messages
  BY ElementOfSeq DEF CallsOK
<1>2. n \in Byte
  <2>1. Len(asked) \in Nat /\ Len(asked) <= MaxCalls
    BY LenProperties DEF CallsOK
  <2>2. n \in 0..MaxCalls
    BY <2>1, Numbers
  <2> QED
    BY <2>2, Numbers
<1> QED
  BY <1>1, <1>2, MessagesAssumption, AnswersAssumption
  DEF MessagesAssumption, AnswersAssumption, TLVs

LEMMA FramesType ==
  ASSUME NEW a \in Seq(Messages), Len(a) <= MaxCalls, NEW N, N \subseteq 1..Len(a)
  PROVE  Ups(a, N) \subseteq Numbered /\ Downs(a, N) \subseteq Numbered
<1>1. ASSUME NEW n \in N PROVE n \in Byte /\ a[n] \in TLVs /\ Answers[a[n]] \in TLVs
  <2>1. Len(a) \in Nat /\ n \in 1..Len(a)
    BY LenProperties
  <2>2. n \in 0..MaxCalls
    BY <2>1, Numbers
  <2>3. a[n] \in Messages
    BY <2>1, ElementOfSeq
  <2> QED
    BY <2>2, <2>3, Numbers, MessagesAssumption, AnswersAssumption
    DEF MessagesAssumption, AnswersAssumption, TLVs
<1> QED
  BY <1>1 DEF Ups, Downs, Numbered

LEMMA FramesNow ==
  ASSUME CallsOK
  PROVE  UpFrames \subseteq Numbered /\ DownFrames \subseteq Numbered
<1>1. Unread \subseteq 1..Len(asked) /\ Unanswered \subseteq 1..Len(asked)
  BY DEF Unread, Unanswered
<1> QED
  BY <1>1, FramesType DEF CallsOK, UpFrames, DownFrames

LEMMA FramesNext ==
  ASSUME CallsOK'
  PROVE  UpFrames' \subseteq Numbered /\ DownFrames' \subseteq Numbered
<1>1. Unread' \subseteq 1..Len(asked') /\ Unanswered' \subseteq 1..Len(asked')
  BY DEF Unread, Unanswered
<1>2. asked' \in Seq(Messages) /\ Len(asked') <= MaxCalls
  BY DEF CallsOK
<1>3. UpFrames' = Ups(asked', Unread') /\ DownFrames' = Downs(asked', Unanswered')
  BY DEF UpFrames, DownFrames
<1> QED
  BY <1>1, <1>2, <1>3, FramesType

(* The numbers of requests.                                                *)
LEMMA KnownNumbers ==
  ASSUME Inv
  PROVE  /\ Ready \subseteq 1..Len(asked) /\ Serving \subseteq 1..Len(asked)
         /\ Handled \subseteq 1..Len(asked)
<1>1. Ready \subseteq 1..Len(asked)
  BY DEF Inv, PoolInv, Active, Known, Ready
<1>2. Serving \subseteq 1..Len(asked)
  BY DEF Inv, CtxInv, Known, Serving
<1>3. Handled \subseteq 1..Len(asked)
  BY DEF Inv, OnceInv, ServedInv, Known, Handled
<1> QED
  BY <1>1, <1>2, <1>3

(* The calls and the contexts when nothing is asked and no object written. *)
LEMMA InitInv == Init => Inv
<1> SUFFICES ASSUME Init PROVE Inv
  OBVIOUS
<1>1. PoolInv
  BY DEF Init, PoolInv, Active, New
<1>2. CallInv
  BY DEF Init, CallInv
<1>3. ResultInv
  BY DEF Init, ResultInv, NoResult
<1>4. CtxInv
  BY DEF Init, CtxInv
<1>5. StreamInv
  <2>1. UpFrames \subseteq Numbered /\ DownFrames \subseteq Numbered
    BY InitOK, Parts, FramesNow
  <2> QED
    BY <2>1, NoBytes DEF Init, StreamInv
<1>6. OnceInv
  <2>1. Ready = {} /\ Serving = {} /\ Done = {} /\ DOMAIN served = {}
    BY DEF Init, Ready, Serving, Done
  <2>2. \A p \in Callers : call[p].pc = "idle"
    BY DEF Init
  <2>3. \A k \in Ctxs : ctx[k].phase = "idle"
    BY DEF Init
  <2> QED
    BY <2>1, <2>2, <2>3
    DEF OnceInv, Handled, ServedInv, PlaceInv, CallerInv, AloneInv, Active
<1> QED
  BY <1>1, <1>2, <1>3, <1>4, <1>5, <1>6 DEF Inv

(* A stream that a step does not touch.                                    *)
LEMMA Longer ==
  ASSUME NEW F1, NEW F2, F1 \subseteq F2, F2 \subseteq Numbered,
         connected' \in BOOLEAN, connected' => connected,
         NEW in, Stream(F1, in, ~connected)
  PROVE  Stream(F2, in, ~connected')
<1> DEFINE c1 == ~connected
           c2 == ~connected'
<1>1. c1 \in BOOLEAN /\ c2 \in BOOLEAN /\ (c1 => c2) /\ Stream(F1, in, c1)
  OBVIOUS
<1> HIDE DEF c1, c2
<1>2. Stream(F2, in, c2)
  BY <1>1, MoreFrames
<1> QED
  BY <1>2 DEF c2

LEMMA UpKept ==
  ASSUME TypesOK', StreamInv, UNCHANGED up, connected' => connected,
         Unread \subseteq Unread', \A n \in 1..Len(asked) : asked'[n] = asked[n]
  PROVE  Stream(UpFrames', up', ~connected')
<1>1. UpFrames \subseteq UpFrames'
  <2>1. \A n \in Unread : n \in Unread' /\ <<n, asked[n]>> = <<n, asked'[n]>>
    BY DEF Unread
  <2>2. UpFrames' = Ups(asked', Unread')
    BY DEF UpFrames
  <2> QED
    BY <2>1, <2>2 DEF UpFrames, Ups
<1>2. UpFrames' \subseteq Numbered /\ connected' \in BOOLEAN
  BY FramesNext DEF TypesOK, StreamOK
<1>3. Stream(UpFrames', up, ~connected')
  BY <1>1, <1>2, Longer DEF StreamInv
<1> QED
  BY <1>3

LEMMA DownKept ==
  ASSUME TypesOK', StreamInv, UNCHANGED down, connected' => connected,
         Unanswered \subseteq Unanswered', \A n \in 1..Len(asked) : asked'[n] = asked[n]
  PROVE  Stream(DownFrames', down', ~connected')
<1>1. DownFrames \subseteq DownFrames'
  <2>1. \A n \in Unanswered :
          n \in Unanswered' /\ <<n, Answers[asked[n]]>> = <<n, Answers[asked'[n]]>>
    BY DEF Unanswered
  <2>2. DownFrames' = Downs(asked', Unanswered')
    BY DEF DownFrames
  <2> QED
    BY <2>1, <2>2 DEF DownFrames, Downs
<1>2. DownFrames' \subseteq Numbered /\ connected' \in BOOLEAN
  BY FramesNext DEF TypesOK, StreamOK
<1>3. Stream(DownFrames', down, ~connected')
  BY <1>1, <1>2, Longer DEF StreamInv
<1> QED
  BY <1>3

LEMMA SamePlaces ==
  /\ UNCHANGED call => Ready' = Ready
  /\ UNCHANGED ctx => Serving' = Serving /\ Done' = Done
  /\ UNCHANGED served => Handled' = Handled
BY DEF Ready, Serving, Done, Handled

(* What follows of a step that leaves every request in its place.          *)
LEMMA Nowhere ==
  ASSUME UNCHANGED <<asked, Ready, Serving, Done, Handled>>
  PROVE  Unread' = Unread /\ Unanswered' = Unanswered
BY DEF Unread, Unanswered

LEMMA SameFrames ==
  ASSUME UNCHANGED <<call, ctx, asked, served>>
  PROVE  UpFrames' = UpFrames /\ DownFrames' = DownFrames
BY SamePlaces, Nowhere DEF UpFrames, DownFrames

LEMMA OnceKept ==
  ASSUME OnceInv, UNCHANGED <<call, ctx, asked, served>>
  PROVE  OnceInv'
BY SamePlaces DEF OnceInv, ServedInv, PlaceInv, CallerInv, AloneInv, Active, Known

Moved(p, to) ==
  /\ \A q \in Callers \ {p} : call'[q] = call[q]
  /\ call'[p].pc = to /\ call'[p].n = call[p].n
  /\ call'[p].req = call[p].req /\ call'[p].resp = call[p].resp

LEMMA MovedEffect ==
  ASSUME CallsOK, NEW p \in Callers, NEW from, NEW to, MoveTo(p, from, to)
  PROVE  call[p].pc = from /\ Moved(p, to)
BY DEF CallsOK, CallType, MoveTo, Moved

(* A caller that goes on to wait or gives up.                              *)
LEMMA MovedInv ==
  ASSUME TypesOK, PoolInv, CallInv, NEW p \in Callers, Active(p),
         NEW to \in {"waiting", "failed"}, Moved(p, to), UNCHANGED <<pools, asked>>
  PROVE  PoolInv' /\ CallInv'
<1>0. to # "idle" /\ to # "ready" /\ to # "answered"
  OBVIOUS
<1>1. PoolInv'
  BY <1>0 DEF PoolInv, Moved, Active, Known, pools
<1>2. CallInv'
  <2>1. requests' = requests /\ responses' = responses /\ asked' = asked
    BY DEF pools
  <2>2. ASSUME NEW q \in Callers
        PROVE  /\ call'[q].pc = "ready" =>
                    Asked(requests'[call'[q].req]) = asked'[call'[q].n]
               /\ call'[q].pc = "answered" =>
                    Asked(responses'[call'[q].resp]) = Answers[asked'[call'[q].n]]
    <3>1. CASE q = p
      BY <1>0, <3>1 DEF Moved
    <3>2. CASE q # p
      <4>1. call'[q] = call[q]
        BY <3>2 DEF Moved
      <4> QED
        BY <2>1, <4>1 DEF CallInv
    <3> QED
      BY <3>1, <3>2
  <2> QED
    BY <2>2 DEF CallInv, Asked, Value
<1> QED
  BY <1>1, <1>2

LEMMA MovedOnce ==
  ASSUME TypesOK, OnceInv, NEW p \in Callers, Active(p),
         NEW to \in {"waiting", "failed"}, Moved(p, to), UNCHANGED <<ctx, asked, served>>
  PROVE  /\ Ready' = Ready \ {call[p].n}
         /\ Serving' = Serving /\ Done' = Done /\ Handled' = Handled /\ OnceInv'
<1>0. to # "idle" /\ to # "ready" /\ to # "answered"
  OBVIOUS
<1>1. /\ call'[p].pc = to /\ call'[p].n = call[p].n
      /\ \A q \in Callers \ {p} : call'[q] = call[q]
  BY DEF Moved
<1>2. Ready' = Ready \ {call[p].n}
  <2>1. \A q \in Callers \ {p} : call[q].pc = "ready" => call[q].n # call[p].n
    BY DEF OnceInv, CallerInv, Active
  <2>2. ASSUME NEW x \in Ready' PROVE x \in Ready \ {call[p].n}
    <3>1. PICK q \in Callers : call'[q].pc = "ready" /\ x = call'[q].n
      BY DEF Ready
    <3>2. q # p /\ call[q].pc = "ready" /\ x = call[q].n
      BY <1>0, <1>1, <3>1
    <3> QED
      BY <2>1, <3>2 DEF Ready
  <2>3. ASSUME NEW x \in Ready \ {call[p].n} PROVE x \in Ready'
    <3>1. PICK q \in Callers : call[q].pc = "ready" /\ x = call[q].n
      BY DEF Ready
    <3>2. q # p /\ call'[q].pc = "ready" /\ x = call'[q].n
      BY <1>1, <3>1
    <3> QED
      BY <3>2 DEF Ready
  <2> QED
    BY <2>2, <2>3
<1>3. Serving' = Serving /\ Done' = Done /\ Handled' = Handled
  BY SamePlaces
<1>4. ServedInv' /\ AloneInv'
  BY DEF OnceInv, ServedInv, AloneInv, Known
<1>5. PlaceInv'
  BY <1>2, <1>3 DEF OnceInv, PlaceInv
<1>6. CallerInv'
  <2>1. \A q \in Callers : /\ call'[q].n = call[q].n /\ (Active(q)' => Active(q))
                          /\ (call'[q].pc = "answered" => call[q].pc = "answered")
    BY <1>0, <1>1 DEF Active
  <2> QED
    BY <1>3, <2>1 DEF OnceInv, CallerInv
<1> QED
  BY <1>2, <1>3, <1>4, <1>5, <1>6 DEF OnceInv

(* The places of the requests when one context changes.                    *)
LEMMA CtxMoved ==
  ASSUME CtxOK, AloneInv, NEW k \in Ctxs, NEW c, ctx' = [ctx EXCEPT ![k] = c]
  PROVE  /\ \A x \in Serving' : x \in Serving \/ (c.phase = "serve" /\ x = c.n)
         /\ \A x \in Done' : x \in Done \/ (c.phase = "done" /\ x = c.n)
         /\ ctx[k].phase = "serve" /\ c.phase # "serve" => ctx[k].n \notin Serving'
         /\ ctx[k].phase = "done" /\ c.phase # "done" => ctx[k].n \notin Done'
         /\ c.phase \in {"idle", "serve", "done"}
              /\ (c.phase = "serve" => c.n \notin Serving)
              /\ (c.phase = "done" => c.n \notin Done) => AloneInv'
<1>1. ctx'[k] = c /\ \A j \in Ctxs \ {k} : ctx'[j] = ctx[j]
  BY DEF CtxOK
<1>2. ASSUME NEW x \in Serving' PROVE x \in Serving \/ (c.phase = "serve" /\ x = c.n)
  <2>1. PICK j \in Ctxs : ctx'[j].phase = "serve" /\ x = ctx'[j].n
    BY DEF Serving
  <2>2. CASE j = k
    <3>1. c.phase = "serve" /\ x = c.n
      BY <1>1, <2>1, <2>2
    <3> QED
      BY <3>1
  <2>3. CASE j # k
    <3>1. ctx[j].phase = "serve" /\ x = ctx[j].n
      BY <1>1, <2>1, <2>3
    <3>2. x \in Serving
      BY <3>1 DEF Serving
    <3> QED
      BY <3>2
  <2> QED
    BY <2>2, <2>3
<1>3. ASSUME NEW x \in Done' PROVE x \in Done \/ (c.phase = "done" /\ x = c.n)
  <2>1. PICK j \in Ctxs : ctx'[j].phase = "done" /\ x = ctx'[j].n
    BY DEF Done
  <2>2. CASE j = k
    <3>1. c.phase = "done" /\ x = c.n
      BY <1>1, <2>1, <2>2
    <3> QED
      BY <3>1
  <2>3. CASE j # k
    <3>1. ctx[j].phase = "done" /\ x = ctx[j].n
      BY <1>1, <2>1, <2>3
    <3>2. x \in Done
      BY <3>1 DEF Done
    <3> QED
      BY <3>2
  <2> QED
    BY <2>2, <2>3
<1>4. ASSUME ctx[k].phase = "serve", c.phase # "serve" PROVE ctx[k].n \notin Serving'
  <2>1. ASSUME NEW j \in Ctxs, ctx'[j].phase = "serve" PROVE ctx'[j].n # ctx[k].n
    <3>1. j # k /\ ctx'[j] = ctx[j]
      BY <1>1, <1>4, <2>1
    <3> QED
      BY <1>4, <2>1, <3>1 DEF AloneInv
  <2> QED
    BY <2>1 DEF Serving
<1>5. ASSUME ctx[k].phase = "done", c.phase # "done" PROVE ctx[k].n \notin Done'
  <2>1. ASSUME NEW j \in Ctxs, ctx'[j].phase = "done" PROVE ctx'[j].n # ctx[k].n
    <3>1. j # k /\ ctx'[j] = ctx[j]
      BY <1>1, <1>5, <2>1
    <3> QED
      BY <1>5, <2>1, <3>1 DEF AloneInv
  <2> QED
    BY <2>1 DEF Done
<1>6. ASSUME c.phase \in {"idle", "serve", "done"},
             c.phase = "serve" => c.n \notin Serving, c.phase = "done" => c.n \notin Done
      PROVE  AloneInv'
  <2>1. ASSUME NEW j \in Ctxs \ {k}, ctx[j].phase = c.phase, c.phase # "idle"
        PROVE  ctx[j].n # c.n
    <3>1. c.phase = "serve" \/ c.phase = "done"
      BY <1>6, <2>1
    <3> QED
      BY <1>6, <2>1, <3>1 DEF Serving, Done
  <2>2. ASSUME NEW j \in Ctxs, NEW i \in Ctxs, ctx'[j].phase = ctx'[i].phase,
               ctx'[i].phase # "idle", j # i
        PROVE  ctx'[j].n # ctx'[i].n
    <3>1. CASE j = k
      BY <1>1, <2>1, <2>2, <3>1
    <3>2. CASE i = k
      BY <1>1, <2>1, <2>2, <3>2
    <3>3. CASE j # k /\ i # k
      BY <1>1, <2>2, <3>3 DEF AloneInv
    <3> QED
      BY <3>1, <3>2, <3>3
  <2> QED
    BY <2>2 DEF AloneInv
<1> QED
  BY <1>2, <1>3, <1>4, <1>5, <1>6

LEMMA AcquireInv ==
  ASSUME TypesOK, TypesOK', Inv, NEW p \in Callers, NEW o \in Objects, NEW q \in Objects,
         NEW m \in Messages, Acquire(p, o, q, m)
  PROVE  Inv'
<1> DEFINE r == AppendValue([requests[o] EXCEPT !.head = m.head], m.value)
           n == Len(asked) + 1
<1>0. /\ call[p].pc = "idle" /\ o \in freeRequests /\ q \in freeResponses
      /\ freeRequests' = freeRequests \ {o} /\ freeResponses' = freeResponses \ {q}
      /\ requests' = [requests EXCEPT ![o] = r] /\ asked' = Append(asked, m)
      /\ result' = [result EXCEPT ![p] = NoResult]
      /\ UNCHANGED <<responses, stream, ctx, served>>
  BY DEF Acquire
<1>1. /\ asked \in Seq(Messages) /\ Len(asked) \in Nat /\ Len(asked') = n
      /\ asked'[n] = m /\ \A i \in 1..Len(asked) : asked'[i] = asked[i]
  BY <1>0, LenProperties, AppendProperties DEF TypesOK, CallsOK
<1>2. n \in 1..n /\ \A i \in 1..Len(asked) : i \in 1..n
  BY <1>1
<1>3. /\ call'[p] = [pc |-> "ready", n |-> n, req |-> o, resp |-> q]
      /\ \A x \in Callers \ {p} : call'[x] = call[x]
  <2>1. call' = [call EXCEPT ![p] = [pc |-> "ready", n |-> Len(asked'), req |-> o, resp |-> q]]
    BY DEF Acquire
  <2> QED
    BY <1>1, <2>1 DEF TypesOK, CallsOK
<1>4. Asked(r) = m
  <2> DEFINE e == [requests[o] EXCEPT !.head = m.head]
  <2>1. m.head \in Byte /\ m.value \in Seq(Byte) /\ m = [head |-> m.head, value |-> m.value]
    BY MessagesAssumption DEF MessagesAssumption
  <2>2. Slice(requests[o]) /\ requests[o].len = 0
    BY <1>0 DEF TypesOK, PoolsOK, Slice, Inv, PoolInv
  <2>3. Slice(e) /\ e.len = 0 /\ e.head = m.head
    <3>1. e.len = 0 /\ e.head = m.head
      BY <2>2 DEF Slice, TLV
    <3> QED
      BY <2>1, <2>2, <3>1, HeadSlice
  <2>4. r = AppendValue(e, m.value)
    OBVIOUS
  <2> HIDE DEF e, r
  <2>5. Value(r) = m.value /\ r.head = m.head
    BY <2>1, <2>3, <2>4, AppendedOnly
  <2> QED
    BY <2>1, <2>5 DEF Asked
<1> HIDE DEF r
<1>5. requests'[o] = r /\ \A x \in Objects \ {o} : requests'[x] = requests[x]
  BY <1>0 DEF TypesOK, PoolsOK
<1> HIDE DEF n
<1>6. ASSUME NEW x \in Callers, x # p, Active(x)
      PROVE  /\ call[x].req # o /\ call[x].resp # q
             /\ call[x].req \in Objects /\ Known(call[x].n)
             /\ call[x].req \notin freeRequests /\ call[x].resp \notin freeResponses
  BY <1>0, <1>6 DEF Inv, PoolInv, TypesOK, CallsOK, CallType
<1>7. \A i : Known(i) => Known(i)' /\ asked'[i] = asked[i]
  BY <1>1, <1>2 DEF Known
<1>8. PoolInv'
  <2>1. \A x \in freeRequests' : requests'[x].len = 0
    BY <1>0, <1>5 DEF Inv, PoolInv, TypesOK, PoolsOK
  <2>2. ASSUME NEW x \in Callers, Active(x)'
        PROVE  /\ call'[x].req \notin freeRequests' /\ call'[x].resp \notin freeResponses'
               /\ call'[x].n \in 1..Len(asked')
    <3>1. CASE x = p
      BY <1>0, <1>1, <1>2, <1>3, <3>1
    <3>2. CASE x # p
      <4>1. call'[x] = call[x] /\ Active(x)
        BY <1>3, <2>2, <3>2 DEF Active
      <4> QED
        BY <1>0, <1>6, <1>7, <3>2, <4>1 DEF Known
    <3> QED
      BY <3>1, <3>2
  <2>3. ASSUME NEW x \in Callers, NEW y \in Callers, Active(x)', Active(y)', x # y
        PROVE  call'[x].req # call'[y].req /\ call'[x].resp # call'[y].resp
    <3>1. \A z \in Callers \ {p} : Active(z)' => call'[z] = call[z] /\ Active(z)
      BY <1>3 DEF Active
    <3>2. CASE x = p
      BY <1>3, <1>6, <2>3, <3>1, <3>2
    <3>3. CASE y = p
      BY <1>3, <1>6, <2>3, <3>1, <3>3
    <3>4. CASE x # p /\ y # p
      BY <2>3, <3>1, <3>4 DEF Inv, PoolInv
    <3> QED
      BY <3>2, <3>3, <3>4
  <2> QED
    BY <2>1, <2>2, <2>3 DEF PoolInv, Known
<1>9. CallInv'
  <2>1. ASSUME NEW x \in Callers
        PROVE  /\ call'[x].pc = "ready" =>
                    Asked(requests'[call'[x].req]) = asked'[call'[x].n]
               /\ call'[x].pc = "answered" =>
                    Asked(responses'[call'[x].resp]) = Answers[asked'[call'[x].n]]
    <3>1. CASE x = p
      BY <1>1, <1>3, <1>4, <1>5, <3>1
    <3>2. CASE x # p
      <4>1. call'[x] = call[x]
        BY <1>3, <3>2
      <4>2. CASE ~Active(x)
        BY <4>1, <4>2 DEF Active
      <4>3. CASE Active(x)
        <5>1. requests'[call[x].req] = requests[call[x].req] /\ responses' = responses
              /\ asked'[call[x].n] = asked[call[x].n]
          BY <1>0, <1>5, <1>6, <1>7, <3>2, <4>3
        <5> QED
          BY <4>1, <5>1 DEF Inv, CallInv
      <4> QED
        BY <4>2, <4>3
    <3> QED
      BY <3>1, <3>2
  <2> QED
    BY <2>1 DEF CallInv, Asked, Value
<1>10. ResultInv'
  <2>1. ASSUME NEW x \in Callers, result'[x].ok
        PROVE  /\ result'[x].n \in 1..Len(asked')
               /\ [head |-> result'[x].head, value |-> result'[x].value]
                    = Answers[asked'[result'[x].n]]
    <3>1. x # p
      BY <1>0, <2>1 DEF TypesOK, CallsOK, NoResult
    <3>2. result'[x] = result[x]
      BY <1>0, <3>1 DEF TypesOK, CallsOK
    <3> QED
      BY <1>7, <2>1, <3>2 DEF Inv, ResultInv, Known
  <2> QED
    BY <2>1 DEF ResultInv, Known
<1>11. CtxInv'
  <2>1. ctx' = ctx
    BY <1>0
  <2>2. ASSUME NEW k \in Ctxs
        PROVE  /\ ctx[k].phase = "serve" =>
                    /\ ctx[k].n \in 1..Len(asked')
                    /\ Asked(ctx[k].request) = asked'[ctx[k].n]
                    /\ ctx[k].response.len = 0
               /\ ctx[k].phase = "done" =>
                    /\ ctx[k].n \in 1..Len(asked')
                    /\ Asked(ctx[k].response) = Answers[asked'[ctx[k].n]]
    BY <1>7 DEF Inv, CtxInv, Known
  <2> QED
    BY <2>1, <2>2 DEF CtxInv, Known, Asked, Value
<1>12. /\ Serving' = Serving /\ Done' = Done /\ Handled' = Handled
       /\ \A x \in Ready' : x \in Ready \/ x = n
  <2>1. ASSUME NEW x \in Ready' PROVE x \in Ready \/ x = n
    <3>1. PICK y \in Callers : call'[y].pc = "ready" /\ x = call'[y].n
      BY DEF Ready
    <3> QED
      BY <1>3, <3>1 DEF Ready
  <2> QED
    BY <1>0, <2>1, SamePlaces
<1>13. n \notin 1..Len(asked) /\ 1..Len(asked) \subseteq 1..Len(asked')
  BY <1>1 DEF n
<1>14. OnceInv'
  <2>1. n \notin Serving /\ n \notin Handled
    BY <1>13, KnownNumbers
  <2>2. PlaceInv'
    BY <1>12, <2>1 DEF Inv, OnceInv, PlaceInv
  <2>3. ServedInv' /\ AloneInv'
    BY <1>0, <1>7 DEF Inv, OnceInv, ServedInv, AloneInv
  <2>4. CallerInv'
    <3>1. \A x \in Callers \ {p} : Active(x)' =>
            call'[x] = call[x] /\ Active(x) /\ call[x].n # n
      BY <1>3, <1>6, <1>13 DEF Active, Known
    <3>2. \A x \in Callers : call'[x].pc = "answered" => x # p /\ call[x].pc = "answered"
      BY <1>3
    <3>3. \A x \in Callers : call'[x].pc = "answered" => call'[x].n \in Handled'
      BY <1>3, <1>12, <3>2 DEF Inv, OnceInv, CallerInv
    <3>4. ASSUME NEW x \in Callers, NEW y \in Callers, Active(x)', Active(y)', x # y
          PROVE  call'[x].n # call'[y].n
      <4>1. CASE x = p
        BY <1>3, <3>1, <3>4, <4>1
      <4>2. CASE y = p
        BY <1>3, <3>1, <3>4, <4>2
      <4>3. CASE x # p /\ y # p
        BY <3>1, <3>4, <4>3 DEF Inv, OnceInv, CallerInv
      <4> QED
        BY <4>1, <4>2, <4>3
    <3> QED
      BY <3>3, <3>4 DEF CallerInv
  <2> QED
    BY <2>2, <2>3, <2>4 DEF OnceInv
<1>15. StreamInv'
  <2>1. Unread \subseteq Unread' /\ Unanswered \subseteq Unanswered'
    BY <1>12, <1>13 DEF Unread, Unanswered
  <2>2. up' = up /\ down' = down /\ connected' = connected
    BY <1>0 DEF stream
  <2> QED
    BY <1>1, <2>1, <2>2, UpKept, DownKept DEF Inv, StreamInv
<1> QED
  BY <1>8, <1>9, <1>10, <1>11, <1>14, <1>15 DEF Inv

(* What is kept of the invariant by a step that does not write its state.  *)
LEMMA ResultKept ==
  ASSUME ResultInv, UNCHANGED <<asked, result>>
  PROVE  ResultInv'
BY DEF ResultInv, Known

LEMMA CtxKept ==
  ASSUME CtxInv, UNCHANGED <<asked, ctx>>
  PROVE  CtxInv'
BY DEF CtxInv, Known, Asked, Value

LEMMA CallKept ==
  ASSUME PoolInv, CallInv, UNCHANGED <<pools, call, asked>>
  PROVE  PoolInv' /\ CallInv'
BY DEF PoolInv, CallInv, Active, Known, Asked, Value, pools

LEMMA WriteRequestInv ==
  ASSUME TypesOK, TypesOK', Inv, NEW p \in Callers, WriteRequest(p)
  PROVE  Inv'
<1> DEFINE n == call[p].n
           w == requests[call[p].req]
           frame == Frame(n, w)
           f == <<n, asked[n]>>
           to == IF frame.err THEN "failed" ELSE "waiting"
<1>1. /\ connected /\ MoveTo(p, "ready", to) /\ up' = up \o frame.bytes
      /\ connected' = ~frame.err /\ UNCHANGED <<pools, down, ctx, asked, served, result>>
  BY DEF WriteRequest
<1>2. to \in {"waiting", "failed"}
  OBVIOUS
<1> HIDE DEF to
<1>3. call[p].pc = "ready" /\ Moved(p, to)
  BY <1>1, MovedEffect DEF TypesOK
<1>4. Active(p)
  BY <1>3 DEF Active
<1>5. PoolInv' /\ CallInv'
  BY <1>1, <1>2, <1>3, <1>4, MovedInv DEF Inv
<1>6. ResultInv' /\ CtxInv'
  BY <1>1, ResultKept, CtxKept DEF Inv
<1>7. /\ Ready' = Ready \ {n} /\ Serving' = Serving /\ Done' = Done
      /\ Handled' = Handled /\ OnceInv'
  BY <1>1, <1>2, <1>3, <1>4, MovedOnce DEF Inv
<1>8. n \in Ready
  BY <1>3 DEF Ready
<1>9. StreamInv'
  <2>1. n \in 1..Len(asked) /\ Asked(w) = asked[n] /\ Slice(w)
    <3>1. call[p].req \in Objects
      BY DEF TypesOK, CallsOK, CallType
    <3> QED
      BY <1>3, <1>4, <3>1
      DEF Inv, PoolInv, CallInv, Known, TypesOK, PoolsOK, Slice
  <2>2. n \in Byte /\ asked[n] \in TLVs
    BY <2>1, AskedType DEF TypesOK
  <2> HIDE DEF n, w
  <2>3. frame = FrameOf(f)
    BY <2>1, <2>2, SameFrame
  <2>4. /\ n \notin Unread /\ Unread \subseteq Unread' /\ n \in Unread'
        /\ Unanswered' = Unanswered /\ asked' = asked
    <3>1. n \notin Serving /\ n \notin Handled
      BY <1>8 DEF Inv, OnceInv, PlaceInv
    <3> QED
      BY <1>1, <1>7, <1>8, <2>1, <3>1 DEF Unread, Unanswered
  <2>5. UpFrames \subseteq Numbered /\ UpFrames' \subseteq Numbered
    BY FramesNow, FramesNext DEF TypesOK
  <2>6. f \in Numbered /\ f \notin UpFrames /\ UpFrames \cup {f} \subseteq UpFrames'
    <3>1. UpFrames' = Ups(asked, Unread')
      BY <2>4 DEF UpFrames
    <3>2. f \notin UpFrames
      BY <2>4 DEF UpFrames, Ups
    <3> QED
      BY <2>2, <2>4, <3>1, <3>2 DEF UpFrames, Ups, Numbered
  <2> HIDE DEF f
  <2>7. Stream(UpFrames, up, FALSE)
    <3>1. (~connected) = FALSE
      BY <1>1
    <3> QED
      BY <3>1 DEF Inv, StreamInv
  <2>8. Stream(UpFrames \cup {f}, up \o Bytes(f), ~Fine(f))
    BY <2>5, <2>6, <2>7, Written DEF TypesOK, StreamOK
  <2>9. up' = up \o Bytes(f) /\ (~connected') = ~Fine(f)
    BY <1>1, <2>3 DEF Bytes, Fine
  <2>10. Stream(UpFrames', up', ~connected')
    <3> DEFINE c == ~connected'
    <3>1. c \in BOOLEAN /\ (c => c) /\ Stream(UpFrames \cup {f}, up', c)
      BY <2>8, <2>9
    <3> HIDE DEF c
    <3>2. Stream(UpFrames', up', c)
      BY <2>5, <2>6, <3>1, MoreFrames
    <3> QED
      BY <3>2 DEF c
  <2>11. Stream(DownFrames', down', ~connected')
    BY <1>1, <2>4, DownKept DEF Inv
  <2> QED
    BY <2>10, <2>11 DEF StreamInv
<1> QED
  BY <1>5, <1>6, <1>9, <1>7 DEF Inv

LEMMA FailInv ==
  ASSUME TypesOK, TypesOK', Inv, NEW p \in Callers, Fail(p)
  PROVE  Inv'
<1>1. PICK from \in {"ready", "waiting"} : MoveTo(p, from, "failed")
  BY DEF Fail
<1>2. UNCHANGED <<pools, stream, ctx, asked, served, result>>
  BY DEF Fail
<1>3. call[p].pc = from /\ Moved(p, "failed")
  BY <1>1, MovedEffect DEF TypesOK
<1>4. Active(p)
  BY <1>3 DEF Active
<1>5. PoolInv' /\ CallInv'
  BY <1>2, <1>3, <1>4, MovedInv DEF Inv
<1>6. ResultInv' /\ CtxInv'
  BY <1>2, ResultKept, CtxKept DEF Inv
<1>7. /\ Ready' \subseteq Ready /\ Serving' = Serving /\ Done' = Done
      /\ Handled' = Handled /\ OnceInv'
  BY <1>2, <1>3, <1>4, MovedOnce DEF Inv
<1>8. StreamInv'
  <2>1. asked' = asked /\ up' = up /\ down' = down /\ connected' = connected
    BY <1>2 DEF stream
  <2>2. Unread \subseteq Unread' /\ Unanswered \subseteq Unanswered'
    BY <1>7, <2>1 DEF Unread, Unanswered
  <2> QED
    BY <2>1, <2>2, UpKept, DownKept DEF Inv, StreamInv
<1> QED
  BY <1>5, <1>6, <1>7, <1>8 DEF Inv

LEMMA ReadResponseInv ==
  ASSUME TypesOK, TypesOK', Inv, ReadResponse
  PROVE  Inv'
<1> DEFINE for == Waiting(down[1])
           first == CHOOSE p \in for : TRUE
           old == IF for = {} THEN New ELSE responses[call[first].resp]
           read == ReadFrame(old, down)
           to == IF read.err THEN "failed" ELSE "answered"
<1>1. Slice(old)
  <2>1. CASE for = {}
    BY <2>1, NewSlice
  <2>2. CASE for # {}
    <3>1. first \in Callers
      BY <2>2 DEF Waiting
    <3>2. call[first].resp \in Objects
      BY <3>1 DEF TypesOK, CallsOK, CallType
    <3> QED
      BY <2>2, <3>2 DEF TypesOK, PoolsOK, Slice
  <2> QED
    BY <2>1, <2>2
<1>2. /\ Readable(down)
      /\ responses' = [o \in Objects |->
           IF \E p \in for : call[p].resp = o THEN read.o ELSE responses[o]]
      /\ call' = [p \in Callers |->
           IF p \in for THEN [call[p] EXCEPT !.pc = to] ELSE call[p]]
      /\ connected' = (connected /\ ~read.err)
      /\ down' = IF read.err THEN <<>> ELSE After(down)
      /\ UNCHANGED <<requests, freeRequests, freeResponses, up, ctx, asked, served, result>>
  BY DEF ReadResponse
<1>3. \A p \in for : p \in Callers /\ call[p].pc = "waiting" /\ call[p].n = down[1]
  BY DEF Waiting
<1>4. to \in {"failed", "answered"} /\ (to = "answered" <=> ~read.err)
  OBVIOUS
<1> HIDE DEF old, for, to
<1>5. down \in Seq(Byte) /\ down # <<>>
  <2>1. ~(Len(<<>>) >= 6)
    OBVIOUS
  <2> QED
    BY <1>2, <2>1 DEF Readable, TypesOK, StreamOK
<1>6. DownFrames \subseteq Numbered
  BY FramesNow DEF TypesOK
<1>7. \/ ~connected /\ read.err
      \/ \E f \in DownFrames : Reads(DownFrames, down, ~connected, f)
  BY <1>1, <1>5, <1>6, ReadStream DEF Inv, StreamInv
<1>8. ASSUME ~read.err
      PROVE  /\ Known(down[1]) /\ Asked(read.o) = Answers[asked[down[1]]]
             /\ down[1] \in Handled
             /\ \E F \in SUBSET DownFrames : Stream(F, After(down), ~connected)
  <2>1. PICK f \in DownFrames : Reads(DownFrames, down, ~connected, f)
    BY <1>7, <1>8
  <2>2. PICK n \in Unanswered : f = <<n, Answers[asked[n]]>>
    BY DEF DownFrames, Downs
  <2>3. n \in 1..Len(asked) /\ n \in Handled
    BY DEF Unanswered
  <2>4. DownFrames \ {f} \in SUBSET DownFrames
    OBVIOUS
  <2> QED
    BY <1>1, <2>1, <2>2, <2>3, <2>4 DEF Reads, Known
<1> HIDE DEF read
<1>9. ASSUME NEW p \in Callers
      PROVE  /\ call'[p].n = call[p].n /\ call'[p].req = call[p].req
             /\ call'[p].resp = call[p].resp
             /\ call'[p].pc = IF p \in for THEN to ELSE call[p].pc
             /\ Active(p)' <=> Active(p)
  BY <1>2, <1>3, <1>4 DEF TypesOK, CallsOK, CallType, Active
<1>10. PoolInv'
  BY <1>2, <1>9 DEF Inv, PoolInv, Known
<1>11. CallInv'
  <2>1. ASSUME NEW p \in Callers
        PROVE  /\ call'[p].pc = "ready" =>
                    Asked(requests'[call'[p].req]) = asked'[call'[p].n]
               /\ call'[p].pc = "answered" =>
                    Asked(responses'[call'[p].resp]) = Answers[asked'[call'[p].n]]
    <3>0. call[p].resp \in Objects
      BY DEF TypesOK, CallsOK, CallType
    <3>1. CASE p \in for
      <4>1. responses'[call[p].resp] = read.o
        BY <1>2, <3>0, <3>1
      <4>2. call'[p].pc = "answered" => Asked(read.o) = Answers[asked[call[p].n]]
        BY <1>3, <1>4, <1>8, <1>9, <3>1
      <4>3. call'[p].pc # "ready"
        BY <1>4, <1>9, <3>1
      <4> QED
        BY <1>2, <1>9, <4>1, <4>2, <4>3
    <3>2. CASE p \notin for
      <4>1. call'[p].pc = call[p].pc
        BY <1>9, <3>2
      <4>2. ASSUME Active(p) PROVE responses'[call[p].resp] = responses[call[p].resp]
        <5>1. \A q \in for : Active(q) /\ q # p
          BY <1>3, <3>2 DEF Active
        <5>2. \A q \in for : call[q].resp # call[p].resp
          BY <1>3, <4>2, <5>1 DEF Inv, PoolInv
        <5> QED
          BY <1>2, <3>0, <5>2
      <4>3. (call[p].pc = "answered" \/ call[p].pc = "ready") => Active(p)
        BY DEF Active
      <4> QED
        BY <1>2, <1>9, <4>1, <4>2, <4>3 DEF Inv, CallInv
    <3> QED
      BY <3>1, <3>2
  <2> QED
    BY <2>1 DEF CallInv, Asked, Value
<1>12. ResultInv' /\ CtxInv'
  BY <1>2, ResultKept, CtxKept DEF Inv
<1>13. /\ Ready' = Ready /\ Serving' = Serving /\ Done' = Done /\ Handled' = Handled
       /\ asked' = asked
  <2>1. \A p \in Callers : (call'[p].pc = "ready" <=> call[p].pc = "ready")
                          /\ call'[p].n = call[p].n
    BY <1>3, <1>4, <1>9
  <2>2. Ready' = Ready
    BY <2>1 DEF Ready
  <2> QED
    BY <1>2, <2>2, SamePlaces
<1>14. OnceInv'
  <2>1. ServedInv' /\ PlaceInv' /\ AloneInv'
    BY <1>2, <1>13 DEF Inv, OnceInv, ServedInv, PlaceInv, AloneInv, Known
  <2>2. ASSUME NEW p \in Callers, call'[p].pc = "answered" PROVE call'[p].n \in Handled'
    <3>1. CASE p \in for
      BY <1>3, <1>4, <1>8, <1>9, <1>13, <2>2, <3>1
    <3>2. CASE p \notin for
      BY <1>9, <1>13, <2>2, <3>2 DEF Inv, OnceInv, CallerInv
    <3> QED
      BY <3>1, <3>2
  <2>3. CallerInv'
    BY <1>9, <2>2 DEF Inv, OnceInv, CallerInv
  <2> QED
    BY <2>1, <2>3 DEF OnceInv
<1>15. StreamInv'
  <2>1. Unread' = Unread /\ Unanswered' = Unanswered
    BY <1>13, Nowhere
  <2>2. connected' \in BOOLEAN /\ (connected' => connected)
    BY <1>2
  <2>3. Stream(UpFrames', up', ~connected')
    BY <1>2, <2>1, <2>2, UpKept DEF Inv
  <2>4. DownFrames' = DownFrames
    BY <1>13, <2>1 DEF DownFrames
  <2>5. Stream(DownFrames, down', ~connected')
    <3>1. CASE read.err
      BY <1>2, <1>6, <3>1, NoBytes
    <3>2. CASE ~read.err
      <4>1. PICK F \in SUBSET DownFrames : Stream(F, After(down), ~connected)
        BY <1>8, <3>2
      <4> QED
        BY <1>2, <1>6, <2>2, <3>2, <4>1, Longer
    <3> QED
      BY <3>1, <3>2
  <2> QED
    BY <2>3, <2>4, <2>5 DEF StreamInv
<1> QED
  BY <1>10, <1>11, <1>12, <1>14, <1>15 DEF Inv

LEMMA ReturnInv ==
  ASSUME TypesOK, TypesOK', Inv, NEW p \in Callers, Return(p)
  PROVE  Inv'
<1> DEFINE o == call[p].req
           q == call[p].resp
           res == [ok |-> call[p].pc = "answered", n |-> call[p].n,
                   head |-> responses[q].head, value |-> Value(responses[q])]
<1>1. /\ call[p].pc \in {"answered", "failed"}
      /\ result' = [result EXCEPT ![p] = res]
      /\ requests' = [requests EXCEPT ![o] = Reset(requests[o])]
      /\ responses' = [responses EXCEPT ![q] = ResetResponse(responses[q])]
      /\ freeRequests' = freeRequests \cup {o} /\ freeResponses' = freeResponses \cup {q}
      /\ call' = [call EXCEPT ![p].pc = "idle"]
      /\ UNCHANGED <<stream, ctx, asked, served>>
  BY DEF Return
<1>2. Active(p)
  BY <1>1 DEF Active
<1>3. o \in Objects /\ q \in Objects
  BY DEF TypesOK, CallsOK, CallType
<1>4. call'[p].pc = "idle" /\ \A x \in Callers \ {p} : call'[x] = call[x]
  BY <1>1 DEF TypesOK, CallsOK, CallType
<1>5. ASSUME NEW x \in Callers, Active(x)'
      PROVE  x # p /\ call'[x] = call[x] /\ Active(x)
  BY <1>4, <1>5 DEF Active
<1>6. ASSUME NEW x \in Callers, x # p, Active(x)
      PROVE  call[x].req # o /\ call[x].resp # q
  BY <1>2, <1>6 DEF Inv, PoolInv
<1> HIDE DEF o, q
<1>7. /\ requests'[o].len = 0 /\ \A x \in Objects \ {o} : requests'[x] = requests[x]
      /\ \A x \in Objects \ {q} : responses'[x] = responses[x]
  <2>1. Reset(requests[o]).len = 0
    BY <1>3 DEF Reset, TypesOK, PoolsOK, TLV
  <2> QED
    BY <1>1, <1>3, <2>1 DEF TypesOK, PoolsOK
<1>8. PoolInv'
  <2>1. \A x \in freeRequests' : requests'[x].len = 0
    BY <1>1, <1>7 DEF Inv, PoolInv, TypesOK, PoolsOK
  <2>2. ASSUME NEW x \in Callers, Active(x)'
        PROVE  /\ call'[x].req \notin freeRequests' /\ call'[x].resp \notin freeResponses'
               /\ call'[x].n \in 1..Len(asked')
    <3>1. x # p /\ call'[x] = call[x] /\ Active(x)
      BY <1>5, <2>2
    <3>2. call[x].req # o /\ call[x].resp # q
      BY <1>6, <3>1
    <3> QED
      BY <1>1, <3>1, <3>2 DEF Inv, PoolInv, Known
  <2>3. ASSUME NEW x \in Callers, NEW y \in Callers, Active(x)', Active(y)', x # y
        PROVE  call'[x].req # call'[y].req /\ call'[x].resp # call'[y].resp
    <3>1. call'[x] = call[x] /\ Active(x) /\ call'[y] = call[y] /\ Active(y)
      BY <1>5, <2>3
    <3> QED
      BY <2>3, <3>1 DEF Inv, PoolInv
  <2> QED
    BY <2>1, <2>2, <2>3 DEF PoolInv, Known
<1>9. CallInv'
  <2>1. ASSUME NEW x \in Callers
        PROVE  /\ call'[x].pc = "ready" =>
                    Asked(requests'[call'[x].req]) = asked'[call'[x].n]
               /\ call'[x].pc = "answered" =>
                    Asked(responses'[call'[x].resp]) = Answers[asked'[call'[x].n]]
    <3>1. CASE x = p
      BY <1>4, <3>1
    <3>2. CASE x # p
      <4>1. call'[x] = call[x] /\ call[x].req \in Objects /\ call[x].resp \in Objects
        BY <1>4, <3>2 DEF TypesOK, CallsOK, CallType
      <4>2. CASE ~Active(x)
        BY <4>1, <4>2 DEF Active
      <4>3. CASE Active(x)
        <5>1. requests'[call[x].req] = requests[call[x].req]
              /\ responses'[call[x].resp] = responses[call[x].resp]
          BY <1>6, <1>7, <3>2, <4>1, <4>3
        <5> QED
          BY <1>1, <4>1, <5>1 DEF Inv, CallInv
      <4> QED
        BY <4>2, <4>3
    <3> QED
      BY <3>1, <3>2
  <2> QED
    BY <2>1 DEF CallInv, Asked, Value
<1>10. ResultInv'
  <2>1. ASSUME NEW x \in Callers, result'[x].ok
        PROVE  /\ result'[x].n \in 1..Len(asked)
               /\ [head |-> result'[x].head, value |-> result'[x].value]
                    = Answers[asked[result'[x].n]]
    <3>1. CASE x = p
      <4>1. result'[x] = res
        BY <1>1, <3>1 DEF TypesOK, CallsOK
      <4>2. call[p].pc = "answered"
        <5>1. result'[x].ok = (call[p].pc = "answered")
          BY <4>1
        <5> QED
          BY <2>1, <5>1, Zenon
      <4>3. Asked(responses[q]) = Answers[asked[call[p].n]]
        BY <4>2 DEF Inv, CallInv, q
      <4>4. call[p].n \in 1..Len(asked)
        BY <1>2 DEF Inv, PoolInv, Known
      <4>5. result'[x].n = call[p].n /\ result'[x].head = responses[q].head
            /\ result'[x].value = Value(responses[q])
        BY <4>1
      <4> QED
        BY <4>3, <4>4, <4>5 DEF Asked
    <3>2. CASE x # p
      <4>1. result'[x] = result[x]
        BY <1>1, <3>2 DEF TypesOK, CallsOK
      <4> QED
        BY <2>1, <4>1 DEF Inv, ResultInv, Known
    <3> QED
      BY <3>1, <3>2
  <2> QED
    BY <1>1, <2>1 DEF ResultInv, Known
<1>11. CtxInv'
  BY <1>1, CtxKept DEF Inv
<1>12. /\ Ready' = Ready /\ Serving' = Serving /\ Done' = Done /\ Handled' = Handled
       /\ asked' = asked
  <2>1. \A x \in Callers : (call'[x].pc = "ready" <=> call[x].pc = "ready")
                          /\ (call[x].pc = "ready" => call'[x].n = call[x].n)
    BY <1>1, <1>4
  <2>2. Ready' = Ready
    BY <2>1 DEF Ready
  <2> QED
    BY <1>1, <2>2, SamePlaces
<1>13. OnceInv'
  <2>1. ServedInv' /\ PlaceInv' /\ AloneInv'
    BY <1>1, <1>12 DEF Inv, OnceInv, ServedInv, PlaceInv, AloneInv, Known
  <2>2. \A x \in Callers : call'[x].pc = "answered" => Active(x)'
    BY DEF Active
  <2>3. CallerInv'
    BY <1>5, <1>12, <2>2 DEF Inv, OnceInv, CallerInv
  <2> QED
    BY <2>1, <2>3 DEF OnceInv
<1>14. StreamInv'
  <2>1. up' = up /\ down' = down /\ connected' = connected
    BY <1>1 DEF stream
  <2>2. Unread' = Unread /\ Unanswered' = Unanswered
    BY <1>12, Nowhere
  <2> QED
    BY <1>12, <2>1, <2>2, UpKept, DownKept DEF Inv, StreamInv
<1> QED
  BY <1>8, <1>9, <1>10, <1>11, <1>13, <1>14 DEF Inv

(* Of a function of the contexts that is changed at one of them.           *)
LEMMA CtxAt ==
  ASSUME CtxOK, NEW k \in Ctxs, NEW c, ctx' = [ctx EXCEPT ![k] = c], UNCHANGED asked,
         CtxInv,
         c.phase = "serve" =>
           Known(c.n) /\ Asked(c.request) = asked[c.n] /\ c.response.len = 0,
         c.phase = "done" => Known(c.n) /\ Asked(c.response) = Answers[asked[c.n]]
  PROVE  CtxInv'
<1>1. ctx'[k] = c /\ \A j \in Ctxs \ {k} : ctx'[j] = ctx[j]
  BY DEF CtxOK
<1>2. ASSUME NEW j \in Ctxs
      PROVE  /\ ctx'[j].phase = "serve" =>
                  /\ ctx'[j].n \in 1..Len(asked)
                  /\ Asked(ctx'[j].request) = asked[ctx'[j].n]
                  /\ ctx'[j].response.len = 0
             /\ ctx'[j].phase = "done" =>
                  /\ ctx'[j].n \in 1..Len(asked)
                  /\ Asked(ctx'[j].response) = Answers[asked[ctx'[j].n]]
  <2>1. CASE j = k
    BY <1>1, <2>1 DEF Known
  <2>2. CASE j # k
    <3>1. ctx'[j] = ctx[j]
      BY <1>1, <2>2
    <3> QED
      BY <3>1 DEF CtxInv, Known
  <2> QED
    BY <2>1, <2>2
<1>3. asked' = asked
  OBVIOUS
<1> QED
  BY <1>2, <1>3 DEF CtxInv, Known, Asked, Value

LEMMA ReadRequestInv ==
  ASSUME TypesOK, TypesOK', Inv, NEW k \in Ctxs, ReadRequest(k)
  PROVE  Inv'
<1> DEFINE old == Reset(ctx[k].request)
           read == ReadFrame(old, up)
           empty == ResetResponse(ctx[k].response)
           c == [phase |-> IF read.err THEN "idle" ELSE "serve", n |-> up[1], live |-> TRUE,
                 request |-> read.o, response |-> empty]
<1>1. /\ Readable(up) /\ ctx' = [ctx EXCEPT ![k] = c]
      /\ connected' = (connected /\ ~read.err)
      /\ up' = IF read.err THEN <<>> ELSE After(up)
      /\ UNCHANGED <<pools, call, down, asked, served, result>>
  BY DEF ReadRequest
<1>2. Slice(old) /\ empty.len = 0
  <2>1. Slice(ctx[k].request) /\ ctx[k].response \in TLV
    BY DEF TypesOK, CtxOK, CtxType, Slice
  <2>2. empty.len = 0
    BY <2>1 DEF TLV, ResetResponse
  <2> QED
    BY <2>1, <2>2, ResetSlice
<1> HIDE DEF old, empty
<1>3. up \in Seq(Byte) /\ up # <<>>
  <2>1. ~(Len(<<>>) >= 6)
    OBVIOUS
  <2> QED
    BY <1>1, <2>1 DEF Readable, TypesOK, StreamOK
<1>4. UpFrames \subseteq Numbered
  BY FramesNow DEF TypesOK
<1>5. \/ ~connected /\ read.err
      \/ \E f \in UpFrames : Reads(UpFrames, up, ~connected, f)
  BY <1>2, <1>3, <1>4, ReadStream DEF Inv, StreamInv
<1>6. ASSUME ~read.err
      PROVE  /\ up[1] \in Unread /\ Asked(read.o) = asked[up[1]]
             /\ Stream(UpFrames \ {<<up[1], asked[up[1]]>>}, After(up), ~connected)
  <2>1. PICK f \in UpFrames : Reads(UpFrames, up, ~connected, f)
    BY <1>5, <1>6
  <2>2. PICK n \in Unread : f = <<n, asked[n]>>
    BY DEF UpFrames, Ups
  <2>3. up[1] = n
    BY <2>1, <2>2 DEF Reads
  <2> QED
    BY <1>2, <2>1, <2>2, <2>3 DEF Reads
<1> HIDE DEF read
<1>7. /\ c.phase = "idle" \/ c.phase = "serve"
      /\ (c.phase = "serve" <=> ~read.err) /\ c.n = up[1]
      /\ c.request = read.o /\ c.response = empty
  OBVIOUS
<1> HIDE DEF c
<1>8. CtxInv'
  <2>1. c.phase = "serve" =>
          Known(c.n) /\ Asked(c.request) = asked[c.n] /\ c.response.len = 0
    BY <1>2, <1>6, <1>7 DEF Unread, Known
  <2> QED
    BY <1>1, <1>7, <2>1, CtxAt DEF Inv, TypesOK
<1>9. /\ Ready' = Ready /\ Handled' = Handled /\ asked' = asked
      /\ \A x \in Serving' : x \in Serving \/ (~read.err /\ x = up[1])
      /\ Done' \subseteq Done
  <2>1. Ready' = Ready /\ Handled' = Handled /\ asked' = asked
    BY <1>1, SamePlaces
  <2>2. /\ \A x \in Serving' : x \in Serving \/ (c.phase = "serve" /\ x = c.n)
        /\ \A x \in Done' : x \in Done \/ (c.phase = "done" /\ x = c.n)
    BY <1>1, CtxMoved DEF Inv, OnceInv, TypesOK
  <2>3. \A x \in Serving' : x \in Serving \/ (~read.err /\ x = up[1])
    BY <1>7, <2>2
  <2>4. Done' \subseteq Done
    BY <1>7, <2>2
  <2> QED
    BY <2>1, <2>3, <2>4
<1>10. OnceInv'
  <2>1. ~read.err => up[1] \notin Ready /\ up[1] \notin Serving /\ up[1] \notin Handled
    BY <1>6 DEF Unread
  <2>2. PlaceInv'
    BY <1>9, <2>1 DEF Inv, OnceInv, PlaceInv
  <2>3. AloneInv'
    <3>1. /\ c.phase \in {"idle", "serve", "done"} /\ c.phase # "done"
          /\ c.phase = "serve" => c.n \notin Serving
      BY <1>7, <2>1
    <3> QED
      BY <1>1, <3>1, CtxMoved DEF Inv, OnceInv, TypesOK
  <2>4. ServedInv' /\ CallerInv'
    BY <1>1, <1>9 DEF Inv, OnceInv, ServedInv, CallerInv, Known, Active
  <2> QED
    BY <2>2, <2>3, <2>4 DEF OnceInv
<1>11. StreamInv'
  <2>0. connected' \in BOOLEAN /\ (connected' => connected)
    BY <1>1
  <2>1. Stream(DownFrames', down', ~connected')
    <3>1. Unanswered \subseteq Unanswered'
      BY <1>9 DEF Unanswered
    <3> QED
      BY <1>1, <2>0, <3>1, DownKept DEF Inv
  <2>2. UpFrames' \subseteq Numbered
    BY FramesNext DEF TypesOK
  <2>3. Stream(UpFrames', up', ~connected')
    <3>1. CASE read.err
      BY <1>1, <2>2, <3>1, NoBytes
    <3>2. CASE ~read.err
      <4> DEFINE f == <<up[1], asked[up[1]]>>
      <4>1. ASSUME NEW x \in Unread, x # up[1] PROVE x \in Unread'
        BY <1>9, <4>1 DEF Unread
      <4>2. UpFrames' = Ups(asked, Unread')
        BY <1>9 DEF UpFrames
      <4>3. UpFrames \ {f} \subseteq UpFrames'
        BY <4>1, <4>2 DEF UpFrames, Ups
      <4>4. Stream(UpFrames \ {f}, After(up), ~connected)
        BY <1>6, <3>2
      <4> HIDE DEF f
      <4> QED
        BY <1>1, <2>0, <2>2, <3>2, <4>3, <4>4, Longer
    <3> QED
      BY <3>1, <3>2
  <2> QED
    BY <2>1, <2>3 DEF StreamInv
<1>12. PoolInv' /\ CallInv' /\ ResultInv'
  BY <1>1, CallKept, ResultKept DEF Inv
<1> QED
  BY <1>8, <1>10, <1>11, <1>12 DEF Inv

LEMMA HandleInv ==
  ASSUME TypesOK, TypesOK', Inv, NEW k \in Ctxs, Handle(k)
  PROVE  Inv'
<1> DEFINE n == ctx[k].n
           m == Asked(ctx[k].request)
           answer == IF m \in Messages THEN Answers[m] ELSE [head |-> 5, value |-> <<>>]
           e == [ctx[k].response EXCEPT !.head = answer.head]
           r == AppendValue(e, answer.value)
           c == [ctx[k] EXCEPT !.phase = "done", !.response = r]
<1>1. /\ ctx[k].phase = "serve" /\ ctx' = [ctx EXCEPT ![k] = c]
      /\ served' = Append(served, <<n, m>>)
      /\ UNCHANGED <<pools, call, stream, asked, result>>
  BY DEF Handle
<1>2. n \in 1..Len(asked) /\ m = asked[n] /\ ctx[k].response.len = 0
  BY <1>1 DEF Inv, CtxInv, Known
<1> HIDE DEF m
<1>3. answer = Answers[asked[n]] /\ answer \in TLVs
  BY <1>2, AskedType DEF TypesOK
<1> HIDE DEF answer
<1>4. Asked(r) = Answers[asked[n]]
  <2>1. answer.head \in Byte /\ answer.value \in Seq(Byte)
        /\ answer = [head |-> answer.head, value |-> answer.value]
    BY <1>3 DEF TLVs
  <2>2. Slice(ctx[k].response)
    BY DEF TypesOK, CtxOK, CtxType, Slice
  <2>3. Slice(e) /\ e.len = 0 /\ e.head = answer.head
    <3>1. e.len = 0 /\ e.head = answer.head
      BY <1>2, <2>2 DEF Slice, TLV
    <3> QED
      BY <2>1, <2>2, <3>1, HeadSlice
  <2> HIDE DEF e
  <2>4. Value(r) = answer.value /\ r.head = answer.head
    BY <2>1, <2>3, AppendedOnly
  <2> HIDE DEF r
  <2> QED
    BY <1>3, <2>1, <2>4 DEF Asked
<1> HIDE DEF r
<1>5. c.phase = "done" /\ c.n = n /\ c.response = r
  BY DEF TypesOK, CtxOK, CtxType
<1> HIDE DEF c
<1>6. c.phase # "serve" /\ Known(c.n) /\ Asked(c.response) = Answers[asked[c.n]]
  BY <1>2, <1>4, <1>5 DEF Known
<1>7. CtxInv'
  BY <1>1, <1>6, CtxAt DEF Inv, TypesOK
<1>8. n \in Serving /\ n \notin Ready /\ n \notin Handled /\ n \notin Done
  <2>1. n \in Serving
    BY <1>1 DEF Serving
  <2> QED
    BY <2>1 DEF Inv, OnceInv, PlaceInv
<1>9. /\ DOMAIN served' = DOMAIN served \cup {Len(served) + 1}
      /\ Len(served) + 1 \notin DOMAIN served
      /\ served'[Len(served) + 1] = <<n, m>>
      /\ \A i \in DOMAIN served : served'[i] = served[i]
  <2>1. served \in Seq(Byte \X TLVs) /\ Len(served) \in Nat
        /\ DOMAIN served = 1..Len(served)
    BY LenProperties DEF TypesOK, CallsOK
  <2>2. <<n, m>> \in Byte \X TLVs
    BY <1>2, AskedType DEF TypesOK
  <2>3. /\ Len(served') = Len(served) + 1 /\ served'[Len(served) + 1] = <<n, m>>
        /\ \A i \in 1..Len(served) : served'[i] = served[i]
        /\ served' \in Seq(Byte \X TLVs)
    BY <1>1, <2>1, <2>2, AppendProperties
  <2>4. DOMAIN served' = 1..Len(served')
    BY <2>3, LenProperties
  <2> QED
    BY <2>1, <2>3, <2>4
<1>10. /\ Ready' = Ready /\ Handled' = Handled \cup {n} /\ asked' = asked
       /\ Serving' \subseteq Serving \ {n} /\ Done' \subseteq Done \cup {n}
  <2>1. Ready' = Ready /\ asked' = asked
    BY <1>1, SamePlaces
  <2>2. Handled' = Handled \cup {n}
    BY <1>9 DEF Handled
  <2>3. /\ \A x \in Serving' : x \in Serving \/ (c.phase = "serve" /\ x = c.n)
        /\ \A x \in Done' : x \in Done \/ (c.phase = "done" /\ x = c.n)
        /\ n \notin Serving'
    BY <1>1, <1>6, CtxMoved DEF Inv, OnceInv, TypesOK
  <2>4. Serving' \subseteq Serving \ {n}
    BY <1>6, <2>3
  <2>5. Done' \subseteq Done \cup {n}
    BY <1>5, <2>3
  <2> QED
    BY <2>1, <2>2, <2>4, <2>5
<1>11. OnceInv'
  <2>1. PlaceInv'
    BY <1>8, <1>10 DEF Inv, OnceInv, PlaceInv
  <2>2. AloneInv'
    <3>1. /\ c.phase \in {"idle", "serve", "done"} /\ c.phase # "serve"
          /\ c.n \notin Done
      BY <1>5, <1>8
    <3> QED
      BY <1>1, <3>1, CtxMoved DEF Inv, OnceInv, TypesOK
  <2>3. ServedInv'
    <3> DEFINE l == Len(served) + 1
    <3>1. ASSUME NEW i \in DOMAIN served'
          PROVE  /\ served'[i][1] \in 1..Len(asked)
                 /\ served'[i][2] = asked[served'[i][1]]
      <4>1. CASE i \in DOMAIN served
        BY <1>9, <4>1 DEF Inv, OnceInv, ServedInv, Known
      <4>2. CASE i = l
        BY <1>2, <1>9, <4>2
      <4> QED
        BY <1>9, <4>1, <4>2
    <3>2. \A i \in DOMAIN served : served'[i][1] \in Handled
      BY <1>9 DEF Handled
    <3>3. ASSUME NEW i \in DOMAIN served', NEW j \in DOMAIN served', i # j
          PROVE  served'[i][1] # served'[j][1]
      <4>1. served'[l][1] = n
        BY <1>9
      <4>2. CASE i \in DOMAIN served /\ j \in DOMAIN served
        BY <1>9, <3>3, <4>2 DEF Inv, OnceInv, ServedInv
      <4>3. CASE i = l
        <5>1. j \in DOMAIN served
          BY <1>9, <3>3, <4>3
        <5> QED
          BY <1>8, <3>2, <4>1, <4>3, <5>1
      <4>4. CASE j = l
        <5>1. i \in DOMAIN served
          BY <1>9, <3>3, <4>4
        <5> QED
          BY <1>8, <3>2, <4>1, <4>4, <5>1
      <4> QED
        BY <1>9, <4>2, <4>3, <4>4
    <3> QED
      BY <1>10, <3>1, <3>3 DEF ServedInv, Known
  <2>4. CallerInv'
    BY <1>1, <1>10 DEF Inv, OnceInv, CallerInv, Active
  <2> QED
    BY <2>1, <2>2, <2>3, <2>4 DEF OnceInv
<1>12. StreamInv'
  <2>1. up' = up /\ down' = down /\ connected' = connected
    BY <1>1 DEF stream
  <2>2. Unread \subseteq Unread' /\ Unanswered \subseteq Unanswered'
    BY <1>8, <1>10 DEF Unread, Unanswered
  <2> QED
    BY <1>10, <2>1, <2>2, UpKept, DownKept DEF Inv, StreamInv
<1>13. PoolInv' /\ CallInv' /\ ResultInv'
  BY <1>1, CallKept, ResultKept DEF Inv
<1> QED
  BY <1>7, <1>11, <1>12, <1>13 DEF Inv

LEMMA WriteResponseInv ==
  ASSUME TypesOK, TypesOK', Inv, NEW k \in Ctxs, WriteResponse(k)
  PROVE  Inv'
<1> DEFINE n == ctx[k].n
           w == ctx[k].response
           frame == Frame(n, w)
           f == <<n, Answers[asked[n]]>>
           c == [ctx[k] EXCEPT !.phase = "idle"]
<1>1. /\ ctx[k].phase = "done" /\ ctx' = [ctx EXCEPT ![k] = c]
      /\ UNCHANGED <<pools, call, up, asked, served, result>>
      /\ \/ /\ connected
            /\ down' = down \o frame.bytes /\ connected' = ~frame.err
         \/ UNCHANGED <<down, connected>>
  BY DEF WriteResponse
<1>2. n \in 1..Len(asked) /\ Asked(w) = Answers[asked[n]] /\ Slice(w)
  BY <1>1 DEF Inv, CtxInv, Known, TypesOK, CtxOK, CtxType, Slice
<1>3. c.phase = "idle"
  BY DEF TypesOK, CtxOK, CtxType
<1> HIDE DEF c
<1>4. CtxInv'
  BY <1>1, <1>3, CtxAt DEF Inv, TypesOK
<1>5. /\ n \in Done /\ Ready' = Ready /\ Handled' = Handled /\ asked' = asked
      /\ Serving' \subseteq Serving /\ Done' \subseteq Done \ {n} /\ AloneInv'
  <2>1. Ready' = Ready /\ Handled' = Handled /\ asked' = asked
    BY <1>1, SamePlaces
  <2>2. n \in Done
    BY <1>1 DEF Done
  <2>3. /\ \A x \in Serving' : x \in Serving \/ (c.phase = "serve" /\ x = c.n)
        /\ \A x \in Done' : x \in Done \/ (c.phase = "done" /\ x = c.n)
        /\ n \notin Done' /\ AloneInv'
    BY <1>1, <1>3, CtxMoved DEF Inv, OnceInv, TypesOK
  <2>4. Serving' \subseteq Serving /\ Done' \subseteq Done \ {n}
    BY <1>3, <2>3
  <2> QED
    BY <2>1, <2>2, <2>3, <2>4
<1> HIDE DEF n, w
<1>6. frame = FrameOf(f) /\ f \in Numbered
  <2>1. n \in Byte /\ Answers[asked[n]] \in TLVs
    BY <1>2, AskedType DEF TypesOK
  <2>2. frame = FrameOf(f)
    BY <1>2, <2>1, SameFrame
  <2> QED
    BY <2>1, <2>2 DEF Numbered
<1>7. OnceInv'
  <2>1. PlaceInv'
    BY <1>5 DEF Inv, OnceInv, PlaceInv
  <2>2. ServedInv' /\ CallerInv'
    BY <1>1, <1>5 DEF Inv, OnceInv, ServedInv, CallerInv, Known, Active
  <2> QED
    BY <1>5, <2>1, <2>2 DEF OnceInv
<1>8. /\ Unread \subseteq Unread' /\ Unanswered \subseteq Unanswered'
      /\ n \notin Unanswered /\ n \in Unanswered'
  <2>1. n \in Handled
    BY <1>5 DEF Inv, OnceInv, PlaceInv
  <2> QED
    BY <1>2, <1>5, <2>1 DEF Unread, Unanswered
<1>9. /\ DownFrames \subseteq Numbered /\ DownFrames' \subseteq Numbered
      /\ f \notin DownFrames /\ DownFrames \cup {f} \subseteq DownFrames'
  <2>1. DownFrames' = Downs(asked, Unanswered')
    BY <1>5 DEF DownFrames
  <2>2. f \notin DownFrames
    BY <1>8 DEF DownFrames, Downs
  <2>3. DownFrames \cup {f} \subseteq DownFrames'
    BY <1>8, <2>1 DEF DownFrames, Downs
  <2> QED
    BY <2>2, <2>3, FramesNow, FramesNext DEF TypesOK
<1> HIDE DEF f
<1>10. StreamInv'
  <2>1. CASE connected /\ down' = down \o frame.bytes /\ connected' = ~frame.err
    <3>1. (~connected) = FALSE
      BY <2>1
    <3>2. Stream(DownFrames, down, FALSE)
      BY <3>1 DEF Inv, StreamInv
    <3>3. Stream(DownFrames \cup {f}, down \o Bytes(f), ~Fine(f))
      BY <1>6, <1>9, <3>2, Written DEF TypesOK, StreamOK
    <3>4. down' = down \o Bytes(f) /\ (~connected') = ~Fine(f)
      BY <1>6, <2>1 DEF Bytes, Fine
    <3>5. Stream(DownFrames', down', ~connected')
      <4> DEFINE cut == ~connected'
      <4>1. cut \in BOOLEAN /\ (cut => cut) /\ Stream(DownFrames \cup {f}, down', cut)
        BY <3>3, <3>4
      <4> HIDE DEF cut
      <4>2. Stream(DownFrames', down', cut)
        BY <1>9, <4>1, MoreFrames
      <4> QED
        BY <4>2 DEF cut
    <3>6. Stream(UpFrames', up', ~connected')
      BY <1>1, <1>5, <1>8, <2>1, UpKept DEF Inv
    <3> QED
      BY <3>5, <3>6 DEF StreamInv
  <2>2. CASE UNCHANGED <<down, connected>>
    BY <1>1, <1>5, <1>8, <2>2, UpKept, DownKept DEF Inv, StreamInv
  <2> QED
    BY <1>1, <2>1, <2>2
<1>11. PoolInv' /\ CallInv' /\ ResultInv'
  BY <1>1, CallKept, ResultKept DEF Inv
<1> QED
  BY <1>4, <1>7, <1>10, <1>11 DEF Inv

LEMMA CloseInv ==
  ASSUME TypesOK, Inv, Close
  PROVE  Inv'
<1>1. /\ connected' = FALSE /\ up' \in Prefixes(up) /\ down' \in Prefixes(down)
      /\ UNCHANGED <<pools, call, ctx, asked, served, result>>
  BY DEF Close
<1>2. StreamInv'
  <2>1. UpFrames \subseteq Numbered /\ DownFrames \subseteq Numbered
    BY FramesNow DEF TypesOK
  <2>2. Stream(UpFrames, up', TRUE) /\ Stream(DownFrames, down', TRUE)
    BY <1>1, <2>1, StreamPart DEF Inv, StreamInv, TypesOK, StreamOK
  <2>3. (~connected') = TRUE
    BY <1>1
  <2>4. UpFrames' = UpFrames /\ DownFrames' = DownFrames
    BY <1>1, SameFrames
  <2> QED
    BY <2>2, <2>3, <2>4 DEF StreamInv
<1>3. PoolInv' /\ CallInv' /\ ResultInv' /\ CtxInv' /\ OnceInv'
  BY <1>1, CallKept, ResultKept, CtxKept, OnceKept DEF Inv
<1> QED
  BY <1>2, <1>3 DEF Inv

LEMMA DialInv ==
  ASSUME TypesOK, TypesOK', Inv, Dial
  PROVE  Inv'
<1>1. /\ up' = <<>> /\ down' = <<>>
      /\ ctx' = [k \in Ctxs |-> [ctx[k] EXCEPT !.live = FALSE]]
      /\ UNCHANGED <<pools, call, asked, served, result>>
  BY DEF Dial
<1>2. StreamInv'
  <2>1. UpFrames' \subseteq Numbered /\ DownFrames' \subseteq Numbered
    BY FramesNext DEF TypesOK
  <2> QED
    BY <1>1, <2>1, NoBytes DEF StreamInv
<1>3. ASSUME NEW k \in Ctxs
      PROVE  /\ ctx'[k].phase = ctx[k].phase /\ ctx'[k].n = ctx[k].n
             /\ ctx'[k].request = ctx[k].request /\ ctx'[k].response = ctx[k].response
  BY <1>1 DEF TypesOK, CtxOK, CtxType
<1>4. asked' = asked
  BY <1>1
<1>5. CtxInv'
  BY <1>3, <1>4 DEF Inv, CtxInv, Known, Asked, Value
<1>6. OnceInv'
  <2>1. Serving' = Serving /\ Done' = Done
    BY <1>3 DEF Serving, Done
  <2>2. Ready' = Ready /\ Handled' = Handled
    BY <1>1, SamePlaces
  <2>3. AloneInv'
    BY <1>3 DEF Inv, OnceInv, AloneInv
  <2> QED
    BY <1>1, <2>1, <2>2, <2>3
    DEF Inv, OnceInv, ServedInv, PlaceInv, CallerInv, Known, Active
<1>7. PoolInv' /\ CallInv' /\ ResultInv'
  BY <1>1, CallKept, ResultKept DEF Inv
<1> QED
  BY <1>2, <1>5, <1>6, <1>7 DEF Inv

LEMMA StutterInv ==
  ASSUME TypesOK, Inv, UNCHANGED vars
  PROVE  Inv'
<1>1. UNCHANGED <<pools, call, stream, ctx, asked, served, result>>
  BY DEF vars
<1>2. PoolInv' /\ CallInv' /\ ResultInv' /\ CtxInv' /\ OnceInv'
  BY <1>1, CallKept, ResultKept, CtxKept, OnceKept DEF Inv
<1>3. StreamInv'
  BY <1>1, SameFrames DEF Inv, StreamInv, stream
<1> QED
  BY <1>2, <1>3 DEF Inv

(* client.go:84-128, common.go:9-46, requestCtx.go:33-46: the inductive    *)
(* invariant.                                                              *)
THEOREM ExchangeCorrect == Spec => []Inv
<1>1. TypeOK /\ TypeOK' /\ Inv /\ [Next]_vars => Inv'
  <2> SUFFICES ASSUME TypeOK, TypeOK', Inv, [Next]_vars PROVE Inv'
    OBVIOUS
  <2>0. TypesOK
    BY Parts DEF TypesOK
  <2>1. TypesOK'
    BY DEF TypesOK, TypeOK, PoolsOK, StreamOK, CtxOK, CallsOK,
           CallType, CtxType, ResultType, TLVs
  <2>2. ASSUME NEW p \in Callers, Call(p) PROVE Inv'
    BY <2>0, <2>1, <2>2, AcquireInv, WriteRequestInv, FailInv, ReturnInv DEF Call
  <2>3. ASSUME NEW k \in Ctxs, Serve(k) PROVE Inv'
    BY <2>0, <2>1, <2>3, ReadRequestInv, HandleInv, WriteResponseInv DEF Serve
  <2> QED
    BY <2>0, <2>1, <2>2, <2>3, ReadResponseInv, CloseInv, DialInv, StutterInv DEF Next
<1> QED
  BY <1>1, InitInv, TypeCorrect, PTL DEF Spec

(* client.go:103-128, response.go:66-92, common.go:28-46: a call that got  *)
(* an answer returns what the server answered to that very request,        *)
(* whoever used the objects before it and wherever the connection ended.   *)
THEOREM OwnAnswers == Spec => []OwnAnswer
<1>1. Inv => OwnAnswer
  BY DEF Inv, ResultInv, OwnAnswer
<1> QED
  BY <1>1, ExchangeCorrect, PTL

-----------------------------------------------------------------------------
(* The calls as seen from outside.                                         *)

Under == [p \in Callers |-> IF call[p].pc = "idle" THEN 0 ELSE call[p].n]
Told ==
  [p \in Callers |->
    IF result[p].ok THEN <<[head |-> result[p].head, value |-> result[p].value]>>
    ELSE <<>>]

LEMMA CallsInit == Init => Calls!Init
<1> SUFFICES ASSUME Init PROVE Calls!Init
  OBVIOUS
<1>1. \A p \in Callers : call[p].pc = "idle" /\ ~result[p].ok
  BY DEF Init, NoResult
<1>2. Under = [p \in Callers |-> 0] /\ Told = [p \in Callers |-> <<>>]
  BY <1>1 DEF Under, Told
<1> QED
  BY <1>2 DEF Init, Under, Told, Calls!Init

(* What is not seen from outside.                                          *)
LEMMA CallsStutter ==
  ASSUME UNCHANGED <<asked, served, result>>,
         \A p \in Callers : /\ call'[p].pc = "idle" <=> call[p].pc = "idle"
                            /\ call'[p].n = call[p].n
  PROVE  UNCHANGED Calls!vars
<1>1. Under' = Under /\ Told' = Told
  BY DEF Under, Told
<1> QED
  BY <1>1 DEF Under, Told, Calls!vars

LEMMA AcquireAsks ==
  ASSUME TypesOK, NEW p \in Callers, NEW o \in Objects, NEW q \in Objects,
         NEW m \in Messages, Acquire(p, o, q, m)
  PROVE  Calls!Ask(p, m)
<1>1. /\ call[p].pc = "idle" /\ asked' = Append(asked, m) /\ served' = served
      /\ call' = [call EXCEPT ![p] =
                    [pc |-> "ready", n |-> Len(asked'), req |-> o, resp |-> q]]
      /\ result' = [result EXCEPT ![p] = NoResult]
  BY DEF Acquire
<1>2. /\ call'[p].pc = "ready" /\ call'[p].n = Len(asked')
      /\ \A x \in Callers \ {p} : call'[x] = call[x]
  BY <1>1 DEF TypesOK, CallsOK
<1>3. ~result'[p].ok /\ \A x \in Callers \ {p} : result'[x] = result[x]
  BY <1>1 DEF TypesOK, CallsOK, NoResult
<1>4. Under[p] = 0 /\ Under' = [Under EXCEPT ![p] = Len(asked')]
  <2>1. Under[p] = 0
    BY <1>1 DEF Under
  <2>2. PICK l : l = Len(asked')
    OBVIOUS
  <2>3. Under' = [x \in Callers |-> IF x = p THEN l ELSE Under[x]]
    BY <1>2, <2>2 DEF Under
  <2>4. [Under EXCEPT ![p] = l] = [x \in Callers |-> IF x = p THEN l ELSE Under[x]]
    BY DEF Under
  <2> QED
    BY <2>1, <2>2, <2>3, <2>4
<1>5. Told' = [Told EXCEPT ![p] = <<>>]
  BY <1>3 DEF Told
<1> QED
  BY <1>1, <1>4, <1>5 DEF Under, Told, Calls!Ask

LEMMA ReturnAnswers ==
  ASSUME TypesOK, Inv, NEW p \in Callers, Return(p)
  PROVE  Calls!Answer(p) \/ Calls!GiveUp(p)
<1> DEFINE n == call[p].n
           q == call[p].resp
           answer == IF result'[p].ok
                     THEN <<[head |-> result'[p].head, value |-> result'[p].value]>>
                     ELSE <<>>
<1>1. /\ call[p].pc \in {"answered", "failed"} /\ UNCHANGED <<asked, served>>
      /\ call' = [call EXCEPT ![p].pc = "idle"]
      /\ result' = [result EXCEPT ![p] =
           [ok |-> call[p].pc = "answered", n |-> n,
            head |-> responses[q].head, value |-> Value(responses[q])]]
  BY DEF Return
<1>2. call'[p].pc = "idle" /\ \A x \in Callers \ {p} : call'[x] = call[x]
  BY <1>1 DEF TypesOK, CallsOK, CallType
<1>3. /\ result'[p].ok = (call[p].pc = "answered")
      /\ result'[p].head = responses[q].head /\ result'[p].value = Value(responses[q])
      /\ \A x \in Callers \ {p} : result'[x] = result[x]
  BY <1>1 DEF TypesOK, CallsOK
<1>4. n \in 1..Len(asked)
  BY <1>1 DEF Inv, PoolInv, Active, Known
<1>5. Under[p] = n /\ n # 0 /\ Under' = [Under EXCEPT ![p] = 0]
  <2>1. Len(asked) \in Nat /\ n # 0
    BY <1>4, LenProperties DEF TypesOK, CallsOK
  <2>2. call[p].pc # "idle"
    BY <1>1
  <2> QED
    BY <1>2, <2>1, <2>2 DEF Under
<1>6. Told' = [Told EXCEPT ![p] = answer]
  BY <1>3 DEF Told
<1>7. CASE call[p].pc = "answered"
  <2>1. n \in Handled /\ Asked(responses[q]) = Answers[asked[n]]
    BY <1>7 DEF Inv, CallInv, OnceInv, CallerInv
  <2>2. result'[p].ok
    BY <1>3, <1>7, Zenon
  <2>3. answer = <<Answers[asked[n]]>>
    BY <1>3, <2>1, <2>2 DEF Asked
  <2>4. Under[p] \in Calls!Numbers
    BY <1>5, <2>1 DEF Handled, Calls!Numbers
  <2>5. answer = <<Answers[asked[Under[p]]]>>
    BY <1>5, <2>3
  <2>6. Calls!Return(p, <<Answers[asked[Under[p]]]>>)
    BY <1>1, <1>5, <1>6, <2>5 DEF Under, Told, Calls!Return
  <2> QED
    BY <2>4, <2>6 DEF Under, Calls!Answer
<1>8. CASE call[p].pc = "failed"
  <2>1. ~result'[p].ok
    BY <1>3, <1>8, Zenon
  <2>2. answer = <<>>
    BY <2>1
  <2> QED
    BY <1>1, <1>5, <1>6, <2>2 DEF Under, Told, Calls!Return, Calls!GiveUp
<1> QED
  BY <1>1, <1>7, <1>8

LEMMA HandleServes ==
  ASSUME TypesOK, Inv, NEW k \in Ctxs, Handle(k)
  PROVE  \E n \in 1..Len(asked) : Calls!Serve(n)
<1> DEFINE n == ctx[k].n
<1>1. /\ ctx[k].phase = "serve" /\ served' = Append(served, <<n, Asked(ctx[k].request)>>)
      /\ UNCHANGED <<call, asked, result>>
  BY DEF Handle
<1>2. n \in 1..Len(asked) /\ Asked(ctx[k].request) = asked[n]
  BY <1>1 DEF Inv, CtxInv, Known
<1>3. n \notin Handled
  <2>1. n \in Serving
    BY <1>1 DEF Serving
  <2> QED
    BY <2>1 DEF Inv, OnceInv, PlaceInv
<1>4. Under' = Under /\ Told' = Told
  BY <1>1 DEF Under, Told
<1>5. Calls!Serve(n)
  BY <1>1, <1>2, <1>3, <1>4 DEF Handled, Under, Told, Calls!Numbers, Calls!Serve
<1> QED
  BY <1>2, <1>5

LEMMA CallsStep ==
  ASSUME TypesOK, Inv, [Next]_vars
  PROVE  [Calls!Next]_(Calls!vars)
<1>1. ASSUME NEW p \in Callers, Call(p) PROVE Calls!Next \/ UNCHANGED Calls!vars
  <2>1. ASSUME NEW o \in Objects, NEW q \in Objects, NEW m \in Messages, Acquire(p, o, q, m)
        PROVE  Calls!Next
    BY <2>1, AcquireAsks DEF Calls!Next
  <2>2. CASE Return(p)
    BY <2>2, ReturnAnswers DEF Calls!Next
  <2>3. ASSUME NEW from, NEW to, MoveTo(p, from, to), from # "idle", to # "idle",
               UNCHANGED <<asked, served, result>>
        PROVE  UNCHANGED Calls!vars
    <3>1. call[p].pc = from /\ Moved(p, to)
      BY <2>3, MovedEffect DEF TypesOK
    <3>2. \A x \in Callers : /\ call'[x].pc = "idle" <=> call[x].pc = "idle"
                             /\ call'[x].n = call[x].n
      BY <2>3, <3>1 DEF Moved
    <3> QED
      BY <2>3, <3>2, CallsStutter
  <2>4. CASE WriteRequest(p)
    <3> DEFINE to == IF Frame(call[p].n, requests[call[p].req]).err THEN "failed"
                     ELSE "waiting"
    <3>1. MoveTo(p, "ready", to) /\ UNCHANGED <<asked, served, result>>
      BY <2>4 DEF WriteRequest
    <3>2. to # "idle"
      OBVIOUS
    <3> HIDE DEF to
    <3> QED
      BY <2>3, <3>1, <3>2
  <2>5. CASE Fail(p)
    BY <2>3, <2>5 DEF Fail
  <2> QED
    BY <1>1, <2>1, <2>2, <2>4, <2>5 DEF Call
<1>2. ASSUME NEW k \in Ctxs, Serve(k) PROVE Calls!Next \/ UNCHANGED Calls!vars
  <2>1. CASE Handle(k)
    BY <2>1, HandleServes DEF Calls!Next
  <2>2. CASE ReadRequest(k) \/ WriteResponse(k)
    <3>1. UNCHANGED <<call, asked, served, result>>
      BY <2>2 DEF ReadRequest, WriteResponse
    <3> QED
      BY <3>1, CallsStutter
  <2> QED
    BY <1>2, <2>1, <2>2 DEF Serve
<1>3. ASSUME ReadResponse PROVE UNCHANGED Calls!vars
  <2> DEFINE for == Waiting(down[1])
             read == ReadFrame(IF for = {} THEN New
                               ELSE responses[call[CHOOSE p \in for : TRUE].resp], down)
             to == IF read.err THEN "failed" ELSE "answered"
  <2>1. /\ call' = [p \in Callers |->
             IF p \in for THEN [call[p] EXCEPT !.pc = to] ELSE call[p]]
        /\ UNCHANGED <<asked, served, result>>
    BY <1>3 DEF ReadResponse
  <2>2. \A p \in for : call[p].pc = "waiting"
    BY DEF Waiting
  <2>3. to # "idle"
    OBVIOUS
  <2> HIDE DEF for, to
  <2>4. \A x \in Callers : /\ call'[x].pc = "idle" <=> call[x].pc = "idle"
                           /\ call'[x].n = call[x].n
    BY <2>1, <2>2, <2>3 DEF TypesOK, CallsOK, CallType
  <2> QED
    BY <2>1, <2>4, CallsStutter
<1>4. ASSUME Close \/ Dial \/ UNCHANGED vars PROVE UNCHANGED Calls!vars
  <2>1. UNCHANGED <<call, asked, served, result>>
    BY <1>4 DEF Close, Dial, vars
  <2> QED
    BY <2>1, CallsStutter
<1> QED
  BY <1>1, <1>2, <1>3, <1>4 DEF Next

(* client.go:84-128, common.go:9-46, requestCtx.go:33-46: whatever fails   *)
(* on the way, the calls are those of AtMostOnce: a request is served at   *)
(* most once and as it was asked, and an answer is to one that was.        *)
THEOREM Implements == Spec => ServedOnce
<1>1. TypeOK /\ Inv /\ [Next]_vars => [Calls!Next]_(Calls!vars)
  BY Parts, CallsStep DEF TypesOK
<1> QED
  BY <1>1, CallsInit, TypeCorrect, ExchangeCorrect, PTL DEF Spec, ServedOnce, Calls!Spec

(* server.go:224-240, requestCtx.go:33-46: no request is handled a second  *)
(* time, or otherwise than it was asked, also when its caller has given up.*)
THEOREM HandledOnce == Spec => []Calls!Once
<1>1. Inv => Calls!Once
  BY DEF Inv, OnceInv, ServedInv, Known, Calls!Once
<1> QED
  BY <1>1, ExchangeCorrect, PTL
=============================================================================
