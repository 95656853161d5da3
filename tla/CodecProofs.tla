----------------------------- MODULE CodecProofs -----------------------------
(***************************************************************************)
(* Writing and reading are inverse, for names, MIME types and frames of    *)
(* any length up to any limits: what a reader takes says what its bytes    *)
(* say, what a program of the library writes is taken, and no name changes *)
(* on its way to the directory.                                            *)
(***************************************************************************)
EXTENDS Codec, SequenceLemmas

---------------------------------------------------------------------------
(***************************************************************************)
(* Numbers.                                                                *)
(***************************************************************************)
LEMMA DivMod == ASSUME NEW n \in Nat, NEW d \in Nat, d # 0
                PROVE  n \div d \in Int /\ n % d \in 0 .. d - 1 /\ d * (n \div d) + (n % d) = n
  OBVIOUS

LEMMA DivMod256 == ASSUME NEW h \in Nat, NEW l \in 0 .. 255
                   PROVE  (256 * h + l) \div 256 = h /\ (256 * h + l) % 256 = l
<1> DEFINE n == 256 * h + l
<1>1. n \in Nat
  OBVIOUS
<1> HIDE DEF n
<1> DEFINE q == n \div 256
           r == n % 256
<1>2. q \in Int /\ r \in 0 .. 255 /\ 256 * q + r = n
  BY <1>1
<1> HIDE DEF q, r
<1>3. q = h /\ r = l
  BY <1>2, SMTT(30) DEF n
<1> QED  BY <1>3 DEF n, q, r

LEMMA WordRange == \A l : l \in 0 .. Word - 1 <=> l \in Int /\ 0 <= l /\ l <= 65535
<1>1. Word \in Int
  BY SMT DEF Word
<1>2. ASSUME NEW l PROVE l \in 0 .. Word - 1 <=> l \in Int /\ 0 <= l /\ l < Word
  BY <1>1, SMT
<1>3. ASSUME NEW l \in Int PROVE l < Word <=> l <= 65535
  BY SMTT(30) DEF Word
<1> QED  BY <1>2, <1>3

LEMMA DivModWord == ASSUME NEW h \in Nat, NEW l \in 0 .. Word - 1
                    PROVE  (Word * h + l) \div Word = h /\ (Word * h + l) % Word = l
<1>1. l \in Int /\ 0 <= l /\ l <= 65535
  BY WordRange
<1>2. (65536 * h + l) \div 65536 = h /\ (65536 * h + l) % 65536 = l
  <2> DEFINE n == 65536 * h + l
  <2>1. n \in Nat
    BY <1>1
  <2> HIDE DEF n
  <2> DEFINE q == n \div 65536
             r == n % 65536
  <2>2. q \in Int /\ r \in Int /\ 0 <= r /\ r <= 65535 /\ 65536 * q + r = n
    BY <2>1
  <2> HIDE DEF q, r
  <2>3. q = h /\ r = l
    BY <1>1, <2>2 DEF n
  <2> QED  BY <2>3 DEF n, q, r
<1> QED  BY <1>2, SMT DEF Word

LEMMA BytesOfNumber16 == ASSUME NEW n \in 0 .. Word - 1
                         PROVE  /\ BigEndian16(n) \in Bytes /\ Len(BigEndian16(n)) = 2
                                /\ Number16(BigEndian16(n)) = n
<1> DEFINE h == n \div 256
           l == n % 256
<1>0. n \in Nat /\ n < 65536
  BY SMTT(30) DEF Word
<1>1. h \in Int /\ l \in 0 .. 255 /\ 256 * h + l = n
  BY <1>0, SMT
<1>2. BigEndian16(n) = <<h, l>>
  BY DEF BigEndian16
<1> HIDE DEF h, l
<1>3. h \in Byte /\ l \in Byte
  BY <1>0, <1>1, SMT DEF Byte
<1>4. <<h, l>> \in Seq(Byte) /\ Len(<<h, l>>) = 2 /\ <<h, l>>[1] = h /\ <<h, l>>[2] = l
  BY <1>3
<1> QED  BY <1>1, <1>2, <1>4, SMTT(30) DEF Number16, Bytes

LEMMA Number16OfBytes == ASSUME NEW bytes \in Bytes, Len(bytes) = 2
                         PROVE  /\ Number16(bytes) \in 0 .. Word - 1
                                /\ BigEndian16(Number16(bytes)) = bytes
<1> DEFINE h == bytes[1]
           l == bytes[2]
<1>0. bytes \in Seq(Byte)
  BY DEF Bytes
<1>1. bytes = <<h, l>> /\ h \in Byte /\ l \in Byte
  BY <1>0, SMTT(30)
<1>2. Number16(bytes) = 256 * h + l
  BY DEF Number16
<1> HIDE DEF h, l
<1>3. h \in 0 .. 255 /\ l \in 0 .. 255
  BY <1>1 DEF Byte
<1> DEFINE n == 256 * h + l
<1>4. n \in 0 .. Word - 1
  <2>1. 0 <= h /\ h <= 255 /\ 0 <= l /\ l <= 255 /\ h \in Int /\ l \in Int
    BY <1>3
  <2>2. n \in Int /\ 0 <= n /\ n <= 65535
    BY <2>1
  <2> QED  BY <2>2, WordRange
<1>5. n \div 256 = h /\ n % 256 = l
  <2>1. h \in Nat /\ l \in 0 .. 255
    BY <1>3
  <2> QED  BY <2>1, DivMod256, ZenonT(60)
<1> HIDE DEF n
<1>6. BigEndian16(n) = <<h, l>>
  BY <1>5 DEF BigEndian16
<1>7. Number16(bytes) = n
  BY <1>2 DEF n
<1> QED  BY <1>1, <1>4, <1>6, <1>7

LEMMA TwoAndTwo == ASSUME NEW u \in Bytes, NEW v \in Bytes, Len(u) = 2, Len(v) = 2
                   PROVE  /\ u \o v \in Bytes /\ Len(u \o v) = 4
                          /\ (u \o v)[1] = u[1] /\ (u \o v)[2] = u[2]
                          /\ (u \o v)[3] = v[1] /\ (u \o v)[4] = v[2]
<1>1. u \in Seq(Byte) /\ v \in Seq(Byte)
  BY DEF Bytes
<1>2. /\ u \o v \in Seq(Byte) /\ Len(u \o v) = Len(u) + Len(v)
      /\ \A i \in 1 .. Len(u) + Len(v) : (u \o v)[i] = IF i <= Len(u) THEN u[i] ELSE v[i - Len(u)]
  BY <1>1, ConcatProperties
<1> DEFINE b == u \o v
<1> HIDE DEF b
<1>3. /\ b \in Seq(Byte) /\ Len(b) = 4
      /\ \A i \in 1 .. 4 : b[i] = IF i <= 2 THEN u[i] ELSE v[i - 2]
  BY <1>2 DEF b
<1>4. b \in Bytes /\ Len(b) = 4 /\ b[1] = u[1] /\ b[2] = u[2] /\ b[3] = v[1] /\ b[4] = v[2]
  BY <1>3 DEF Bytes
<1> QED  BY <1>4 DEF b

LEMMA HighPart == ASSUME NEW n \in Nat, NEW h \in Int, NEW l \in 0 .. Word - 1,
                         Word * h + l = n, h < Word
                  PROVE  h \in 0 .. Word - 1
<1>1. l \in Int /\ 0 <= l /\ l <= 65535
  BY WordRange, SMTT(30)
<1>2. 65536 * h + l = n /\ h < 65536
  BY SMTT(30) DEF Word
<1>3. 0 <= h /\ h <= 65535
  BY <1>1, <1>2
<1> QED  BY <1>3, WordRange

LEMMA BytesOfNumber32 == ASSUME NEW n \in Nat, n \div Word < Word
                         PROVE  /\ BigEndian32(n) \in Bytes /\ Len(BigEndian32(n)) = 4
                                /\ Number32(BigEndian32(n)) = n
<1> DEFINE h == n \div Word
           l == n % Word
           hh == BigEndian16(h)
           ll == BigEndian16(l)
<1>1. h \in Int /\ h < Word /\ l \in 0 .. Word - 1 /\ Word * h + l = n
  BY SMTT(30) DEF Word
<1>2. BigEndian32(n) = hh \o ll
  BY DEF BigEndian32
<1> HIDE DEF h, l
<1>3. h \in 0 .. Word - 1
  BY <1>1, HighPart
<1>4. /\ hh \in Bytes /\ Len(hh) = 2 /\ Number16(hh) = h
      /\ ll \in Bytes /\ Len(ll) = 2 /\ Number16(ll) = l
  BY <1>1, <1>3, BytesOfNumber16
<1> HIDE DEF hh, ll
<1> DEFINE b == hh \o ll
<1>5. b \in Bytes /\ Len(b) = 4 /\ b[1] = hh[1] /\ b[2] = hh[2] /\ b[3] = ll[1] /\ b[4] = ll[2]
  BY <1>4, TwoAndTwo
<1> HIDE DEF b
<1>6. Number16(b) = h /\ Number16(<<b[3], b[4]>>) = l
  BY <1>4, <1>5 DEF Number16
<1>7. Number32(b) = n
  BY <1>1, <1>6, Zenon DEF Number32
<1> QED  BY <1>2, <1>5, <1>7, Zenon DEF b

LEMMA Number32OfBytes == ASSUME NEW bytes \in Bytes, Len(bytes) = 4
                         PROVE  /\ Number32(bytes) \in Nat
                                /\ BigEndian32(Number32(bytes)) = bytes
<1> DEFINE hh == <<bytes[1], bytes[2]>>
           ll == <<bytes[3], bytes[4]>>
           h == Number16(hh)
           l == Number16(ll)
           n == Word * h + l
<1>1. /\ hh \in Bytes /\ ll \in Bytes /\ Len(hh) = 2 /\ Len(ll) = 2
      /\ hh[1] = bytes[1] /\ hh[2] = bytes[2]
  BY DEF Bytes
<1>2. hh \o ll = bytes
  BY DEF Bytes
<1>3. Number16(bytes) = h
  BY DEF Number16
<1>4. Number32(bytes) = n
  BY <1>3, Zenon DEF Number32
<1> HIDE DEF hh, ll
<1>5. h \in 0 .. Word - 1 /\ l \in 0 .. Word - 1 /\ BigEndian16(h) = hh /\ BigEndian16(l) = ll
  BY <1>1, Number16OfBytes
<1> HIDE DEF h, l
<1>6. h \in Nat /\ n \in Nat
  <2>1. h \in Int /\ 0 <= h /\ l \in Int /\ 0 <= l
    BY <1>5, WordRange
  <2>2. 65536 * h + l \in Nat
    BY <2>1
  <2> QED  BY <2>1, <2>2, SMT DEF Word
<1>7. n \div Word = h /\ n % Word = l
  <2>1. h \in Nat
    BY <1>6
  <2> QED  BY <1>5, <2>1, DivModWord
<1> HIDE DEF n
<1>8. BigEndian32(n) = hh \o ll
  BY <1>5, <1>7, Zenon DEF BigEndian32
<1> QED  BY <1>2, <1>4, <1>6, <1>8, Zenon

---------------------------------------------------------------------------
(***************************************************************************)
(* Slices.                                                                 *)
(***************************************************************************)
LEMMA SliceType == ASSUME NEW b \in Bytes, NEW offset \in Nat, NEW length \in Nat,
                          offset + length <= Len(b)
                   PROVE  Slice(b, offset, length) \in Bytes /\ Len(Slice(b, offset, length)) = length
  BY DEF Slice, Bytes

LEMMA SliceAll == ASSUME NEW b \in Bytes PROVE Slice(b, 0, Len(b)) = b
  BY DEF Slice, Bytes

LEMMA SliceLeft == ASSUME NEW s \in Bytes, NEW t \in Bytes, NEW offset \in Nat, NEW length \in Nat,
                          offset + length <= Len(s)
                   PROVE  Slice(s \o t, offset, length) = Slice(s, offset, length)
  BY DEF Slice, Bytes

LEMMA SliceRight == ASSUME NEW s \in Bytes, NEW t \in Bytes
                    PROVE  Slice(s \o t, Len(s), Len(t)) = t
  BY DEF Slice, Bytes

LEMMA SliceJoin == ASSUME NEW b \in Bytes, NEW m \in Nat, NEW n \in Nat, m + n <= Len(b)
                   PROVE  Slice(b, 0, m) \o Slice(b, m, n) = Slice(b, 0, m + n)
  BY DEF Slice, Bytes

---------------------------------------------------------------------------
(***************************************************************************)
(* Offers.                                                                 *)
(***************************************************************************)
LEMMA BytesJoin == \A u, v \in Bytes : u \o v \in Bytes /\ Len(u \o v) = Len(u) + Len(v)
<1>1. ASSUME NEW u \in Seq(Byte), NEW v \in Seq(Byte)
      PROVE  u \o v \in Seq(Byte) /\ Len(u \o v) = Len(u) + Len(v)
  BY ConcatProperties, Zenon
<1> QED  BY <1>1, Zenon DEF Bytes

LEMMA BytesLen == \A u \in Bytes : Len(u) \in Nat
  BY DEF Bytes

LEMMA SliceOfJoin == \A s, t \in Bytes : \A offset, length \in Nat :
                       offset + length <= Len(s) =>
                         Slice(s \o t, offset, length) = Slice(s, offset, length)
  BY SliceLeft, Zenon

Joined(a, b, c, d, e, f) == a \o b \o c \o d \o e \o f

FieldsFound(all, a, b, c, d, e, f) ==
  /\ all \in Bytes
  /\ Len(all) = Len(a) + Len(b) + Len(c) + Len(d) + Len(e) + Len(f)
  /\ Slice(all, 0, Len(a)) = a
  /\ Slice(all, Len(a), Len(b)) = b
  /\ Slice(all, Len(a) + Len(b), Len(c)) = c
  /\ Slice(all, Len(a) + Len(b) + Len(c), Len(d)) = d
  /\ Slice(all, Len(a) + Len(b) + Len(c) + Len(d), Len(e)) = e
  /\ Slice(all, Len(a) + Len(b) + Len(c) + Len(d) + Len(e), Len(f)) = f

\* Where decode_payload finds a field, encode_payload wrote it: the fields of
\* any six sequences, one behind the other.
LEMMA SixFields ==
  ASSUME NEW a \in Bytes, NEW b \in Bytes, NEW c \in Bytes,
         NEW d \in Bytes, NEW e \in Bytes, NEW f \in Bytes
  PROVE  FieldsFound(Joined(a, b, c, d, e, f), a, b, c, d, e, f)
<1> DEFINE p1 == a \o b
           p2 == p1 \o c
           p3 == p2 \o d
           p4 == p3 \o e
           p5 == p4 \o f
<1>1. Joined(a, b, c, d, e, f) = p5
  BY Zenon DEF Joined
<1>2. p1 \in Bytes /\ Len(p1) = Len(a) + Len(b) /\ Slice(p1, Len(a), Len(b)) = b
  BY BytesJoin, SliceRight, Zenon
<1> HIDE DEF p1
<1>3. p2 \in Bytes /\ Len(p2) = Len(p1) + Len(c) /\ Slice(p2, Len(p1), Len(c)) = c
  BY <1>2, BytesJoin, SliceRight, Zenon
<1> HIDE DEF p2
<1>4. p3 \in Bytes /\ Len(p3) = Len(p2) + Len(d) /\ Slice(p3, Len(p2), Len(d)) = d
  BY <1>3, BytesJoin, SliceRight, Zenon
<1> HIDE DEF p3
<1>5. p4 \in Bytes /\ Len(p4) = Len(p3) + Len(e) /\ Slice(p4, Len(p3), Len(e)) = e
  BY <1>4, BytesJoin, SliceRight, Zenon
<1> HIDE DEF p4
<1>6. p5 \in Bytes /\ Len(p5) = Len(p4) + Len(f) /\ Slice(p5, Len(p4), Len(f)) = f
  BY <1>5, BytesJoin, SliceRight, Zenon
<1>7. \A offset, length \in Nat :
        offset + length <= Len(p4) => Slice(p5, offset, length) = Slice(p4, offset, length)
  BY <1>5, SliceOfJoin, Zenon
<1> HIDE DEF p5
<1>8. \A offset, length \in Nat :
        offset + length <= Len(p3) => Slice(p4, offset, length) = Slice(p3, offset, length)
  BY <1>4, SliceOfJoin, Zenon DEF p4
<1>9. \A offset, length \in Nat :
        offset + length <= Len(p2) => Slice(p3, offset, length) = Slice(p2, offset, length)
  BY <1>3, SliceOfJoin, Zenon DEF p3
<1>10. \A offset, length \in Nat :
         offset + length <= Len(p1) => Slice(p2, offset, length) = Slice(p1, offset, length)
  BY <1>2, SliceOfJoin, Zenon DEF p2
<1>11. \A offset, length \in Nat :
         offset + length <= Len(a) => Slice(p1, offset, length) = Slice(a, offset, length)
  BY SliceOfJoin, Zenon DEF p1
<1>12. /\ Len(a) \in Nat /\ Len(b) \in Nat /\ Len(c) \in Nat
       /\ Len(d) \in Nat /\ Len(e) \in Nat /\ Len(f) \in Nat
  BY BytesLen, Zenon
<1>13. Slice(a, 0, Len(a)) = a
  BY SliceAll, Zenon
<1>14. Slice(p5, 0, Len(a)) = a
  <2>1. Slice(p5, 0, Len(a)) = Slice(p4, 0, Len(a))
    BY <1>2, <1>3, <1>4, <1>5, <1>7, <1>12
  <2>2. Slice(p4, 0, Len(a)) = Slice(p3, 0, Len(a))
    BY <1>2, <1>3, <1>4, <1>8, <1>12
  <2>3. Slice(p3, 0, Len(a)) = Slice(p2, 0, Len(a))
    BY <1>2, <1>3, <1>9, <1>12
  <2>4. Slice(p2, 0, Len(a)) = Slice(p1, 0, Len(a))
    BY <1>2, <1>10, <1>12
  <2>5. Slice(p1, 0, Len(a)) = Slice(a, 0, Len(a))
    BY <1>11, <1>12
  <2> QED  BY <1>13, <2>1, <2>2, <2>3, <2>4, <2>5, Zenon
<1>15. Slice(p5, Len(a), Len(b)) = b
  <2>1. Slice(p5, Len(a), Len(b)) = Slice(p4, Len(a), Len(b))
    BY <1>2, <1>3, <1>4, <1>5, <1>7, <1>12
  <2>2. Slice(p4, Len(a), Len(b)) = Slice(p3, Len(a), Len(b))
    BY <1>2, <1>3, <1>4, <1>8, <1>12
  <2>3. Slice(p3, Len(a), Len(b)) = Slice(p2, Len(a), Len(b))
    BY <1>2, <1>3, <1>9, <1>12
  <2>4. Slice(p2, Len(a), Len(b)) = Slice(p1, Len(a), Len(b))
    BY <1>2, <1>10, <1>12
  <2> QED  BY <1>2, <2>1, <2>2, <2>3, <2>4, Zenon
<1>16. Slice(p5, Len(p1), Len(c)) = c
  <2>1. Slice(p5, Len(p1), Len(c)) = Slice(p4, Len(p1), Len(c))
    BY <1>2, <1>3, <1>4, <1>5, <1>7, <1>12
  <2>2. Slice(p4, Len(p1), Len(c)) = Slice(p3, Len(p1), Len(c))
    BY <1>2, <1>3, <1>4, <1>8, <1>12
  <2>3. Slice(p3, Len(p1), Len(c)) = Slice(p2, Len(p1), Len(c))
    BY <1>2, <1>3, <1>9, <1>12
  <2> QED  BY <1>3, <2>1, <2>2, <2>3, Zenon
<1>17. Slice(p5, Len(p2), Len(d)) = d
  <2>1. Slice(p5, Len(p2), Len(d)) = Slice(p4, Len(p2), Len(d))
    BY <1>2, <1>3, <1>4, <1>5, <1>7, <1>12
  <2>2. Slice(p4, Len(p2), Len(d)) = Slice(p3, Len(p2), Len(d))
    BY <1>2, <1>3, <1>4, <1>8, <1>12
  <2> QED  BY <1>4, <2>1, <2>2, Zenon
<1>18. Slice(p5, Len(p3), Len(e)) = e
  <2>1. Slice(p5, Len(p3), Len(e)) = Slice(p4, Len(p3), Len(e))
    BY <1>2, <1>3, <1>4, <1>5, <1>7, <1>12
  <2> QED  BY <1>5, <2>1, Zenon
<1>19. Len(p5) = Len(a) + Len(b) + Len(c) + Len(d) + Len(e) + Len(f)
  BY <1>2, <1>3, <1>4, <1>5, <1>6, <1>12
<1> QED
  BY <1>1, <1>2, <1>3, <1>4, <1>5, <1>6, <1>14, <1>15, <1>16, <1>17, <1>18, <1>19, Zenon
     DEF FieldsFound

Fields(offer) == /\ Len(offer.id) = IdLen /\ Len(offer.size) = SizeLen
                 /\ ValidOffer(offer) /\ Utf8(offer.name) /\ Utf8(offer.mime)

LEMMA Limits == /\ IdLen = 16 /\ HashLen = 32 /\ SizeLen = 8 /\ HeaderLen = 5
                /\ MaxName \in 0 .. Word - 1 /\ MaxMime \in 0 .. Word - 1 /\ MaxFrame \in Nat
                /\ 28 + MaxName + MaxMime <= MaxFrame /\ 48 <= MaxFrame
<1>1. IdLen = 16 /\ HashLen = 32 /\ SizeLen = 8 /\ HeaderLen = 5
  BY DEF IdLen, HashLen, SizeLen, HeaderLen
<1>2. Word \in Int
  BY SMT DEF Word
<1> QED  BY <1>1, <1>2, LimitsAssumption

\* decode_payload, then encode_payload.
LEMMA OfferRead ==
  ASSUME NEW payload \in Bytes, OfferDecodes(payload)
  PROVE  /\ OfferIn(payload) \in Offers
         /\ Fields(OfferIn(payload))
         /\ OfferPayload(OfferIn(payload)) = payload
<1> DEFINE offer == OfferIn(payload)
           n == NameLen(payload)
           m == MimeLen(payload)
           nb == Slice(payload, 16, 2)
           mb == Slice(payload, 26 + n, 2)
<1>1. Len(payload) \in Nat /\ FieldsDecode(payload) /\ Len(payload) = OfferEnd(payload)
      /\ ValidOffer(offer)
  BY BytesLen DEF OfferDecodes
<1>2. nb \in Bytes /\ Len(nb) = 2
  <2>1. 16 + 2 <= Len(payload)
    BY <1>1, Limits DEF FieldsDecode
  <2> QED  BY <1>1, <2>1, SliceType
<1>3. n = Number16(nb) /\ n \in Nat /\ BigEndian16(n) = nb /\ n <= MaxName
  <2>1. n = Number16(nb)
    BY Limits DEF NameLen
  <2> HIDE DEF nb, n
  <2>2. n \in 0 .. Word - 1 /\ BigEndian16(n) = nb
    BY <1>2, <2>1, Number16OfBytes
  <2>3. n <= MaxName
    BY <1>1 DEF FieldsDecode, n
  <2> QED  BY <2>1, <2>2, <2>3, WordRange
<1>4. MimeAt(payload) = 26 + n
  BY <1>3, Limits DEF MimeAt
<1>5. mb \in Bytes /\ Len(mb) = 2
  <2>1. 26 + n + 2 <= Len(payload)
    BY <1>1, <1>4 DEF FieldsDecode
  <2> HIDE DEF n
  <2>2. 26 + n \in Nat /\ 2 \in Nat /\ (26 + n) + 2 <= Len(payload)
    BY <1>3, <2>1
  <2> QED  BY <2>2, SliceType, Zenon
<1>6. m = Number16(mb) /\ m \in Nat /\ BigEndian16(m) = mb
  <2>1. m = Number16(mb)
    BY <1>4 DEF MimeLen
  <2> HIDE DEF mb, m
  <2>2. m \in 0 .. Word - 1 /\ BigEndian16(m) = mb
    BY <1>5, <2>1, Number16OfBytes
  <2> QED  BY <2>1, <2>2, WordRange
<1>7. Len(payload) = 28 + n + m
  BY <1>1, <1>3, <1>4, <1>6 DEF OfferEnd
<1>8. /\ offer.id = Slice(payload, 0, 16) /\ offer.name = Slice(payload, 18, n)
      /\ offer.size = Slice(payload, 18 + n, 8) /\ offer.mime = Slice(payload, 28 + n, m)
      /\ offer.type = "TransferOffer"
  BY <1>3, <1>4, Limits DEF OfferIn
<1> HIDE DEF n, m, nb, mb
<1> DEFINE id == Slice(payload, 0, 16)
           name == Slice(payload, 18, n)
           size == Slice(payload, 18 + n, 8)
           mime == Slice(payload, 28 + n, m)
<1>9. /\ id \in Bytes /\ name \in Bytes /\ size \in Bytes /\ mime \in Bytes
      /\ Len(id) = 16 /\ Len(name) = n /\ Len(size) = 8 /\ Len(mime) = m
  <2>1. /\ 0 \in Nat /\ 16 \in Nat /\ 0 + 16 <= Len(payload)
        /\ 18 \in Nat /\ n \in Nat /\ 18 + n <= Len(payload)
        /\ 18 + n \in Nat /\ 8 \in Nat /\ (18 + n) + 8 <= Len(payload)
        /\ 28 + n \in Nat /\ m \in Nat /\ (28 + n) + m <= Len(payload)
    BY <1>3, <1>6, <1>7
  <2> QED  BY <2>1, SliceType, ZenonT(60)
<1>10. OfferPayload(offer) = id \o nb \o name \o size \o mb \o mime
  <2>1. BigEndian16(Len(offer.name)) = nb /\ BigEndian16(Len(offer.mime)) = mb
    BY <1>3, <1>6, <1>8, <1>9
  <2> HIDE DEF offer, id, name, size, mime
  <2>2. offer.id = id /\ offer.name = name /\ offer.size = size /\ offer.mime = mime
    BY <1>8 DEF id, name, size, mime
  <2> QED  BY <2>1, <2>2, Zenon DEF OfferPayload
<1>11. id \o nb = Slice(payload, 0, 18)
  <2>1. 0 + 16 = 16 /\ 16 + 2 = 18 /\ 16 + 2 <= Len(payload)
    BY <1>3, <1>6, <1>7
  <2> QED  BY <2>1, SliceJoin DEF nb
<1>12. Slice(payload, 0, 18) \o name = Slice(payload, 0, 18 + n)
  <2>1. 18 \in Nat /\ n \in Nat /\ 18 + n <= Len(payload)
    BY <1>3, <1>6, <1>7
  <2> QED  BY <2>1, SliceJoin, Zenon
<1>13. Slice(payload, 0, 18 + n) \o size = Slice(payload, 0, 26 + n)
  <2>1. (18 + n) + 8 = 26 + n /\ 18 + n \in Nat /\ (18 + n) + 8 <= Len(payload)
    BY <1>3, <1>6, <1>7
  <2>2. Slice(payload, 0, 18 + n) \o size = Slice(payload, 0, (18 + n) + 8)
    BY <2>1, SliceJoin
  <2> QED  BY <2>1, <2>2
<1>14. Slice(payload, 0, 26 + n) \o mb = Slice(payload, 0, 28 + n)
  <2>1. (26 + n) + 2 = 28 + n /\ 26 + n \in Nat /\ (26 + n) + 2 <= Len(payload)
    BY <1>3, <1>6, <1>7
  <2>2. Slice(payload, 0, 26 + n) \o mb = Slice(payload, 0, (26 + n) + 2)
    BY <2>1, SliceJoin DEF mb
  <2> QED  BY <2>1, <2>2
<1>15. Slice(payload, 0, 28 + n) \o mime = payload
  <2>1. (28 + n) + m = Len(payload) /\ 28 + n \in Nat
    BY <1>3, <1>6, <1>7
  <2>2. Slice(payload, 0, 28 + n) \o mime = Slice(payload, 0, (28 + n) + m)
    <3>1. m \in Nat /\ (28 + n) + m <= Len(payload)
      BY <1>3, <1>6, <1>7
    <3> QED  BY <2>1, <3>1, SliceJoin, Zenon
  <2> QED  BY <2>1, <2>2, SliceAll
<1>16. offer \in Offers
  BY <1>8, <1>9 DEF Offers, OfferIn
<1>17. Fields(offer)
  BY <1>1, <1>8, <1>9, Limits DEF Fields, FieldsDecode
<1>18. OfferPayload(offer) = payload
  <2> HIDE DEF offer, id, name, size, mime
  <2> QED  BY <1>10, <1>11, <1>12, <1>13, <1>14, <1>15, Zenon
<1> QED  BY <1>16, <1>17, <1>18

\* encode_payload, then decode_payload.
LEMMA OfferWritten ==
  ASSUME NEW offer \in Offers, Fields(offer)
  PROVE  LET payload == OfferPayload(offer) IN
         /\ payload \in Bytes /\ Len(payload) <= MaxFrame
         /\ OfferDecodes(payload)
         /\ OfferIn(payload) = offer
<1> DEFINE payload == OfferPayload(offer)
           n == Len(offer.name)
           m == Len(offer.mime)
           nb == BigEndian16(n)
           mb == BigEndian16(m)
<1>1. /\ offer.type = "TransferOffer"
      /\ offer.id \in Bytes /\ offer.name \in Bytes /\ offer.size \in Bytes /\ offer.mime \in Bytes
      /\ Len(offer.id) = 16 /\ Len(offer.size) = 8
  BY Limits DEF Offers, Fields
<1>2. n \in Nat /\ m \in Nat /\ n <= MaxName /\ m <= MaxMime
  BY <1>1, Limits, BytesLen DEF Fields, ValidOffer, ValidName, PlainName, ValidMime
<1>3. n \in 0 .. Word - 1 /\ m \in 0 .. Word - 1
  BY <1>2, Limits, WordRange
<1>4. /\ nb \in Bytes /\ Len(nb) = 2 /\ Number16(nb) = n
      /\ mb \in Bytes /\ Len(mb) = 2 /\ Number16(mb) = m
  BY <1>3, BytesOfNumber16
<1>5. payload = Joined(offer.id, nb, offer.name, offer.size, mb, offer.mime)
  BY Zenon DEF OfferPayload, Joined
<1> HIDE DEF payload, n, m, nb, mb
<1>0. FieldsFound(payload, offer.id, nb, offer.name, offer.size, mb, offer.mime)
  BY <1>1, <1>4, <1>5, SixFields
<1>6. /\ payload \in Bytes
      /\ Len(payload) = 16 + 2 + Len(offer.name) + 8 + 2 + Len(offer.mime)
      /\ Slice(payload, 0, 16) = offer.id
      /\ Slice(payload, 16, 2) = nb
      /\ Slice(payload, 16 + 2, Len(offer.name)) = offer.name
      /\ Slice(payload, 16 + 2 + Len(offer.name), 8) = offer.size
      /\ Slice(payload, 16 + 2 + Len(offer.name) + 8, 2) = mb
      /\ Slice(payload, 16 + 2 + Len(offer.name) + 8 + 2, Len(offer.mime)) = offer.mime
  BY <1>0, <1>1, <1>4, Zenon DEF FieldsFound
<1>7. /\ Len(payload) = 28 + n + m
      /\ Slice(payload, 18, n) = offer.name
      /\ Slice(payload, 18 + n, 8) = offer.size
      /\ Slice(payload, 26 + n, 2) = mb
      /\ Slice(payload, 28 + n, m) = offer.mime
  <2>1. /\ 16 + 2 = 18 /\ 16 + 2 + n = 18 + n /\ 16 + 2 + n + 8 = 26 + n
        /\ 16 + 2 + n + 8 + 2 = 28 + n /\ 16 + 2 + n + 8 + 2 + m = 28 + n + m
    BY <1>2
  <2>2. n = Len(offer.name) /\ m = Len(offer.mime)
    BY DEF n, m
  <2> QED  BY <1>6, <2>1, <2>2
<1>8. NameLen(payload) = n
  BY <1>4, <1>6, Limits DEF NameLen
<1>9. MimeAt(payload) = 26 + n
  BY <1>2, <1>8, Limits DEF MimeAt
<1>10. MimeLen(payload) = m
  BY <1>4, <1>7, <1>9 DEF MimeLen
<1>11. OfferEnd(payload) = 28 + n + m
  BY <1>2, <1>9, <1>10 DEF OfferEnd
<1>12. OfferIn(payload) = [type |-> "TransferOffer", id |-> offer.id, name |-> offer.name,
                           size |-> offer.size, mime |-> offer.mime]
  <2>1. 16 + 2 = 18 /\ 18 + n = 16 + 2 + n /\ 26 + n + 2 = 28 + n
    BY <1>2
  <2> QED  BY <1>6, <1>7, <1>8, <1>9, <1>10, <2>1, Limits DEF OfferIn
<1>13. offer = [type |-> "TransferOffer", id |-> offer.id, name |-> offer.name,
                size |-> offer.size, mime |-> offer.mime]
  BY DEF Offers
<1>14. OfferIn(payload) = offer
  BY <1>12, <1>13
<1>15. OfferDecodes(payload)
  BY <1>2, <1>7, <1>8, <1>9, <1>10, <1>11, <1>14, Limits, SMTT(30) DEF OfferDecodes, FieldsDecode, Fields
<1>16. Len(payload) <= MaxFrame
  BY <1>2, <1>7, Limits, WordRange
<1> QED  BY <1>6, <1>14, <1>15, <1>16 DEF payload

---------------------------------------------------------------------------
(***************************************************************************)
(* Frames.                                                                 *)
(***************************************************************************)
\* The types that a reader waits for.
Awaited == {"TransferOffer", "Accept", "Reject", "Complete", "Verified"}

LEMMA TypeCodes == /\ DOMAIN FrameTypes = 1 .. 9
                   /\ \A c \in 1 .. 9 : TypeCode(FrameTypes[c]) = c
                   /\ \A type \in Awaited : TypeCode(type) \in 1 .. 9 /\ FrameTypes[TypeCode(type)] = type
<1>1. DOMAIN FrameTypes = 1 .. 9
  BY DEF FrameTypes
<1>2. \A c, d \in 1 .. 9 : FrameTypes[c] = FrameTypes[d] => c = d
  BY DEF FrameTypes
<1>3. \A type \in Awaited : \E c \in 1 .. 9 : FrameTypes[c] = type
  BY DEF FrameTypes, Awaited
<1>4. \A c \in 1 .. 9 : TypeCode(FrameTypes[c]) = c
  BY <1>1, <1>2 DEF TypeCode
<1>5. \A type \in Awaited : TypeCode(type) \in 1 .. 9 /\ FrameTypes[TypeCode(type)] = type
  BY <1>1, <1>3 DEF TypeCode
<1> QED  BY <1>1, <1>4, <1>5

LEMMA BuildableFields == \A frame \in Offers : Buildable(frame) <=> Fields(frame)
<1> SUFFICES ASSUME NEW frame \in Offers PROVE Buildable(frame) <=> Fields(frame)
  OBVIOUS
<1>1. frame.type = "TransferOffer" /\ frame \notin Hashes
  BY DEF Offers, Hashes
<1> QED  BY <1>1 DEF Buildable, Fields

\* from_frame and the parsers of decision.rs, then the bytes of what they found.
LEMMA PayloadRead ==
  ASSUME NEW type \in Awaited, NEW payload \in Bytes, PayloadDecodes(type, payload)
  PROVE  LET frame == Content(type, payload) IN
         /\ Buildable(frame) /\ frame.type = type
         /\ Payload(frame) = payload
<1> DEFINE frame == Content(type, payload)
<1> SUFFICES Buildable(frame) /\ frame.type = type /\ Payload(frame) = payload
  OBVIOUS
<1>1. CASE type = "TransferOffer"
  <2>1. frame = OfferIn(payload) /\ OfferDecodes(payload)
    BY <1>1 DEF Content, PayloadDecodes
  <2>2. frame \in Offers /\ Fields(frame) /\ OfferPayload(frame) = payload
    BY <2>1, OfferRead
  <2>3. frame.type = type
    BY <1>1, <2>1 DEF OfferIn
  <2> HIDE DEF frame
  <2> QED  BY <1>1, <2>2, <2>3, BuildableFields DEF Payload
<1>2. CASE type \in {"Complete", "Verified"}
  <2> DEFINE id == Slice(payload, 0, IdLen)
             hash == Slice(payload, IdLen, HashLen)
  <2>1. frame = [type |-> type, id |-> id, hash |-> hash] /\ Len(payload) = IdLen + HashLen
    BY <1>2 DEF Content, PayloadDecodes
  <2>2. /\ IdLen \in Nat /\ HashLen \in Nat /\ 0 \in Nat /\ 0 + IdLen = IdLen
        /\ 0 + IdLen <= Len(payload) /\ IdLen + HashLen <= Len(payload)
    BY <2>1, Limits
  <2>3. id \in Bytes /\ Len(id) = IdLen /\ hash \in Bytes /\ Len(hash) = HashLen
    BY <2>2, SliceType, Zenon
  <2>4. id \o hash = payload
    BY <2>1, <2>2, SliceJoin, SliceAll, ZenonT(60)
  <2> HIDE DEF id, hash
  <2>5. frame \in Hashes /\ frame \notin Offers /\ frame.type = type /\ frame.id = id /\ frame.hash = hash
    BY <1>2, <2>1, <2>3 DEF Hashes, Offers
  <2> HIDE DEF frame
  <2>6. Buildable(frame)
    BY <2>3, <2>5 DEF Buildable
  <2>7. Payload(frame) = id \o hash
    <3>1. frame.type # "TransferOffer" /\ frame.type \in {"Complete", "Verified"}
      BY <1>2, <2>5
    <3> QED  BY <2>5, <3>1, Zenon DEF Payload
  <2> QED  BY <2>4, <2>5, <2>6, <2>7, Zenon
<1>3. CASE type \in {"Accept", "Reject"}
  <2>1. frame = [type |-> type, id |-> payload] /\ Len(payload) = IdLen
    BY <1>3 DEF Content, PayloadDecodes
  <2>2. frame \in Answers /\ frame \notin Offers /\ frame \notin Hashes
    BY <1>3, <2>1 DEF Answers, Offers, Hashes
  <2>3. frame.type = type /\ frame.id = payload
    BY <2>1
  <2> HIDE DEF frame
  <2> QED  BY <1>3, <2>1, <2>2, <2>3 DEF Buildable, Payload
<1> QED  BY <1>1, <1>2, <1>3 DEF Awaited

\* encode, encode_payload, complete_frame and verified_frame, then what reads them.
LEMMA PayloadWritten ==
  ASSUME NEW frame, Buildable(frame)
  PROVE  /\ frame.type \in Awaited
         /\ Payload(frame) \in Bytes /\ Len(Payload(frame)) <= MaxFrame
         /\ PayloadDecodes(frame.type, Payload(frame))
         /\ Content(frame.type, Payload(frame)) = frame
<1>1. CASE frame \in Offers
  <2>1. frame.type = "TransferOffer" /\ Fields(frame)
    BY <1>1, BuildableFields DEF Offers
  <2>2. Payload(frame) = OfferPayload(frame)
    BY <2>1 DEF Payload
  <2>3. /\ OfferPayload(frame) \in Bytes /\ Len(OfferPayload(frame)) <= MaxFrame
        /\ OfferDecodes(OfferPayload(frame)) /\ OfferIn(OfferPayload(frame)) = frame
    BY <1>1, <2>1, OfferWritten
  <2> QED  BY <2>1, <2>2, <2>3 DEF PayloadDecodes, Content, Awaited
<1>2. CASE frame \in Hashes
  <2> DEFINE id == frame.id
             hash == frame.hash
             payload == id \o hash
  <2>1. /\ frame.type \in {"Complete", "Verified"} /\ id \in Bytes /\ hash \in Bytes
        /\ frame = [type |-> frame.type, id |-> id, hash |-> hash]
        /\ Len(id) = IdLen /\ Len(hash) = HashLen
    BY <1>2 DEF Hashes, Buildable
  <2>2. frame.type # "TransferOffer"
    BY <2>1
  <2>3. Payload(frame) = payload
    BY <2>1, <2>2, Zenon DEF Payload
  <2>4. payload \in Bytes /\ Len(payload) = IdLen + HashLen
    BY <2>1, BytesJoin, Zenon
  <2>5. Slice(payload, IdLen, HashLen) = hash
    BY <2>1, SliceRight, Zenon
  <2>6. Slice(payload, 0, IdLen) = id
    <3>1. 0 \in Nat /\ IdLen \in Nat /\ 0 + IdLen <= Len(id)
      BY <2>1, Limits
    <3>2. Slice(payload, 0, IdLen) = Slice(id, 0, IdLen)
      BY <2>1, <3>1, SliceOfJoin, Zenon
    <3> QED  BY <2>1, <3>2, SliceAll
  <2> HIDE DEF id, hash, payload
  <2>7. Len(payload) <= MaxFrame
    BY <2>4, Limits
  <2>8. PayloadDecodes(frame.type, payload)
    BY <2>1, <2>2, <2>4 DEF PayloadDecodes
  <2>9. Content(frame.type, payload) = frame
    BY <2>1, <2>2, <2>5, <2>6 DEF Content
  <2> QED  BY <2>1, <2>3, <2>4, <2>7, <2>8, <2>9 DEF Awaited
<1>3. CASE frame \in Answers
  <2>1. /\ frame.type \in {"Accept", "Reject"} /\ frame.id \in Bytes /\ Len(frame.id) = IdLen
        /\ frame = [type |-> frame.type, id |-> frame.id]
    BY <1>3 DEF Answers, Buildable
  <2>2. Payload(frame) = frame.id
    BY <2>1 DEF Payload
  <2>3. frame.type # "TransferOffer" /\ frame.type \notin {"Complete", "Verified"}
    BY <2>1
  <2>4. PayloadDecodes(frame.type, frame.id)
    BY <2>1, <2>3 DEF PayloadDecodes
  <2>5. Content(frame.type, frame.id) = frame
    BY <2>1, <2>3, Zenon DEF Content
  <2>6. Len(frame.id) <= MaxFrame
    BY <2>1, Limits
  <2> QED  BY <2>1, <2>2, <2>4, <2>5, <2>6 DEF Awaited
<1> QED  BY <1>1, <1>2, <1>3 DEF Buildable

LEMMA HeaderJoin ==
  ASSUME NEW h \in Bytes, Len(h) = 5
  PROVE  /\ Slice(h, 1, 4) \in Bytes /\ Len(Slice(h, 1, 4)) = 4
         /\ <<h[1]>> \o Slice(h, 1, 4) = h
<1>1. 1 \in Nat /\ 4 \in Nat /\ 0 \in Nat /\ 0 + 1 <= Len(h) /\ 1 + 4 <= Len(h) /\ 1 + 4 = Len(h)
  OBVIOUS
<1>2. Slice(h, 1, 4) \in Bytes /\ Len(Slice(h, 1, 4)) = 4
  BY <1>1, SliceType, Zenon
<1>3. Slice(h, 0, 1) = <<h[1]>>
  <2>1. h \in Seq(Byte) /\ 0 + 1 = 1
    BY DEF Bytes
  <2>2. SubSeq(h, 1, 1) = <<h[1]>>
    <3> DEFINE first == SubSeq(h, 1, 1)
    <3>1. first \in Seq(Byte) /\ Len(first) = 1 /\ first[1] = h[1]
      BY <2>1
    <3> HIDE DEF first
    <3>2. first = <<h[1]>>
      BY <3>1
    <3> QED  BY <3>2 DEF first
  <2> QED  BY <2>1, <2>2 DEF Slice
<1>4. Slice(h, 0, 1) \o Slice(h, 1, 4) = Slice(h, 0, 1 + 4)
  BY <1>1, SliceJoin, Zenon
<1> QED  BY <1>1, <1>2, <1>3, <1>4, SliceAll, Zenon

\* The bytes of a frame that was read are those of its header and payload.
LEMMA FrameRead ==
  ASSUME NEW h \in Bytes, Len(h) = HeaderLen, NEW payload \in Bytes,
         FrameDecodes(h \o payload), FrameTypes[h[1]] \in Awaited,
         PayloadDecodes(FrameTypes[h[1]], payload)
  PROVE  LET frame == Content(FrameTypes[h[1]], payload) IN
         Buildable(frame) /\ frame.type = FrameTypes[h[1]] /\ Encode(frame) = h \o payload
<1> DEFINE type == FrameTypes[h[1]]
           frame == Content(type, payload)
           count == Slice(h, 1, 4)
           all == h \o payload
<1>1. Buildable(frame) /\ frame.type = type /\ Payload(frame) = payload
  BY PayloadRead
<1>2. Len(h) = 5 /\ count \in Bytes /\ Len(count) = 4 /\ <<h[1]>> \o count = h
  BY HeaderJoin, Limits
<1>3. all[1] = h[1]
  BY <1>2 DEF Bytes
<1>4. Slice(all, 1, 4) = count
  <2>1. 1 \in Nat /\ 4 \in Nat /\ 1 + 4 <= Len(h)
    BY <1>2
  <2> QED  BY <2>1, SliceOfJoin, Zenon
<1>5. Len(all) = Len(h) + Len(payload) /\ Len(payload) \in Nat
  BY BytesJoin, BytesLen, Zenon
<1> HIDE DEF count, all
<1>6. FrameDecodes(all)
  BY Zenon DEF all
<1>7. Len(all) = HeaderLen + PayloadLen(all)
  BY <1>6, Zenon DEF FrameDecodes
<1>8. PayloadLen(all) = Number32(count) /\ Number32(count) \in Nat /\ BigEndian32(Number32(count)) = count
  BY <1>2, <1>4, Number32OfBytes DEF PayloadLen
<1> DEFINE n == Number32(count)
<1> HIDE DEF n
<1>9. Len(payload) = n
  <2>1. PayloadLen(all) = n /\ n \in Nat
    BY <1>8 DEF n
  <2> QED  BY <1>2, <1>5, <1>7, <2>1, Limits
<1>10. BigEndian32(Len(payload)) = count
  BY <1>8, <1>9, Zenon DEF n
<1>11. TypeCode(type) = h[1]
  <2>1. h[1] \in 1 .. 9
    BY <1>3, <1>6, TypeCodes DEF FrameDecodes
  <2> QED  BY <2>1, TypeCodes
<1> HIDE DEF frame, type
<1>12. Encode(frame) = <<h[1]>> \o count \o payload
  BY <1>1, <1>10, <1>11, Zenon DEF Encode
<1> QED  BY <1>1, <1>2, <1>12, Zenon DEF frame, type

\* A frame that the library builds: its bytes are a header that announces the
\* payload, and both decode to it.
LEMMA FrameWritten ==
  ASSUME NEW frame, Buildable(frame)
  PROVE  \E h \in Bytes :
           /\ Len(h) = HeaderLen
           /\ Encode(frame) = h \o Payload(frame)
           /\ FrameTypes[h[1]] = frame.type
           /\ PayloadLen(h) = Len(Payload(frame)) /\ ~TooLarge(PayloadLen(h))
           /\ FrameDecodes(h \o Payload(frame))
<1> DEFINE payload == Payload(frame)
           code == TypeCode(frame.type)
           count == BigEndian32(Len(payload))
           h == <<code>> \o count
<1>1. /\ frame.type \in Awaited /\ payload \in Bytes /\ Len(payload) \in Nat /\ Len(payload) <= MaxFrame
  BY PayloadWritten, BytesLen
<1>2. Len(payload) \div Word < Word
  <2> DEFINE len == Len(payload)
  <2>1. len \in Nat /\ len <= MaxFrame /\ MaxFrame \in Nat /\ MaxFrame \div Word < Word
    BY <1>1, LimitsAssumption
  <2> HIDE DEF len
  <2>2. len \div 65536 <= MaxFrame \div 65536 /\ len \div 65536 \in Int /\ MaxFrame \div 65536 \in Int
    BY <2>1, SMT
  <2>3. len \div Word <= MaxFrame \div Word /\ len \div Word \in Int /\ MaxFrame \div Word \in Int /\ Word \in Int
    BY <2>2, SMT DEF Word
  <2>4. len \div Word < Word
    BY <2>1, <2>3
  <2> QED  BY <2>4 DEF len
<1>3. count \in Bytes /\ Len(count) = 4 /\ Number32(count) = Len(payload)
  BY <1>1, <1>2, BytesOfNumber32
<1>4. code \in 1 .. 9 /\ FrameTypes[code] = frame.type
  BY <1>1, TypeCodes
<1> HIDE DEF payload, code, count
<1>5. <<code>> \in Bytes /\ Len(<<code>>) = 1
  BY <1>4 DEF Bytes, Byte
<1>6. h \in Bytes /\ Len(h) = 5 /\ h[1] = code
  <2>1. <<code>> \in Seq(Byte) /\ count \in Seq(Byte)
    BY <1>3, <1>5 DEF Bytes
  <2>2. h \in Seq(Byte) /\ Len(h) = Len(<<code>>) + Len(count)
        /\ \A i \in 1 .. Len(<<code>>) + Len(count) :
             h[i] = IF i <= Len(<<code>>) THEN <<code>>[i] ELSE count[i - Len(<<code>>)]
    BY <2>1, ConcatProperties, Zenon
  <2> HIDE DEF h
  <2> QED  BY <1>3, <1>5, <2>2 DEF Bytes
<1>7. Slice(h, 1, 4) = count
  BY <1>3, <1>5, SliceRight, Zenon
<1>8. Encode(frame) = h \o payload
  BY Zenon DEF Encode, payload, code, count
<1> HIDE DEF h
<1> DEFINE all == h \o payload
<1>9. Slice(all, 1, 4) = count
  <2>1. 1 \in Nat /\ 4 \in Nat /\ 1 + 4 <= Len(h)
    BY <1>6
  <2> QED  BY <1>1, <1>6, <1>7, <2>1, SliceOfJoin, Zenon
<1>10. Len(all) = Len(h) + Len(payload)
  BY <1>1, <1>6, BytesJoin, Zenon
<1>11. all[1] = h[1]
  BY <1>1, <1>6 DEF Bytes
<1> HIDE DEF all
<1>12. PayloadLen(h) = Len(payload) /\ PayloadLen(all) = Len(payload)
  BY <1>3, <1>7, <1>9 DEF PayloadLen
<1>13. ~TooLarge(Len(payload))
  BY <1>1, Limits DEF TooLarge
<1>14. FrameDecodes(all)
  BY <1>1, <1>4, <1>6, <1>10, <1>11, <1>12, <1>13, TypeCodes, Limits DEF FrameDecodes
<1>15. Len(h) = HeaderLen /\ FrameTypes[h[1]] = frame.type
  BY <1>4, <1>6, Limits
<1>16. /\ h \in Bytes /\ Len(h) = HeaderLen /\ Encode(frame) = h \o payload
       /\ FrameTypes[h[1]] = frame.type /\ PayloadLen(h) = Len(payload) /\ ~TooLarge(PayloadLen(h))
       /\ FrameDecodes(h \o payload)
  BY <1>6, <1>8, <1>12, <1>13, <1>14, <1>15, Zenon DEF all
<1> QED  BY <1>16, Zenon DEF payload

---------------------------------------------------------------------------
(***************************************************************************)
(* Streams.                                                                *)
(***************************************************************************)
Buildables == {frame \in Offers \union Hashes \union Answers : Buildable(frame)}

LEMMA EncodeType == \A frame \in Buildables : Encode(frame) \in Bytes
<1> SUFFICES ASSUME NEW frame \in Buildables PROVE Encode(frame) \in Bytes
  OBVIOUS
<1>1. Buildable(frame)
  BY DEF Buildables
<1>2. PICK h \in Bytes : Encode(frame) = h \o Payload(frame)
  BY <1>1, FrameWritten, Zenon
<1>3. Payload(frame) \in Bytes
  BY <1>1, PayloadWritten
<1> QED  BY <1>2, <1>3, BytesJoin, Zenon

Encoded(frames) == [i \in 1 .. Len(frames) |-> Encode(frames[i])]

LEMMA EncodedType == \A frames \in Seq(Buildables) :
                       Encoded(frames) \in Seq(Seq(Byte)) /\ Len(Encoded(frames)) = Len(frames)
<1> SUFFICES ASSUME NEW frames \in Seq(Buildables)
             PROVE  Encoded(frames) \in Seq(Seq(Byte)) /\ Len(Encoded(frames)) = Len(frames)
  OBVIOUS
<1>1. Len(frames) \in Nat /\ \A i \in 1 .. Len(frames) : Encode(frames[i]) \in Seq(Byte)
  BY EncodeType DEF Bytes
<1> QED  BY <1>1 DEF Encoded

LEMMA EncodeAllType == \A frames \in Seq(Buildables) : EncodeAll(frames) \in Bytes
<1> SUFFICES ASSUME NEW frames \in Seq(Buildables) PROVE EncodeAll(frames) \in Bytes
  OBVIOUS
<1>1. EncodeAll(frames) = FlattenSeq(Encoded(frames))
  BY Zenon DEF EncodeAll, Encoded
<1>2. FlattenSeq(Encoded(frames)) \in Seq(Byte)
  BY EncodedType, FlattenType, Zenon
<1> QED  BY <1>1, <1>2, Zenon DEF Bytes

LEMMA EncodeNone == EncodeAll(<<>>) = <<>>
<1> DEFINE none == [i \in 1 .. Len(<<>>) |-> Encode(<<>>[i])]
<1>1. none = <<>>
  OBVIOUS
<1> QED  BY <1>1, FlattenEmpty, Zenon DEF EncodeAll

LEMMA EncodeAppend == \A frames \in Seq(Buildables) : \A frame \in Buildables :
                        EncodeAll(Append(frames, frame)) = EncodeAll(frames) \o Encode(frame)
<1> SUFFICES ASSUME NEW frames \in Seq(Buildables), NEW frame \in Buildables
             PROVE  EncodeAll(Append(frames, frame)) = EncodeAll(frames) \o Encode(frame)
  OBVIOUS
<1> DEFINE more == Append(frames, frame)
           n == Len(frames)
<1>1. /\ n \in Nat /\ more \in Seq(Buildables) /\ Len(more) = n + 1
      /\ more[n + 1] = frame /\ \A i \in 1 .. n : more[i] = frames[i]
  OBVIOUS
<1> HIDE DEF more
<1>2. Encoded(frames) \in Seq(Seq(Byte)) /\ Len(Encoded(frames)) = n /\ Encode(frame) \in Seq(Byte)
  BY EncodedType, EncodeType DEF Bytes
<1>3. Encoded(more) = Append(Encoded(frames), Encode(frame))
  <2>1. /\ Encoded(more) \in Seq(Seq(Byte)) /\ Len(Encoded(more)) = n + 1
        /\ \A i \in 1 .. n + 1 : Encoded(more)[i] = Encode(more[i])
    BY <1>1, EncodedType DEF Encoded
  <2>2. \A i \in 1 .. n : Encoded(frames)[i] = Encode(frames[i])
    BY <1>1 DEF Encoded
  <2>3. /\ Append(Encoded(frames), Encode(frame)) \in Seq(Seq(Byte))
        /\ Len(Append(Encoded(frames), Encode(frame))) = n + 1
        /\ \A i \in 1 .. n + 1 : Append(Encoded(frames), Encode(frame))[i] = Encode(more[i])
    BY <1>1, <1>2, <2>2
  <2> QED  BY <1>1, <2>1, <2>3
<1>4. FlattenSeq(Append(Encoded(frames), Encode(frame))) = FlattenSeq(Encoded(frames)) \o Encode(frame)
  BY <1>2, FlattenAppend, Zenon
<1>5. EncodeAll(more) = FlattenSeq(Encoded(more)) /\ EncodeAll(frames) = FlattenSeq(Encoded(frames))
  BY Zenon DEF EncodeAll, Encoded
<1> QED  BY <1>3, <1>4, <1>5, Zenon DEF more

\* The frames of a stream that was written: the first k, the next, the rest.
LEMMA EncodeBegins ==
  ASSUME NEW frames \in Seq(Buildables), NEW k \in 0 .. Len(frames) - 1
  PROVE  LET first == SubSeq(frames, 1, k)
             more  == SubSeq(frames, 1, k + 1)
         IN /\ EncodeAll(more) = EncodeAll(first) \o Encode(frames[k + 1])
            /\ \E rest \in Bytes : EncodeAll(frames) = EncodeAll(more) \o rest
<1> DEFINE first == SubSeq(frames, 1, k)
           more  == SubSeq(frames, 1, k + 1)
           n == Len(frames)
           codes == Encoded(frames)
<1>1. /\ n \in Nat /\ k \in Nat /\ k + 1 \in 1 .. n /\ frames[k + 1] \in Buildables
      /\ first \in Seq(Buildables) /\ more = Append(first, frames[k + 1])
  <2>1. first \in Seq(Buildables) /\ Len(first) = k /\ \A i \in 1 .. k : first[i] = frames[i]
    OBVIOUS
  <2>2. more \in Seq(Buildables) /\ Len(more) = k + 1 /\ \A i \in 1 .. k + 1 : more[i] = frames[i]
    OBVIOUS
  <2> HIDE DEF first, more
  <2>3. more = Append(first, frames[k + 1])
    BY <2>1, <2>2
  <2> QED  BY <2>1, <2>3
<1>2. EncodeAll(more) = EncodeAll(first) \o Encode(frames[k + 1])
  BY <1>1, EncodeAppend, Zenon
<1>3. codes \in Seq(Seq(Byte)) /\ Len(codes) = n
  BY EncodedType
<1>4. n - k - 1 \in 0 .. n /\ n - (n - k - 1) = k + 1
  BY <1>1
<1>5. Encoded(more) = SubSeq(codes, 1, k + 1)
  <2>1. more \in Seq(Buildables) /\ Len(more) = k + 1 /\ \A i \in 1 .. k + 1 : more[i] = frames[i]
    OBVIOUS
  <2> HIDE DEF more
  <2>2. /\ Encoded(more) \in Seq(Seq(Byte)) /\ Len(Encoded(more)) = k + 1
        /\ \A i \in 1 .. k + 1 : Encoded(more)[i] = Encode(frames[i])
    BY <2>1, EncodedType DEF Encoded
  <2>3. \A i \in 1 .. n : codes[i] = Encode(frames[i])
    BY <1>1 DEF Encoded
  <2> HIDE DEF codes
  <2>4. /\ SubSeq(codes, 1, k + 1) \in Seq(Seq(Byte)) /\ Len(SubSeq(codes, 1, k + 1)) = k + 1
        /\ \A i \in 1 .. k + 1 : SubSeq(codes, 1, k + 1)[i] = Encode(frames[i])
    BY <1>1, <1>3, <2>3
  <2> DEFINE part == SubSeq(codes, 1, k + 1)
  <2> HIDE DEF part
  <2>5. part \in Seq(Seq(Byte)) /\ Len(part) = k + 1 /\ \A i \in 1 .. k + 1 : part[i] = Encode(frames[i])
    BY <2>4 DEF part
  <2>6. Encoded(more) = part
    BY <1>1, <2>2, <2>5
  <2> QED  BY <2>6 DEF part
<1> HIDE DEF codes, more, first, n
<1>6. \E rest \in Seq(Byte) :
        FlattenSeq(codes) = FlattenSeq(SubSeq(codes, 1, Len(codes) - (n - k - 1))) \o rest
  BY <1>3, <1>4, FlattenBegins, ZenonT(60)
<1>7. Len(codes) - (n - k - 1) = k + 1
  BY <1>3, <1>4, Zenon
<1>8. EncodeAll(more) = FlattenSeq(Encoded(more)) /\ EncodeAll(frames) = FlattenSeq(codes)
  BY Zenon DEF EncodeAll, Encoded, codes
<1>9. \E rest \in Bytes : EncodeAll(frames) = EncodeAll(more) \o rest
  BY <1>5, <1>6, <1>7, <1>8, Zenon DEF Bytes
<1> QED  BY <1>2, <1>9, Zenon DEF first, more

\* A sequence is what comes before a place and what comes behind it.
LEMMA CutBytes ==
  ASSUME NEW b \in Bytes, NEW n \in 0 .. Len(b)
  PROVE  /\ SubSeq(b, 1, n) \in Bytes /\ Len(SubSeq(b, 1, n)) = n
         /\ SubSeq(b, n + 1, Len(b)) \in Bytes /\ Len(SubSeq(b, n + 1, Len(b))) = Len(b) - n
         /\ SubSeq(b, 1, n) \o SubSeq(b, n + 1, Len(b)) = b
<1>1. n \in Nat /\ Len(b) \in Nat /\ n <= Len(b) /\ Len(b) - n \in Nat /\ n + (Len(b) - n) = Len(b)
      /\ 0 + n = n /\ 0 + 1 = 1 /\ n + (Len(b) - n) <= Len(b)
  BY BytesLen
<1>2. Slice(b, 0, n) = SubSeq(b, 1, n) /\ Slice(b, n, Len(b) - n) = SubSeq(b, n + 1, Len(b))
  BY <1>1 DEF Slice
<1>3. Slice(b, 0, n) \in Bytes /\ Len(Slice(b, 0, n)) = n
  BY <1>1, SliceType
<1>4. Slice(b, n, Len(b) - n) \in Bytes /\ Len(Slice(b, n, Len(b) - n)) = Len(b) - n
  BY <1>1, SliceType
<1>5. Slice(b, 0, n) \o Slice(b, n, Len(b) - n) = Slice(b, 0, Len(b))
  BY <1>1, SliceJoin
<1> QED  BY <1>2, <1>3, <1>4, <1>5, SliceAll, Zenon

\* Named, for the provers instantiate a predicate more easily than an equality.
Regroup3(u, v, w) == (u \o v) \o w = u \o (v \o w)

LEMMA BytesAssociative == \A u, v, w \in Bytes : Regroup3(u, v, w)
<1>1. \A u, v, w \in Seq(Byte) : (u \o v) \o w = u \o (v \o w)
  BY Associative, SMTT(30)
<1> QED  BY <1>1, Zenon DEF Bytes, Regroup3

LEMMA BytesSplit == \A a, b, c, d \in Bytes :
                      Len(a) = Len(c) /\ a \o b = c \o d => a = c /\ b = d
  BY SplitEqual, Zenon DEF Bytes

LEMMA NoBytes == <<>> \in Bytes /\ Len(<<>>) = 0 /\ \A b \in Bytes : b \o <<>> = b /\ <<>> \o b = b
  BY DEF Bytes

---------------------------------------------------------------------------
(***************************************************************************)
(* The invariant of a reader. Where a program of the library wrote the     *)
(* stream, the reader takes its frames in order; the next one lies between *)
(* what was taken and the end of what arrives.                             *)
(***************************************************************************)
Follows ==
  /\ Len(taken) <= Len(stream.written)
  /\ taken = SubSeq(stream.written, 1, Len(taken))
  /\ reading = "reading" => Len(taken) < Len(stream.written)
  /\ reading = "failed" =>
       /\ Len(taken) < Len(stream.written)
       /\ arrived < Len(EncodeAll(SubSeq(stream.written, 1, Len(taken) + 1)))

CodecInv ==
  /\ ProperStream(stream)
  /\ arrived \in 0 .. Len(stream.bytes)
  /\ wire \in Bytes /\ header \in Bytes
  /\ header = <<>> \/ (Len(header) = HeaderLen /\ ~TooLarge(PayloadLen(header)))
  /\ taken \in Seq(Buildables)
  /\ reading \in {"reading", "finished", "failed"}
  /\ Len(taken) <= Len(stream.awaits)
  /\ reading = "reading" => Len(taken) < Len(stream.awaits)
  /\ NothingMisread
  /\ stream.written # <<>> => Follows

HeaderOf(h, frame) ==
  /\ Len(h) = HeaderLen
  /\ Encode(frame) = h \o Payload(frame)
  /\ FrameTypes[h[1]] = frame.type
  /\ PayloadLen(h) = Len(Payload(frame)) /\ ~TooLarge(PayloadLen(h))
  /\ FrameDecodes(h \o Payload(frame))

Regroup4(a, b, c, d) == /\ ((a \o b) \o c) \o d = a \o (b \o (c \o d))
                        /\ (a \o (b \o c)) \o d = a \o (b \o (c \o d))

LEMMA FourParts == \A a, b, c, d \in Bytes : Regroup4(a, b, c, d)
<1> SUFFICES ASSUME NEW a \in Bytes, NEW b \in Bytes, NEW c \in Bytes, NEW d \in Bytes
             PROVE  Regroup4(a, b, c, d)
  BY Zenon
<1>1. a \o b \in Bytes /\ c \o d \in Bytes /\ b \o c \in Bytes
  BY BytesJoin, Zenon
<1>2. Regroup3(a \o b, c, d) /\ Regroup3(a, b, c \o d) /\ Regroup3(b, c, d) /\ Regroup3(a, b \o c, d)
  BY <1>1, BytesAssociative, Zenon
<1> QED  BY <1>2, Zenon DEF Regroup3, Regroup4

\* The next frame of a stream that was written, where the reader stands.
LEMMA NextFrame ==
  ASSUME CodecInv, reading = "reading", stream.written # <<>>
  PROVE  LET frame == stream.written[Len(taken) + 1]
             missing == SubSeq(stream.bytes, arrived + 1, Len(stream.bytes))
         IN /\ frame \in Buildables /\ frame.type \in stream.awaits[Len(taken) + 1]
            /\ missing \in Bytes
            /\ \E h, rest \in Bytes :
                 HeaderOf(h, frame) /\ header \o (wire \o missing) = h \o (Payload(frame) \o rest)
            /\ Len(EncodeAll(SubSeq(stream.written, 1, Len(taken) + 1)))
                 = Len(EncodeAll(taken)) + HeaderLen + Len(Payload(frame))
            /\ arrived = Len(EncodeAll(taken)) + Len(header) + Len(wire)
<1> DEFINE bytes == stream.bytes
           written == stream.written
           k == Len(taken)
           frame == written[k + 1]
           missing == SubSeq(bytes, arrived + 1, Len(bytes))
           more == SubSeq(written, 1, k + 1)
           payload == Payload(frame)
           sofar == EncodeAll(taken)
           all == EncodeAll(written)
<1>1. /\ bytes \in Bytes /\ Len(bytes) \in Nat
      /\ written \in Seq(Offers \union Hashes \union Answers)
      /\ Len(all) <= Len(bytes) /\ SubSeq(all, 1, Len(all)) = SubSeq(bytes, 1, Len(all))
      /\ \A i \in DOMAIN written : Buildable(written[i]) /\ written[i].type \in stream.awaits[i]
  BY BytesLen DEF CodecInv, ProperStream, IsPrefix
<1>2. /\ taken \in Seq(Buildables) /\ k \in Nat /\ k < Len(written) /\ taken = SubSeq(written, 1, k)
      /\ arrived \in 0 .. Len(bytes) /\ wire \in Bytes /\ header \in Bytes
      /\ sofar \o header \o wire = SubSeq(bytes, 1, arrived)
  BY Zenon, SMT DEF CodecInv, Follows, NothingMisread
<1>3. written \in Seq(Buildables)
  BY <1>1 DEF Buildables
<1> HIDE DEF bytes, written
<1>4. k + 1 \in DOMAIN written /\ k \in 0 .. Len(written) - 1
  BY <1>2, <1>3
<1>5. frame \in Buildables /\ Buildable(frame) /\ frame.type \in stream.awaits[k + 1]
  BY <1>1, <1>3, <1>4
<1>6. PICK h \in Bytes : HeaderOf(h, frame)
  BY <1>5, FrameWritten, Zenon DEF HeaderOf
<1> HIDE DEF frame
<1>7. Len(h) = HeaderLen /\ Encode(frame) = h \o payload /\ payload \in Bytes
  BY <1>5, <1>6, PayloadWritten DEF HeaderOf
<1> HIDE DEF payload
<1>8. EncodeAll(more) = sofar \o Encode(frame) /\ \E rest \in Bytes : all = EncodeAll(more) \o rest
  BY <1>2, <1>3, <1>4, EncodeBegins, Zenon DEF frame
<1>9. PICK r1 \in Bytes : all = EncodeAll(more) \o r1
  BY <1>8, Zenon
<1>10. sofar \in Bytes /\ all \in Bytes /\ Encode(frame) \in Bytes
  BY <1>2, <1>3, <1>5, EncodeAllType, EncodeType, Zenon
<1> HIDE DEF k, sofar, all, more
<1>11. PICK r0 \in Bytes : bytes = all \o r0
  <2>1. Len(all) \in Nat /\ Len(all) \in 0 .. Len(bytes) /\ Len(all) \in 0 .. Len(all)
    BY <1>1, <1>10, BytesLen
  <2>2. /\ SubSeq(bytes, Len(all) + 1, Len(bytes)) \in Bytes
        /\ SubSeq(bytes, 1, Len(all)) \o SubSeq(bytes, Len(all) + 1, Len(bytes)) = bytes
    BY <1>1, <2>1, CutBytes, Zenon
  <2>3. SubSeq(all, 1, Len(all)) = all
    BY <1>10 DEF Bytes
  <2> QED  BY <1>1, <2>2, <2>3, Zenon
<1>12. missing \in Bytes /\ SubSeq(bytes, 1, arrived) \o missing = bytes
  BY <1>1, <1>2, CutBytes, Zenon
<1>13. /\ SubSeq(bytes, 1, arrived) \in Bytes /\ Len(SubSeq(bytes, 1, arrived)) = arrived
  BY <1>1, <1>2, CutBytes, Zenon
<1> HIDE DEF missing
<1>14. bytes = sofar \o (header \o (wire \o missing))
  <2>1. ((sofar \o header) \o wire) \o missing = sofar \o (header \o (wire \o missing))
    <3>1. Regroup4(sofar, header, wire, missing)
      BY <1>2, <1>10, <1>12, FourParts, Zenon
    <3> QED  BY <3>1, Zenon DEF Regroup4
  <2> QED  BY <1>2, <1>12, <2>1, Zenon
<1> DEFINE rest == r1 \o r0
<1>15. rest \in Bytes
  BY BytesJoin, Zenon
<1>16. bytes = sofar \o (h \o (payload \o rest))
  <2>1. EncodeAll(more) = sofar \o (h \o payload)
    BY <1>7, <1>8, Zenon
  <2>2. EncodeAll(more) \in Bytes /\ h \o payload \in Bytes
    BY <1>7, <1>10, <2>1, BytesJoin, Zenon
  <2>3. bytes = (EncodeAll(more) \o r1) \o r0
    BY <1>9, <1>11, Zenon
  <2>4. (EncodeAll(more) \o r1) \o r0 = EncodeAll(more) \o rest
    <3>1. Regroup3(EncodeAll(more), r1, r0)
      BY <2>2, BytesAssociative, Zenon
    <3> QED  BY <3>1, Zenon DEF Regroup3
  <2> HIDE DEF rest
  <2>5. (sofar \o (h \o payload)) \o rest = sofar \o (h \o (payload \o rest))
    <3>1. Regroup4(sofar, h, payload, rest)
      BY <1>7, <1>10, <1>15, FourParts, Zenon
    <3> QED  BY <3>1, Zenon DEF Regroup4
  <2> QED  BY <2>1, <2>3, <2>4, <2>5, Zenon
<1> HIDE DEF rest
<1>17. header \o (wire \o missing) = h \o (payload \o rest)
  <2> DEFINE u == header \o (wire \o missing)
             v == h \o (payload \o rest)
  <2>1. u \in Bytes /\ v \in Bytes
    BY <1>2, <1>7, <1>12, <1>15, BytesJoin, Zenon
  <2>2. sofar \o u = sofar \o v
    BY <1>14, <1>16, Zenon
  <2> HIDE DEF u, v
  <2>3. u = v
    BY <1>10, <2>1, <2>2, BytesSplit, Zenon
  <2> QED  BY <2>3, Zenon DEF u, v
<1>18. Len(EncodeAll(more)) = Len(sofar) + HeaderLen + Len(payload)
  <2>1. Len(sofar \o Encode(frame)) = Len(sofar) + Len(Encode(frame)) /\ Len(h \o payload) = Len(h) + Len(payload)
    BY <1>7, <1>10, BytesJoin, Zenon
  <2>2. Len(EncodeAll(more)) = Len(sofar) + (HeaderLen + Len(payload))
    BY <1>7, <1>8, <2>1, Zenon
  <2>3. Len(sofar) \in Nat /\ Len(payload) \in Nat /\ HeaderLen \in Nat
    BY <1>7, <1>10, BytesLen, Limits
  <2> QED  BY <2>2, <2>3
<1>19. arrived = Len(sofar) + Len(header) + Len(wire)
  <2>1. sofar \o header \in Bytes /\ Len(sofar \o header) = Len(sofar) + Len(header)
    BY <1>2, <1>10, BytesJoin, Zenon
  <2>2. Len((sofar \o header) \o wire) = Len(sofar \o header) + Len(wire)
    BY <1>2, <2>1, BytesJoin, Zenon
  <2> QED  BY <1>2, <1>13, <2>1, <2>2, Zenon
<1>20. \E h0, rest0 \in Bytes :
         HeaderOf(h0, frame) /\ header \o (wire \o missing) = h0 \o (payload \o rest0)
  BY <1>6, <1>15, <1>17, Zenon
<1> QED
  BY <1>5, <1>12, <1>18, <1>19, <1>20, Zenon
     DEF k, frame, missing, more, payload, sofar, bytes, written

---------------------------------------------------------------------------
LEMMA CodecInvInit == CodecInit => CodecInv
<1> SUFFICES ASSUME CodecInit PROVE CodecInv
  OBVIOUS
<1>1. /\ stream \in Streams /\ arrived \in 0 .. Len(stream.bytes)
      /\ wire = SubSeq(stream.bytes, 1, arrived)
      /\ header = <<>> /\ taken = <<>> /\ reading = "reading"
  BY DEF CodecInit
<1>2. ProperStream(stream)
  BY <1>1, StreamsAssumption
<1>3. /\ stream.bytes \in Bytes
      /\ stream.awaits \in Seq(SUBSET {"TransferOffer", "Accept", "Reject", "Complete", "Verified"})
      /\ stream.awaits # <<>>
      /\ stream.written # <<>> => stream.written \in Seq(Offers \union Hashes \union Answers)
  BY <1>2 DEF ProperStream
<1>4. wire \in Bytes
  BY <1>1, <1>3, CutBytes
<1>5. NothingMisread
  <2>1. EncodeAll(taken) = <<>> /\ header = <<>>
    BY <1>1, EncodeNone
  <2>2. EncodeAll(taken) \o header \o wire = wire
    BY <1>4, <2>1, NoBytes, Zenon
  <2> QED  BY <1>1, <2>2, Zenon DEF NothingMisread
<1>6. taken \in Seq(Buildables) /\ Len(taken) = 0 /\ Len(stream.awaits) > 0
  BY <1>1, <1>3
<1>7. ASSUME stream.written # <<>> PROVE Follows
  <2> DEFINE written == stream.written
  <2>1. written \in Seq(Offers \union Hashes \union Answers) /\ written # <<>>
    BY <1>3, <1>7
  <2>2. Len(written) > 0 /\ SubSeq(written, 1, 0) = <<>>
    BY <2>1
  <2> QED  BY <1>1, <1>6, <2>2 DEF Follows
<1>8. header \in Bytes /\ reading \in {"reading", "finished", "failed"}
  BY <1>1, NoBytes
<1> QED  BY <1>1, <1>2, <1>4, <1>5, <1>6, <1>7, <1>8 DEF CodecInv

\* The header of a frame that was written is never too large.
LEMMA ReadsHeaderKeeps == CodecInv /\ ReadsHeader => CodecInv'
<1> SUFFICES ASSUME CodecInv, ReadsHeader PROVE CodecInv'
  OBVIOUS
<1> DEFINE first == SubSeq(wire, 1, HeaderLen)
           sofar == EncodeAll(taken)
<1>1. /\ reading = "reading" /\ header = <<>> /\ Len(wire) >= HeaderLen
      /\ wire' = SubSeq(wire, HeaderLen + 1, Len(wire))
      /\ stream' = stream /\ arrived' = arrived /\ taken' = taken
      /\ \/ ~TooLarge(PayloadLen(first)) /\ header' = first /\ reading' = reading
         \/ TooLarge(PayloadLen(first)) /\ reading' = "failed" /\ header' = header
  BY DEF ReadsHeader, Reads
<1>2. /\ ProperStream(stream) /\ arrived \in 0 .. Len(stream.bytes)
      /\ wire \in Bytes /\ header \in Bytes
      /\ taken \in Seq(Buildables)
      /\ Len(taken) <= Len(stream.awaits) /\ Len(taken) < Len(stream.awaits)
      /\ sofar \o header \o wire = SubSeq(stream.bytes, 1, arrived)
      /\ stream.written # <<>> => Follows
  BY <1>1 DEF CodecInv, NothingMisread
<1>3. /\ first \in Bytes /\ Len(first) = HeaderLen
      /\ wire' \in Bytes /\ first \o wire' = wire
  <2>1. HeaderLen \in 0 .. Len(wire)
    BY <1>1, <1>2, BytesLen, Limits
  <2> QED  BY <1>1, <1>2, <2>1, CutBytes, Zenon
<1>4. sofar \in Bytes
  BY <1>2, EncodeAllType
<1> HIDE DEF first, sofar
<1>5. sofar \o first \o wire' = SubSeq(stream.bytes, 1, arrived)
  <2>1. sofar \o header = sofar
    BY <1>1, <1>4, NoBytes, Zenon
  <2>2. Regroup3(sofar, first, wire')
    BY <1>3, <1>4, BytesAssociative, Zenon
  <2>3. sofar \o (first \o wire') = SubSeq(stream.bytes, 1, arrived)
    BY <1>2, <1>3, <2>1, Zenon
  <2> QED  BY <2>2, <2>3, Zenon DEF Regroup3
<1>6. CASE ~TooLarge(PayloadLen(first)) /\ header' = first /\ reading' = reading
  <2>1. NothingMisread'
    <3>1. EncodeAll(taken') \o header' \o wire' = SubSeq(stream'.bytes, 1, arrived')
      BY <1>1, <1>5, <1>6, Zenon DEF sofar
    <3> QED  BY <3>1, Zenon DEF NothingMisread
  <2>2. stream'.written # <<>> => Follows'
    BY <1>1, <1>2, <1>6 DEF Follows
  <2> QED  BY <1>1, <1>2, <1>3, <1>6, <2>1, <2>2 DEF CodecInv
<1>7. CASE TooLarge(PayloadLen(first)) /\ reading' = "failed" /\ header' = header
  <2>1. stream.written = <<>>
    <3> SUFFICES ASSUME stream.written # <<>> PROVE FALSE
      OBVIOUS
    <3> DEFINE frame == stream.written[Len(taken) + 1]
               missing == SubSeq(stream.bytes, arrived + 1, Len(stream.bytes))
               payload == Payload(frame)
    <3>1. frame \in Buildables /\ missing \in Bytes
      BY <1>1, NextFrame
    <3>2. PICK h \in Bytes, rest \in Bytes :
            HeaderOf(h, frame) /\ header \o (wire \o missing) = h \o (payload \o rest)
      BY <1>1, NextFrame, Zenon
    <3>3. payload \in Bytes
      BY <3>1, PayloadWritten DEF Buildables
    <3> HIDE DEF frame, missing, payload
    <3>4. wire \o missing \in Bytes /\ payload \o rest \in Bytes /\ wire' \o missing \in Bytes
      BY <1>2, <1>3, <3>1, <3>2, <3>3, BytesJoin, Zenon
    <3>5. wire \o missing = h \o (payload \o rest)
      BY <1>1, <3>2, <3>4, NoBytes, Zenon
    <3>6. Regroup3(first, wire', missing)
      BY <1>3, <3>1, BytesAssociative, Zenon
    <3>7. first \o (wire' \o missing) = h \o (payload \o rest)
      BY <1>3, <3>5, <3>6, Zenon DEF Regroup3
    <3>8. Len(h) = HeaderLen /\ ~TooLarge(PayloadLen(h))
      BY <3>2 DEF HeaderOf
    <3> DEFINE u == wire' \o missing
               v == payload \o rest
    <3>9. u \in Bytes /\ v \in Bytes /\ first \o u = h \o v
      BY <3>4, <3>7, Zenon
    <3> HIDE DEF u, v
    <3>10. first = h
      BY <1>3, <3>2, <3>8, <3>9, BytesSplit, ZenonT(60)
    <3> QED  BY <1>7, <3>8, <3>10, Zenon
  <2>2. NothingMisread'
    BY <1>7 DEF NothingMisread
  <2> QED  BY <1>1, <1>2, <1>3, <1>7, <2>1, <2>2 DEF CodecInv
<1> QED  BY <1>1, <1>6, <1>7

\* The header that was read is the one of the frame that was written.
LEMMA HeaderMatches ==
  ASSUME CodecInv, reading = "reading", stream.written # <<>>, header # <<>>
  PROVE  LET frame == stream.written[Len(taken) + 1]
             missing == SubSeq(stream.bytes, arrived + 1, Len(stream.bytes))
         IN /\ HeaderOf(header, frame)
            /\ missing \in Bytes
            /\ \E rest \in Bytes : wire \o missing = Payload(frame) \o rest
<1> DEFINE frame == stream.written[Len(taken) + 1]
           missing == SubSeq(stream.bytes, arrived + 1, Len(stream.bytes))
           payload == Payload(frame)
<1>1. frame \in Buildables /\ missing \in Bytes
  BY NextFrame
<1>2. PICK h \in Bytes, rest \in Bytes :
        HeaderOf(h, frame) /\ header \o (wire \o missing) = h \o (payload \o rest)
  BY NextFrame, Zenon
<1>3. payload \in Bytes
  BY <1>1, PayloadWritten DEF Buildables
<1>4. wire \in Bytes /\ header \in Bytes /\ Len(header) = HeaderLen
  BY DEF CodecInv
<1> HIDE DEF frame, missing, payload
<1> DEFINE u == wire \o missing
           v == payload \o rest
<1>5. u \in Bytes /\ v \in Bytes /\ header \o u = h \o v
  BY <1>1, <1>2, <1>3, <1>4, BytesJoin, Zenon
<1>6. Len(header) = Len(h)
  BY <1>2, <1>4 DEF HeaderOf
<1> HIDE DEF u, v
<1>7. header = h /\ u = v
  BY <1>2, <1>4, <1>5, <1>6, BytesSplit, Zenon
<1>8. HeaderOf(header, frame)
  BY <1>2, <1>7, Zenon
<1>9. \E rest0 \in Bytes : wire \o missing = payload \o rest0
  BY <1>2, <1>7, Zenon DEF u, v
<1> QED  BY <1>1, <1>8, <1>9, Zenon DEF frame, missing, payload

\* The payload that was read is the one that was written, and it decodes.
LEMMA PayloadMatches ==
  ASSUME CodecInv, reading = "reading", stream.written # <<>>, header # <<>>,
         Len(wire) >= PayloadLen(header)
  PROVE  LET frame == stream.written[Len(taken) + 1]
             payload == SubSeq(wire, 1, PayloadLen(header))
         IN /\ frame \in Buildables
            /\ FrameTypes[header[1]] = frame.type
            /\ frame.type \in stream.awaits[Len(taken) + 1]
            /\ FrameDecodes(header \o payload)
            /\ PayloadDecodes(frame.type, payload)
            /\ Content(frame.type, payload) = frame
<1> DEFINE frame == stream.written[Len(taken) + 1]
           missing == SubSeq(stream.bytes, arrived + 1, Len(stream.bytes))
           written == Payload(frame)
           n == PayloadLen(header)
           payload == SubSeq(wire, 1, n)
           left == SubSeq(wire, n + 1, Len(wire))
<1>1. frame \in Buildables /\ frame.type \in stream.awaits[Len(taken) + 1]
  BY NextFrame
<1>2. HeaderOf(header, frame) /\ missing \in Bytes
  BY HeaderMatches
<1>3. PICK rest \in Bytes : wire \o missing = written \o rest
  BY HeaderMatches, Zenon
<1>4. /\ written \in Bytes /\ PayloadDecodes(frame.type, written)
      /\ Content(frame.type, written) = frame
  BY <1>1, PayloadWritten DEF Buildables
<1>5. wire \in Bytes /\ Len(wire) >= n /\ n = Len(written)
  BY <1>2 DEF CodecInv, HeaderOf
<1>6. payload \in Bytes /\ Len(payload) = n /\ left \in Bytes /\ payload \o left = wire
  <2>1. n \in 0 .. Len(wire)
    BY <1>4, <1>5, BytesLen
  <2> QED  BY <1>5, <2>1, CutBytes, Zenon
<1> HIDE DEF frame, missing, written, n, payload, left
<1>7. Regroup3(payload, left, missing)
  BY <1>2, <1>6, BytesAssociative, Zenon
<1> DEFINE u == left \o missing
<1>8. u \in Bytes /\ payload \o u = written \o rest
  BY <1>2, <1>3, <1>6, <1>7, BytesJoin, Zenon DEF Regroup3
<1> HIDE DEF u
<1>9. payload = written
  BY <1>3, <1>4, <1>5, <1>6, <1>8, BytesSplit, Zenon
<1>10. FrameTypes[header[1]] = frame.type /\ FrameDecodes(header \o payload)
  BY <1>2, <1>9, Zenon DEF HeaderOf, written
<1> QED
  BY <1>1, <1>4, <1>9, <1>10, Zenon DEF frame, payload, n

\* A frame that was written is never refused, and never taken for another.
LEMMA ReadsPayloadKeeps == CodecInv /\ ReadsPayload => CodecInv'
<1> SUFFICES ASSUME CodecInv, ReadsPayload PROVE CodecInv'
  OBVIOUS
<1> DEFINE n == PayloadLen(header)
           payload == SubSeq(wire, 1, n)
           type == FrameTypes[header[1]]
           sofar == EncodeAll(taken)
           k == Len(taken)
           frame == Content(type, payload)
           decodes == /\ FrameDecodes(header \o payload)
                      /\ type \in stream.awaits[k + 1]
                      /\ PayloadDecodes(type, payload)
<1>1. /\ reading = "reading" /\ header # <<>> /\ Len(wire) >= n
      /\ wire' = SubSeq(wire, n + 1, Len(wire))
      /\ stream' = stream /\ arrived' = arrived
      /\ \/ /\ decodes
            /\ taken' = Append(taken, frame) /\ header' = <<>>
            /\ reading' = IF type = "Reject" \/ k + 1 = Len(stream.awaits)
                          THEN "finished" ELSE "reading"
         \/ ~decodes /\ reading' = "failed" /\ taken' = taken /\ header' = header
  BY Zenon DEF ReadsPayload, Reads
<1>2. /\ ProperStream(stream) /\ arrived \in 0 .. Len(stream.bytes)
      /\ wire \in Bytes /\ header \in Bytes
      /\ Len(header) = HeaderLen /\ ~TooLarge(n)
      /\ taken \in Seq(Buildables)
      /\ k < Len(stream.awaits)
      /\ sofar \o header \o wire = SubSeq(stream.bytes, 1, arrived)
      /\ stream.written # <<>> => Follows
  BY <1>1 DEF CodecInv, NothingMisread
<1>3. n \in Nat
  <2>1. Slice(header, 1, 4) \in Bytes /\ Len(Slice(header, 1, 4)) = 4
    BY <1>2, HeaderJoin, Limits
  <2> QED  BY <2>1, Number32OfBytes DEF PayloadLen
<1>4. /\ payload \in Bytes /\ Len(payload) = n
      /\ wire' \in Bytes /\ payload \o wire' = wire
  <2>1. n \in 0 .. Len(wire)
    BY <1>1, <1>2, <1>3, BytesLen
  <2> QED  BY <1>1, <1>2, <2>1, CutBytes, Zenon
<1>5. sofar \in Bytes
  BY <1>2, EncodeAllType
<1>6. k \in Nat
  BY <1>2
<1>7. stream.written # <<>> => decodes /\ frame = stream.written[k + 1]
  BY <1>1, PayloadMatches
<1>8. CASE ~decodes /\ reading' = "failed" /\ taken' = taken /\ header' = header
  <2>1. stream.written = <<>>
    BY <1>7, <1>8
  <2>2. NothingMisread'
    BY <1>8 DEF NothingMisread
  <2> HIDE DEF payload, decodes
  <2> QED  BY <1>1, <1>2, <1>4, <1>6, <1>8, <2>1, <2>2 DEF CodecInv
<1>9. CASE /\ decodes
           /\ taken' = Append(taken, frame) /\ header' = <<>>
           /\ reading' = IF type = "Reject" \/ k + 1 = Len(stream.awaits)
                         THEN "finished" ELSE "reading"
  <2>1. type \in Awaited
    <3>1. stream.awaits \in Seq(SUBSET Awaited)
      BY <1>2 DEF ProperStream, Awaited
    <3>2. stream.awaits[k + 1] \in SUBSET Awaited
      BY <1>2, <1>6, <3>1
    <3> QED  BY <1>9, <3>2
  <2>2. Buildable(frame) /\ frame.type = type /\ Encode(frame) = header \o payload
    <3>1. FrameDecodes(header \o payload) /\ PayloadDecodes(type, payload)
      BY <1>9
    <3> QED  BY <1>2, <1>4, <2>1, <3>1, FrameRead
  <2>3. frame \in Buildables
    BY <2>2 DEF Buildables, Buildable
  <2> HIDE DEF frame, payload, decodes, type
  <2>4. taken' \in Seq(Buildables) /\ Len(taken') = k + 1
    BY <1>2, <1>9, <2>3
  <2>5. EncodeAll(taken') = sofar \o (header \o payload)
    BY <1>2, <1>9, <2>2, <2>3, EncodeAppend, Zenon
  <2>6. NothingMisread'
    <3>1. Regroup4(sofar, header, payload, wire') /\ Regroup3(sofar, header, wire)
      BY <1>2, <1>4, <1>5, BytesAssociative, FourParts, Zenon
    <3>2. (sofar \o (header \o payload)) \o wire' = sofar \o (header \o (payload \o wire'))
      BY <3>1, Zenon DEF Regroup4
    <3>3. sofar \o (header \o wire) = SubSeq(stream.bytes, 1, arrived)
      BY <1>2, <3>1, Zenon DEF Regroup3
    <3>4. EncodeAll(taken') \in Bytes
      BY <2>4, EncodeAllType
    <3>5. EncodeAll(taken') \o header' = EncodeAll(taken')
      BY <1>9, <3>4, NoBytes, Zenon
    <3>6. EncodeAll(taken') \o header' \o wire' = SubSeq(stream'.bytes, 1, arrived')
      BY <1>1, <1>4, <2>5, <3>2, <3>3, <3>5, Zenon
    <3> QED  BY <3>6, Zenon DEF NothingMisread
  <2>7. ASSUME stream.written # <<>> PROVE Follows'
    <3> DEFINE written == stream.written
    <3>1. k < Len(written) /\ taken = SubSeq(written, 1, k)
      BY <1>1, <1>2, <2>7 DEF Follows
    <3>2. /\ written \in Seq(Offers \union Hashes \union Answers)
          /\ Len(written) = Len(stream.awaits) \/ written[Len(written)].type = "Reject"
          /\ Len(written) <= Len(stream.awaits)
      BY <1>2, <2>7 DEF ProperStream
    <3>3. frame = written[k + 1]
      BY <1>7, <2>7
    <3> HIDE DEF written
    <3>4. taken' = SubSeq(written, 1, k + 1)
      <4>1. /\ SubSeq(written, 1, k + 1) = Append(SubSeq(written, 1, k), written[k + 1])
        BY <1>6, <3>1, <3>2
      <4> QED  BY <1>9, <3>1, <3>3, <4>1, Zenon
    <3>5. k + 1 <= Len(written)
      BY <1>6, <3>1, <3>2
    <3>6. reading' = "reading" => k + 1 < Len(written)
      <4> SUFFICES ASSUME reading' = "reading" PROVE k + 1 # Len(written)
        BY <1>6, <3>2, <3>5
      <4>1. type # "Reject" /\ k + 1 # Len(stream.awaits)
        BY <1>9
      <4> QED  BY <2>2, <3>2, <3>3, <4>1
    <3>7. reading' # "failed" /\ Len(taken') = k + 1 /\ written = stream'.written
      BY <1>1, <1>9, <2>4 DEF written
    <3> QED  BY <3>4, <3>5, <3>6, <3>7 DEF Follows
  <2>8. /\ reading' \in {"reading", "finished"} /\ Len(taken') <= Len(stream.awaits)
        /\ reading' = "reading" => Len(taken') < Len(stream.awaits)
    <3>1. Len(stream.awaits) \in Nat
      BY <1>2 DEF ProperStream
    <3> QED  BY <1>2, <1>6, <1>9, <2>4, <3>1
  <2>9. header' \in Bytes /\ header' = <<>>
    BY <1>9, NoBytes
  <2> QED  BY <1>1, <1>2, <1>4, <2>4, <2>6, <2>7, <2>8, <2>9 DEF CodecInv
<1> QED  BY <1>1, <1>8, <1>9

\* The end of a stream cuts the frame that is read next.
LEMMA ReadingFailsKeeps == CodecInv /\ ReadingFails => CodecInv'
<1> SUFFICES ASSUME CodecInv, ReadingFails PROVE CodecInv'
  OBVIOUS
<1>1. /\ reading = "reading" /\ reading' = "failed"
      /\ Len(wire) < IF header = <<>> THEN HeaderLen ELSE PayloadLen(header)
      /\ stream' = stream /\ arrived' = arrived /\ wire' = wire /\ header' = header /\ taken' = taken
  BY DEF ReadingFails
<1>2. ASSUME stream.written # <<>> PROVE Follows'
  <2> DEFINE frame == stream.written[Len(taken) + 1]
             payload == Payload(frame)
             whole == Len(EncodeAll(SubSeq(stream.written, 1, Len(taken) + 1)))
             sofar == Len(EncodeAll(taken))
  <2>1. frame \in Buildables /\ whole = sofar + HeaderLen + Len(payload)
        /\ arrived = sofar + Len(header) + Len(wire)
    BY <1>1, <1>2, NextFrame
  <2>2. payload \in Bytes
    BY <2>1, PayloadWritten DEF Buildables
  <2>3. Follows /\ Len(taken) < Len(stream.written) /\ EncodeAll(taken) \in Bytes
    BY <1>1, <1>2, EncodeAllType DEF CodecInv, Follows
  <2>4. header = <<>> \/ (Len(header) = HeaderLen /\ PayloadLen(header) = Len(payload))
    <3>1. header # <<>> => HeaderOf(header, frame)
      BY <1>1, <1>2, HeaderMatches
    <3> QED  BY <3>1 DEF HeaderOf
  <2>5. sofar \in Nat /\ Len(payload) \in Nat /\ Len(wire) \in Nat
    BY <2>2, <2>3, BytesLen DEF CodecInv
  <2> HIDE DEF payload, whole, sofar, frame
  <2>6. arrived < whole
    <3>1. CASE header = <<>>
      <4>1. Len(header) = 0 /\ Len(wire) < HeaderLen
        BY <1>1, <3>1
      <4> QED  BY <2>1, <2>5, <4>1, Limits
    <3>2. CASE header # <<>>
      <4>1. Len(header) = HeaderLen /\ Len(wire) < Len(payload)
        BY <1>1, <2>4, <3>2
      <4> QED  BY <2>1, <2>5, <4>1, Limits
    <3> QED  BY <3>1, <3>2
  <2> QED  BY <1>1, <2>3, <2>6 DEF Follows, whole
<1>3. NothingMisread'
  BY <1>1 DEF NothingMisread
<1> QED  BY <1>1, <1>2, <1>3 DEF CodecInv

LEMMA CodecInvNext == CodecInv /\ [CodecNext]_codecVars => CodecInv'
<1>1. CodecInv /\ UNCHANGED codecVars => CodecInv'
  BY DEF codecVars, CodecInv, Follows, NothingMisread
<1> QED  BY <1>1, ReadsHeaderKeeps, ReadsPayloadKeeps, ReadingFailsKeeps DEF CodecNext

---------------------------------------------------------------------------
\* Without a separator a name has one component, itself.
LEMMA OneComponent ==
  ASSUME NEW name \in Bytes, ValidName(name)
  PROVE  Components(name) = {<<1, Len(name)>>} /\ SubSeq(name, 1, Len(name)) = name
<1>1. /\ Len(name) \in Nat /\ Len(name) >= 1 /\ DOMAIN name = 1 .. Len(name)
      /\ \A i \in DOMAIN name : name[i] # Slash
      /\ name # <<Dot>>
  <2>1. name \in Seq(Byte) /\ Len(name) \in 1 .. MaxName /\ ~Has(name, Slash) /\ name # <<Dot>>
    BY DEF Bytes, ValidName, PlainName
  <2> QED  BY <2>1 DEF Has
<1>2. SubSeq(name, 1, Len(name)) = name
  BY DEF Bytes
<1>3. <<1, Len(name)>> \in Components(name)
  <2> DEFINE c == <<1, Len(name)>>
  <2>1. c \in (DOMAIN name) \X (DOMAIN name) /\ c[1] = 1 /\ c[2] = Len(name)
    BY <1>1
  <2> HIDE DEF c
  <2>2. SubSeq(name, c[1], c[2]) # <<Dot>>
    BY <1>1, <1>2, <2>1
  <2>3. c[1] <= c[2] /\ \A i \in c[1] .. c[2] : name[i] # Slash
    BY <1>1, <2>1
  <2> QED  BY <2>1, <2>2, <2>3, Zenon DEF Components, c
<1>4. ASSUME NEW c \in Components(name) PROVE c = <<1, Len(name)>>
  <2>1. /\ c \in (DOMAIN name) \X (DOMAIN name)
        /\ c[1] = 1 \/ name[c[1] - 1] = Slash
        /\ c[2] = Len(name) \/ name[c[2] + 1] = Slash
    BY DEF Components
  <2>2. c = <<c[1], c[2]>> /\ c[1] \in 1 .. Len(name) /\ c[2] \in 1 .. Len(name)
    BY <1>1, <2>1
  <2>3. c[1] # 1 => c[1] - 1 \in DOMAIN name
    BY <1>1, <2>2
  <2>4. c[2] # Len(name) => c[2] + 1 \in DOMAIN name
    BY <1>1, <2>2
  <2>5. c[1] = 1 /\ c[2] = Len(name)
    BY <1>1, <2>1, <2>3, <2>4
  <2> QED  BY <2>2, <2>5
<1> QED  BY <1>2, <1>3, <1>4

LEMMA NameKept ==
  ASSUME NEW name \in Bytes, ValidName(name)
  PROVE  SafeFilename(name) = name
<1> DEFINE whole == <<1, Len(name)>>
           last == CHOOSE c \in Components(name) : \A d \in Components(name) : d[1] <= c[1]
<1>1. Components(name) = {whole} /\ SubSeq(name, 1, Len(name)) = name /\ Len(name) \in Nat
  BY OneComponent, BytesLen
<1>2. whole[1] = 1 /\ whole[2] = Len(name)
  OBVIOUS
<1>3. whole[1] <= whole[1]
  BY <1>2
<1> HIDE DEF whole
<1>4. last = whole
  BY <1>1, <1>3
<1>5. SubSeq(name, last[1], last[2]) = name
  BY <1>1, <1>2, <1>4
<1> HIDE DEF last
<1>6. name # <<Dot, Dot>> /\ ~Has(name, Nul) /\ Components(name) # {}
  BY <1>1 DEF ValidName, PlainName
<1> QED  BY <1>5, <1>6, Zenon DEF SafeFilename, last

LEMMA CodecInvImplies ==
  CodecInv => CodecTypeOK /\ NothingMisread /\ WholeFramesAreTaken /\ NameStaysItself
<1> SUFFICES ASSUME CodecInv
             PROVE  CodecTypeOK /\ NothingMisread /\ WholeFramesAreTaken /\ NameStaysItself
  OBVIOUS
<1>1. taken \in Seq(Buildables)
  BY DEF CodecInv
<1>2. CodecTypeOK
  <2>1. taken \in Seq(Offers \union Hashes \union Answers)
    BY <1>1 DEF Buildables
  <2>2. Len(header) \in {0, HeaderLen}
    BY NoBytes DEF CodecInv
  <2> QED  BY <2>1, <2>2 DEF CodecInv, CodecTypeOK
<1>3. NothingMisread
  BY DEF CodecInv
<1>4. WholeFramesAreTaken
  BY DEF CodecInv, Follows, WholeFramesAreTaken
<1>5. NameStaysItself
  <2> SUFFICES ASSUME NEW i \in DOMAIN taken, taken[i].type = "TransferOffer"
               PROVE  SafeFilename(taken[i].name) = taken[i].name
    BY Zenon DEF NameStaysItself
  <2>1. taken[i] \in Buildables
    BY <1>1
  <2>2. taken[i] \in Offers
    BY <2>1 DEF Buildables, Hashes, Answers
  <2>3. taken[i].name \in Bytes /\ ValidName(taken[i].name)
    BY <2>1, <2>2 DEF Buildables, Buildable, Offers, ValidOffer
  <2> QED  BY <2>3, NameKept
<1> QED  BY <1>2, <1>3, <1>4, <1>5

---------------------------------------------------------------------------
LEMMA CodecSafe == CodecSpec => []CodecInv
<1> QED  BY CodecInvInit, CodecInvNext, PTL DEF CodecSpec

\* What a reader takes is what its bytes say, and it stands exactly behind it
\* (Frame::decode, decode_payload, read_offer): for names, MIME types and
\* frames of any length up to any limits, and whatever bytes a peer sends.
THEOREM NothingIsMisread == CodecSpec => []NothingMisread
  BY CodecSafe, CodecInvImplies, PTL

\* A reader refuses no frame that the library can write, of any length up to
\* the limits, wherever the stream is cut (encode and decode agree).
THEOREM WholeFramesTaken == CodecSpec => []WholeFramesAreTaken
  BY CodecSafe, CodecInvImplies, PTL

\* What validate_file_name let through, safe_filename does not change, for
\* every name of any length.
THEOREM NamesStay == CodecSpec => []NameStaysItself
  BY CodecSafe, CodecInvImplies, PTL
=============================================================================
