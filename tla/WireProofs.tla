----------------------------- MODULE WireProofs -----------------------------
(***************************************************************************)
(* Proofs about module Wire, for every text of a request, sequence of      *)
(* requests, startup message and result of a statement.                    *)
(***************************************************************************)
EXTENDS Wire, ScannerProofs

-----------------------------------------------------------------------------
(* Bytes. *)

LEMMA Places == Place[1] = 256 * Place[2] /\ Place[2] = 256 * 256 /\ Place[3] = 256 /\ Place[4] = 1
BY DEF Place

LEMMA BytesType ==
    ASSUME NEW n \in Int, NEW w \in 1..4
    PROVE  Bytes(n, w) \in Seq(Byte) /\ Len(Bytes(n, w)) = w
<1>1. ASSUME NEW i \in 1..w PROVE (n \div Place[4 - w + i]) % 256 \in Byte
  <2>1. 4 - w + i \in 1..4
    OBVIOUS
  <2>2. PICK p \in Nat \ {0} : p = Place[4 - w + i]
    BY <2>1, Places
  <2>3. n \div p \in Int
    OBVIOUS
  <2>4. \A m \in Int : m % 256 \in 0..255
    OBVIOUS
  <2> QED BY <2>2, <2>3, <2>4 DEF Byte
<1> QED BY <1>1 DEF Bytes

LEMMA MaxBound ==
    /\ MaxInt32 \in Int
    /\ \A n \in 0..MaxInt32 : n \in Nat /\ n < 128 * (256 * (256 * 256))
<1>1. Place[1] = 256 * (256 * 256)
  BY DEF Place
<1>2. MaxInt32 \in Int /\ MaxInt32 < 128 * (256 * (256 * 256))
  BY <1>1 DEF MaxInt32
<1> QED BY <1>2

\* An Int32 is read as the number that was written.
LEMMA Int32RoundTrip ==
    ASSUME NEW n \in 0..MaxInt32
    PROVE  Number(Int32(n)) = n /\ Unsigned(Int32(n)) = n
<1> DEFINE b == Int32(n)
<1>1. /\ b[1] = (n \div (256 * (256 * 256))) % 256 /\ b[2] = (n \div (256 * 256)) % 256
      /\ b[3] = (n \div 256) % 256 /\ b[4] = n % 256 /\ Len(b) = 4
  <2>1. b = [i \in 1..4 |-> (n \div Place[i]) % 256]
    BY DEF Int32, Bytes
  <2>2. n \div 1 = n
    OBVIOUS
  <2> HIDE DEF b
  <2> QED BY <2>1, <2>2, Places
<1> HIDE DEF b
<1>2. n \in Nat /\ n < 128 * (256 * (256 * 256))
  BY MaxBound
<1>3. b[1] = n \div (256 * (256 * 256)) /\ b[1] \in 0..127
  BY <1>1, <1>2
<1>4. Number(b) = (256 * 256) * (256 * b[1] + b[2]) + 256 * b[3] + b[4]
  BY <1>1, <1>3, Places DEF Number
<1>6. Unsigned(b) = (256 * 256) * (256 * b[1] + b[2]) + 256 * b[3] + b[4]
  BY <1>1, <1>3, Places DEF Unsigned
<1>5. n = (256 * 256) * (256 * b[1] + b[2]) + 256 * b[3] + b[4]
  <2>1. n = 256 * (n \div 256) + b[4]
    BY <1>1, <1>2
  <2>2. n \div 256 = 256 * (n \div (256 * 256)) + b[3]
    BY <1>1, <1>2
  <2>3. n \div (256 * 256) = 256 * b[1] + b[2]
    BY <1>1, <1>2, <1>3
  <2>4. b[1] \in Int /\ b[2] \in Int /\ b[3] \in Int /\ b[4] \in Int
    BY <1>1, <1>2
  <2>5. n = 256 * (256 * (256 * b[1] + b[2]) + b[3]) + b[4]
    BY <2>1, <2>2, <2>3
  <2> QED BY <2>4, <2>5
<1> QED BY <1>4, <1>5, <1>6 DEF b

LEMMA Int32Type == \A n \in Int : Int32(n) \in Seq(Byte) /\ Len(Int32(n)) = 4
BY BytesType DEF Int32

LEMMA Int16Type == \A n \in Int : Int16(n) \in Seq(Byte) /\ Len(Int16(n)) = 2
BY BytesType DEF Int16

LEMMA TextIsBytes == Text \subseteq Seq(Byte)
BY DEF Text, Byte

LEMMA CStringType ==
    ASSUME NEW s \in Seq(Byte)
    PROVE  CString(s) \in Seq(Byte) /\ Len(CString(s)) = Len(s) + 1
BY DEF CString, Byte

\* The first NUL behind a text ends it.
LEMMA UpToNulOfText ==
    ASSUME NEW s \in Text, NEW t \in Seq(Byte)
    PROVE  IndexOf(CString(s) \o t, {0}) = Len(s) + 1 /\ UpToNul(CString(s) \o t) = s
<1> DEFINE b == CString(s) \o t
           I == {i \in DOMAIN b : b[i] \in {0}}
           n == Len(s) + 1
<1>1. b \in Seq(Byte) /\ Len(b) = n + Len(t) /\ n \in Nat /\ n >= 1
      /\ b[n] = 0 /\ \A i \in 1..Len(s) : b[i] = s[i] /\ s[i] \in 1..255
  <2>1. s \in Seq(1..255) /\ s \in Seq(Byte)
    BY TextIsBytes DEF Text
  <2>2. CString(s) \in Seq(Byte) /\ Len(CString(s)) = n
    BY <2>1, CStringType
  <2>3. CString(s)[n] = 0 /\ \A i \in 1..Len(s) : CString(s)[i] = s[i] /\ s[i] \in 1..255
    <3>1. Len(s) \in Nat /\ \A i \in 1..Len(s) : s[i] \in 1..255
      BY <2>1, LenProperties
    <3> QED BY <2>1, <3>1 DEF CString
  <2>4. n \in Nat /\ n >= 1
    BY <2>1
  <2>5. b \in Seq(Byte) /\ Len(b) = n + Len(t) /\ \A i \in 1..n : b[i] = CString(s)[i]
    BY <2>2
  <2> HIDE DEF b
  <2> QED BY <2>3, <2>4, <2>5
<1> HIDE DEF b
<1>2. n \in I /\ \A i \in I : n <= i
  <2>1. DOMAIN b = 1..(n + Len(t)) /\ Len(t) \in Nat /\ Len(s) \in Nat
    BY <1>1 DEF Text
  <2>2. n \in I
    BY <1>1, <2>1
  <2>3. ASSUME NEW i \in I PROVE n <= i
    <3>1. i \in 1..(n + Len(t)) /\ b[i] = 0
      BY <2>1
    <3>2. CASE i \in 1..Len(s)
      <4>1. b[i] \in 1..255
        BY <1>1, <3>2
      <4>2. b[i] # 0
        BY <4>1
      <4> QED BY <3>1, <4>2
    <3>3. CASE i \notin 1..Len(s)
      BY <1>1, <2>1, <3>1, <3>3
    <3> QED BY <3>2, <3>3
  <2> QED BY <2>2, <2>3
<1>3. Min(I) = n
  <2> HIDE DEF I
  <2>1. \E x \in I : \A y \in I : x <= y
    BY <1>2
  <2>2. I \subseteq Int
    BY <1>1 DEF I
  <2>3. Min(I) \in I /\ \A y \in I : Min(I) <= y
    BY <2>1 DEF Min
  <2>4. Min(I) <= n /\ n <= Min(I) /\ Min(I) \in Int /\ n \in Int
    BY <1>1, <1>2, <2>2, <2>3
  <2> QED BY <2>4
<1>4. IndexOf(b, {0}) = n
  BY <1>2, <1>3 DEF IndexOf
<1>5. SubSeq(b, 1, Len(s)) = s
  <2>1. s \in Seq(1..255)
    BY DEF Text
  <2> QED BY <1>1, <2>1
<1>6. UpToNul(b) = s
  BY <1>1, <1>4, <1>5 DEF UpToNul
<1> QED BY <1>4, <1>6 DEF b
-----------------------------------------------------------------------------
(* Messages, as they are written and read. *)

\* A number in front of other bytes.
LEMMA NumberInFront ==
    ASSUME NEW n \in 0..MaxInt32, NEW t \in Seq(Byte)
    PROVE  LET b == SubSeq(Cat(Int32(n), t), 1, 4) IN Number(b) = n /\ Unsigned(b) = n
<1>1. n \in Int
  BY MaxBound
<1>2. Int32(n) \in Seq(Byte) /\ Len(Int32(n)) = 4
  BY <1>1, Int32Type
<1>3. SubSeq(Cat(Int32(n), t), 1, 4) = Int32(n)
  BY <1>2, CatCut
<1> QED BY <1>3, Int32RoundTrip

\* A message with its type, its length and its body.
Framed(c, body) == Cat(Cat(One(c), Int32(4 + Len(body))), body)

LEMMA FramedType ==
    ASSUME NEW c \in Byte, NEW body \in Seq(Byte)
    PROVE  Framed(c, body) \in Seq(Byte) /\ Len(Framed(c, body)) = 5 + Len(body)
           /\ Framed(c, body)[1] = c /\ From(Framed(c, body), 6) = body
<1> DEFINE i == Int32(4 + Len(body))
<1>1. 4 + Len(body) \in Int /\ Len(body) \in Nat
  BY LenProperties
<1>2. i \in Seq(Byte) /\ Len(i) = 4
  BY <1>1, Int32Type
<1> HIDE DEF i
<1>3. One(c) \in Seq(Byte) /\ Len(One(c)) = 1
  BY CatFirst
<1> DEFINE h == Cat(One(c), i)
<1>4. h \in Seq(Byte) /\ Len(h) = 5
  <2>1. h \in Seq(Byte)
    BY <1>2, <1>3, CatType
  <2>2. Len(h) = Len(One(c)) + Len(i)
    BY <1>2, <1>3, CatLen
  <2> QED BY <1>2, <1>3, <2>1, <2>2
<1>5. Cat(h, body) = Cat(One(c), Cat(i, body)) /\ Cat(i, body) \in Seq(Byte)
  <2>1. Cat(i, body) \in Seq(Byte)
    BY <1>2, CatType
  <2>2. Cat(One(c), Cat(i, body)) = Cat(Cat(One(c), i), body)
    BY <1>2, <1>3, CatAssoc
  <2> QED BY <2>1, <2>2
<1>6. Cat(h, body)[1] = c
  BY <1>5, CatFirst
<1> HIDE DEF h
<1>7. From(Cat(h, body), 6) = body
  <2>1. From(Cat(h, body), Len(h) + 1) = body
    BY <1>4, CatCut
  <2>2. Len(h) + 1 = 6
    BY <1>4
  <2> QED BY <2>1, <2>2
<1>8. Cat(h, body) \in Seq(Byte) /\ Len(Cat(h, body)) = 5 + Len(body)
  BY <1>1, <1>4, CatType, CatLen
<1> QED BY <1>6, <1>7, <1>8 DEF Framed, h, i

\* The length that is read from it.
LEMMA FramedLength ==
    ASSUME NEW c \in Byte, NEW body \in Seq(Byte), 4 + Len(body) <= MaxInt32, NEW t \in Seq(Byte)
    PROVE  LET b == SubSeq(Cat(Framed(c, body), t), 2, 5)
           IN  Number(b) = 4 + Len(body) /\ Unsigned(b) = 4 + Len(body)
<1> DEFINE m == Framed(c, body)
           b == Cat(m, t)
           i == Int32(4 + Len(body))
<1>1. Len(body) \in Nat /\ 4 + Len(body) \in 0..MaxInt32 /\ 4 + Len(body) \in Int
  BY MaxBound, LenProperties
<1>2. i \in Seq(Byte) /\ Len(i) = 4
  BY <1>1, Int32Type
<1>3. m \in Seq(Byte) /\ Len(m) = 5 + Len(body)
  BY FramedType
<1>4. m = Cat(Cat(One(c), i), body)
  BY DEF Framed
<1> HIDE DEF m
<1>5. b \in Seq(Byte) /\ Len(b) = Len(m) + Len(t) /\ Len(t) \in Nat
      /\ SubSeq(b, 1, Len(m)) = m /\ From(b, Len(m) + 1) = t
  <2>1. b \in Seq(Byte)
    BY <1>3, CatType
  <2>2. Len(b) = Len(m) + Len(t) /\ Len(t) \in Nat
    BY <1>3, CatLen
  <2>3. SubSeq(b, 1, Len(m)) = m /\ From(b, Len(m) + 1) = t
    BY <1>3, CatCut
  <2> QED BY <2>1, <2>2, <2>3
<1> DEFINE bt == Cat(body, t)
           it == Cat(i, bt)
<1>6. bt \in Seq(Byte) /\ it \in Seq(Byte) /\ Len(it) = 4 + Len(bt) /\ Len(bt) \in Nat
  <2>1. bt \in Seq(Byte)
    BY CatType
  <2> HIDE DEF bt, i
  <2> QED BY <1>2, <2>1, CatType, CatLen
<1>7. One(c) \in Seq(Byte)
  BY CatFirst
<1>8. b = Cat(One(c), it)
  <2> HIDE DEF i
  <2>1. b = Cat(Cat(One(c), i), bt)
    <3>1. Cat(One(c), i) \in Seq(Byte)
      BY <1>2, <1>7, CatType
    <3> QED BY <1>4, <3>1, CatAssoc
  <2>2. Cat(One(c), Cat(i, bt)) = Cat(Cat(One(c), i), bt)
    <3> HIDE DEF bt
    <3> QED BY <1>2, <1>6, <1>7, CatAssoc
  <2> HIDE DEF b, bt
  <2> QED BY <2>1, <2>2
<1>9. LET a == SubSeq(it, 1, 4) IN Number(a) = 4 + Len(body) /\ Unsigned(a) = 4 + Len(body)
  BY <1>1, <1>6, NumberInFront
<1> HIDE DEF b, it
<1>10. SubSeq(b, 2, 5) = SubSeq(it, 1, 4)
  <2>1. \A k \in 1..Len(it) : b[k + 1] = it[k]
    BY <1>6, <1>8, CatFirst
  <2>2. Len(b) = Len(it) + 1
    <3>1. Len(b) = Len(One(c)) + Len(it) /\ Len(One(c)) = 1
      BY <1>6, <1>7, <1>8, CatLen, CatFirst
    <3> QED BY <1>6, <3>1
  <2> QED BY <1>5, <1>6, <2>1, <2>2
<1>11. LET a == SubSeq(b, 2, 5) IN Number(a) = 4 + Len(body) /\ Unsigned(a) = 4 + Len(body)
  BY <1>9, <1>10
<1> QED BY <1>11 DEF b, m

\* It is read whole, and nothing that follows is touched.
LEMMA FramedIsRead ==
    ASSUME NEW c \in Byte, NEW body \in Seq(Byte), 4 + Len(body) <= MaxInt32, NEW t \in Seq(Byte)
    PROVE  readRawMessage(Cat(Framed(c, body), t)) = [is |-> "ok", msg |-> Framed(c, body), rest |-> t]
<1> DEFINE m == Framed(c, body)
           b == Cat(m, t)
<1>1. Len(body) \in Nat
  BY LenProperties
<1>2. m \in Seq(Byte) /\ Len(m) = 5 + Len(body)
  BY FramedType
<1>3. Unsigned(SubSeq(b, 2, 5)) = 4 + Len(body)
  BY FramedLength
<1> HIDE DEF m
<1>4. b \in Seq(Byte) /\ Len(b) = Len(m) + Len(t) /\ Len(t) \in Nat
      /\ SubSeq(b, 1, Len(m)) = m /\ From(b, Len(m) + 1) = t
  <2>1. b \in Seq(Byte)
    BY <1>2, CatType
  <2>2. Len(b) = Len(m) + Len(t) /\ Len(t) \in Nat
    BY <1>2, CatLen
  <2>3. SubSeq(b, 1, Len(m)) = m /\ From(b, Len(m) + 1) = t
    BY <1>2, CatCut
  <2> QED BY <2>1, <2>2, <2>3
<1> HIDE DEF b
<1>5. readRawMessage(b) = [is |-> "ok", msg |-> m, rest |-> t]
  <2>1. PICK n \in Nat : n = 4 + Len(body) /\ n >= 4
    BY <1>1
  <2>2. PICK k \in Nat : k = Len(m) /\ MessageLen(n) = k /\ k >= 5
    BY <1>1, <1>2, <2>1 DEF MessageLen
  <2>3. Unsigned(SubSeq(b, 2, 5)) = n
    BY <1>3, <2>1
  <2>4. Len(b) >= k /\ Len(b) \in Nat /\ SubSeq(b, 1, k) = m /\ From(b, k + 1) = t
    BY <1>4, <2>2
  <2>5. readRawMessage(b) = [is |-> "ok", msg |-> SubSeq(b, 1, k), rest |-> From(b, k + 1)]
    <3>1. ~(Len(b) < 5) /\ ~(n < 4) /\ ~(Len(b) < MessageLen(n))
      BY <2>1, <2>2, <2>4
    <3>2. ~(Len(b) < 5 \/ (Len(b) >= 5 /\ n < 4) \/ (Len(b) >= 5 /\ n >= 4 /\ Len(b) < MessageLen(n)))
      BY <3>1
    <3> QED BY <2>2, <2>3, <3>1, <3>2, Zenon DEF readRawMessage
  <2> QED BY <2>4, <2>5, Zenon
<1> QED BY <1>5 DEF b, m

\* A startup message is read whole too, or refused for its length.
LEMMA StartupIsRead ==
    ASSUME NEW body \in Seq(Byte), 4 + Len(body) <= MaxInt32, NEW t \in Seq(Byte)
    PROVE  LET m == Cat(Int32(4 + Len(body)), body)
               r == readStartup(Cat(m, t))
           IN  /\ m \in Seq(Byte) /\ Len(m) = 4 + Len(body)
               /\ r = [is |-> "invalid"] \/ r = [is |-> "ok", msg |-> m, rest |-> t]
<1> DEFINE i == Int32(4 + Len(body))
           m == Cat(i, body)
           b == Cat(m, t)
           bt == Cat(body, t)
<1>1. Len(body) \in Nat /\ 4 + Len(body) \in 0..MaxInt32 /\ 4 + Len(body) \in Int
  BY MaxBound, LenProperties
<1>2. i \in Seq(Byte) /\ Len(i) = 4
  BY <1>1, Int32Type
<1>3. bt \in Seq(Byte)
  BY CatType
<1>4. Unsigned(SubSeq(Cat(i, bt), 1, 4)) = 4 + Len(body)
  BY <1>1, <1>3, NumberInFront
<1> HIDE DEF i
<1>5. m \in Seq(Byte) /\ Len(m) = 4 + Len(body)
  <2>1. m \in Seq(Byte)
    BY <1>2, CatType
  <2>2. Len(m) = Len(i) + Len(body)
    BY <1>2, CatLen
  <2> QED BY <1>2, <2>1, <2>2
<1>6. b = Cat(i, bt)
  BY <1>2, CatAssoc
<1> HIDE DEF m, bt
<1>7. Len(b) = Len(m) + Len(t) /\ Len(t) \in Nat
      /\ SubSeq(b, 1, Len(m)) = m /\ From(b, Len(m) + 1) = t
  <2>1. Len(b) = Len(m) + Len(t) /\ Len(t) \in Nat
    BY <1>5, CatLen
  <2>2. SubSeq(b, 1, Len(m)) = m /\ From(b, Len(m) + 1) = t
    BY <1>5, CatCut
  <2> QED BY <2>1, <2>2
<1> HIDE DEF b
<1>8. readStartup(b) = [is |-> "invalid"] \/ readStartup(b) = [is |-> "ok", msg |-> m, rest |-> t]
  <2>1. PICK n \in Nat : n = 4 + Len(body) /\ n = Len(m)
    BY <1>1, <1>5
  <2>2. Unsigned(SubSeq(b, 1, 4)) = n
    BY <1>4, <1>6, <2>1
  <2>3. Len(b) >= 4 /\ ~(Len(b) < 4) /\ ~(Len(b) < n)
    BY <1>1, <1>7, <2>1
  <2>4. SubSeq(b, 1, n) = m /\ From(b, n + 1) = t
    BY <1>7, <2>1
  <2>5. CASE n < 4 \/ n > MaxStartupLen
    BY <2>2, <2>3, <2>5, Zenon DEF readStartup
  <2>6. CASE ~(n < 4 \/ n > MaxStartupLen)
    BY <2>2, <2>3, <2>4, <2>6, Zenon DEF readStartup
  <2> QED BY <2>5, <2>6
<1> QED BY <1>5, <1>8 DEF b, m, i

LEMMA NothingIsRead ==
    /\ readStartup(<<>>) = [is |-> "short"]
    /\ \A b \in Seq(Byte) : Len(b) < 5 => readRawMessage(b) = [is |-> "short"]
BY DEF readStartup, readRawMessage

LEMMA UpToNulType ==
    ASSUME NEW s \in Seq(Byte)
    PROVE  UpToNul(s) \in Seq(Byte) /\ Len(UpToNul(s)) \in Nat
<1> DEFINE I == {i \in DOMAIN s : s[i] \in {0}}
<1>1. I \subseteq 1..Len(s) /\ Len(s) \in Nat
  OBVIOUS
<1>2. CASE I = {}
  BY <1>2 DEF UpToNul, IndexOf
<1>3. CASE I # {}
  <2> HIDE DEF I
  <2>1. \E x \in I : \A y \in I : x <= y
    <3>1. I \subseteq Nat
      BY <1>1
    <3> QED BY <1>3, <3>1, Least
  <2>2. Min(I) \in I
    BY <2>1 DEF Min
  <2>3. PICK k \in 1..Len(s) : k = Min(I)
    BY <1>1, <2>2
  <2>4. UpToNul(s) = SubSeq(s, 1, k - 1)
    <3>1. IndexOf(s, {0}) = k /\ k # 0
      BY <1>3, <2>3 DEF IndexOf, I
    <3> QED BY <3>1 DEF UpToNul
  <2>5. SubSeq(s, 1, k - 1) \in Seq(Byte) /\ Len(SubSeq(s, 1, k - 1)) \in Nat
    BY <1>1
  <2> QED BY <2>4, <2>5
<1> QED BY <1>2, <1>3
-----------------------------------------------------------------------------
(* The startup parameters. *)

ParseStates == [rest: Seq(Byte), params: Params]

LEMMA ParseParamType == ParseParam \in [ParseStates -> ParseStates]
<1> SUFFICES ASSUME NEW st \in ParseStates PROVE ParseParam[st] \in ParseStates
  BY DEF ParseParam, ParseStates
<1> DEFINE key == UpToNul(st.rest)
           afterKey == From(st.rest, Len(key) + 2)
           value == UpToNul(afterKey)
           next == From(afterKey, Len(value) + 2)
<1>1. st.rest \in Seq(Byte) /\ st.params \in Params
  BY DEF ParseStates
<1>2. Len(key) + 2 \in Nat \ {0}
  BY <1>1, UpToNulType
<1>3. afterKey \in Seq(Byte)
  BY <1>1, <1>2, FromType
<1> HIDE DEF afterKey
<1>4. value \in Seq(Byte) /\ Len(value) + 2 \in Nat \ {0}
  BY <1>3, UpToNulType
<1> HIDE DEF value
<1>5. next \in Seq(Byte)
  BY <1>3, <1>4, FromType
<1> HIDE DEF next, key
<1> DEFINE changed == CASE key = UserKey -> [st.params EXCEPT !.user = value]
                        [] key = DatabaseKey -> [st.params EXCEPT !.database = value]
                        [] OTHER -> st.params
<1>6. ParseParam[st] = IF Len(st.rest) <= 1 THEN st ELSE [rest |-> next, params |-> changed]
  BY Zenon DEF ParseParam, ParseStates, key, afterKey, value, next
<1>7. changed \in Params
  BY <1>1, <1>4 DEF Params
<1> HIDE DEF changed
<1> QED BY <1>5, <1>6, <1>7 DEF ParseStates

LEMMA NulEnds ==
    ASSUME NEW s \in Text, NEW t \in Seq(Byte)
    PROVE  /\ CString(s) \in Seq(Byte) /\ Len(CString(s)) = Len(s) + 1 /\ Len(s) \in Nat
           /\ UpToNul(Cat(CString(s), t)) = s
           /\ IndexOf(Cat(CString(s), t), {0}) = Len(s) + 1
           /\ From(Cat(CString(s), t), Len(s) + 2) = t
<1>1. s \in Seq(Byte) /\ Len(s) \in Nat
  BY TextIsBytes, LenProperties
<1>2. CString(s) \in Seq(Byte) /\ Len(CString(s)) = Len(s) + 1
  BY <1>1, CStringType
<1>3. UpToNul(Cat(CString(s), t)) = s /\ IndexOf(Cat(CString(s), t), {0}) = Len(s) + 1
  BY UpToNulOfText, Zenon DEF Cat
<1>4. From(Cat(CString(s), t), Len(s) + 2) = t
  <2>1. From(Cat(CString(s), t), Len(CString(s)) + 1) = t
    BY <1>2, CatCut
  <2>2. Len(CString(s)) + 1 = Len(s) + 2
    BY <1>1, <1>2
  <2> QED BY <2>1, <2>2
<1> QED BY <1>1, <1>2, <1>3, <1>4

\* One round takes a key and its value.
LEMMA ParseRound ==
    ASSUME NEW k \in Text, NEW v \in Text, NEW t \in Seq(Byte), NEW p \in Params
    PROVE  LET b == Cat(CString(k), Cat(CString(v), t))
           IN  /\ b \in Seq(Byte)
               /\ ParseParam[[rest |-> b, params |-> p]] =
                     [rest |-> t, params |-> CASE k = UserKey -> [p EXCEPT !.user = v]
                                               [] k = DatabaseKey -> [p EXCEPT !.database = v]
                                               [] OTHER -> p]
<1> DEFINE c == Cat(CString(v), t)
           b == Cat(CString(k), c)
           st == [rest |-> b, params |-> p]
<1>1. CString(v) \in Seq(Byte) /\ UpToNul(c) = v /\ From(c, Len(v) + 2) = t
  BY NulEnds
<1>2. c \in Seq(Byte)
  BY <1>1, CatType
<1> HIDE DEF c
<1>3. CString(k) \in Seq(Byte) /\ UpToNul(b) = k /\ From(b, Len(k) + 2) = c
      /\ Len(CString(k)) = Len(k) + 1 /\ Len(k) \in Nat
  BY <1>2, NulEnds
<1>4. b \in Seq(Byte) /\ Len(b) = Len(CString(k)) + Len(c) /\ Len(c) \in Nat
  <2>1. b \in Seq(Byte)
    BY <1>2, <1>3, CatType
  <2>2. Len(b) = Len(CString(k)) + Len(c) /\ Len(c) \in Nat
    BY <1>2, <1>3, CatLen
  <2> QED BY <2>1, <2>2
<1>5. Len(c) >= 1
  <2>1. Len(c) = Len(CString(v)) + Len(t) /\ Len(t) \in Nat /\ Len(CString(v)) = Len(v) + 1 /\ Len(v) \in Nat
    BY <1>1, CatLen, NulEnds DEF c
  <2> QED BY <2>1
<1>6. ~(Len(b) <= 1)
  BY <1>3, <1>4, <1>5
<1> HIDE DEF b
<1>7. st.rest = b /\ st.params = p /\ st \in [rest: Seq(Byte), params: Params]
  BY <1>4
<1> HIDE DEF st
<1>8. ParseParam[st] = [rest |-> t, params |-> CASE k = UserKey -> [p EXCEPT !.user = v]
                                                 [] k = DatabaseKey -> [p EXCEPT !.database = v]
                                                 [] OTHER -> p]
  BY <1>1, <1>3, <1>6, <1>7, Zenon DEF ParseParam
<1> QED BY <1>4, <1>8 DEF b, c, st

LEMMA Keys == UserKey \in Text /\ DatabaseKey \in Text /\ UserKey # DatabaseKey
              /\ Len(UserKey) = 1 /\ Len(DatabaseKey) = 1
BY DEF UserKey, DatabaseKey, Text

\* What follows the version in a startup message.
ParamBytes(a) ==
    Cat(CString(UserKey), Cat(CString(a.user),
        Cat(CString(DatabaseKey), Cat(CString(a.database), One(0)))))

LEMMA BodyForm ==
    ASSUME NEW a \in [user: Text, database: Text]
    PROVE  /\ StartupBody(a) = Cat(Int32(3 * Place[2]), ParamBytes(a))
           /\ ParamBytes(a) \in Seq(Byte) /\ StartupBody(a) \in Seq(Byte)
           /\ Len(StartupBody(a)) = Len(a.user) + Len(a.database) + 11
           /\ Len(a.user) \in Nat /\ Len(a.database) \in Nat
<1> DEFINE v == Int32(3 * Place[2])
           d == Cat(CString(a.database), One(0))
           kd == Cat(CString(DatabaseKey), d)
           ukd == Cat(CString(a.user), kd)
<1>1. v \in Seq(Byte) /\ Len(v) = 4
  <2>1. 3 * Place[2] \in Int
    BY Places
  <2> QED BY <2>1, Int32Type
<1>2. a.user \in Text /\ a.database \in Text
  OBVIOUS
<1>3. One(0) \in Seq(Byte) /\ Len(One(0)) = 1
  <2>1. 0 \in Byte
    BY DEF Byte
  <2>2. <<>> \in Seq(Byte)
    OBVIOUS
  <2> QED BY <2>1, <2>2, CatFirst
<1>4. /\ CString(a.user) \in Seq(Byte) /\ Len(CString(a.user)) = Len(a.user) + 1 /\ Len(a.user) \in Nat
      /\ CString(a.database) \in Seq(Byte) /\ Len(CString(a.database)) = Len(a.database) + 1
      /\ Len(a.database) \in Nat
  BY <1>2, <1>3, NulEnds
<1>5. /\ CString(UserKey) \in Seq(Byte) /\ Len(CString(UserKey)) = 2
      /\ CString(DatabaseKey) \in Seq(Byte) /\ Len(CString(DatabaseKey)) = 2
  <2>1. CString(UserKey) \in Seq(Byte) /\ Len(CString(UserKey)) = Len(UserKey) + 1
    BY <1>3, Keys, NulEnds
  <2>2. CString(DatabaseKey) \in Seq(Byte) /\ Len(CString(DatabaseKey)) = Len(DatabaseKey) + 1
    BY <1>3, Keys, NulEnds
  <2> QED BY <2>1, <2>2, Keys
<1> HIDE DEF v
<1>6. d \in Seq(Byte) /\ Len(d) = Len(a.database) + 2
  <2>1. d \in Seq(Byte)
    BY <1>3, <1>4, CatType
  <2>2. Len(d) = Len(CString(a.database)) + Len(One(0))
    BY <1>3, <1>4, CatLen
  <2>3. Len(d) = (Len(a.database) + 1) + 1
    BY <1>3, <1>4, <2>2
  <2> HIDE DEF d
  <2> QED BY <1>4, <2>1, <2>3
<1> HIDE DEF d
<1>7. kd \in Seq(Byte) /\ Len(kd) = Len(a.database) + 4
  <2>1. kd \in Seq(Byte)
    BY <1>5, <1>6, CatType
  <2>2. Len(kd) = Len(CString(DatabaseKey)) + Len(d)
    BY <1>5, <1>6, CatLen
  <2> QED BY <1>4, <1>5, <1>6, <2>1, <2>2
<1> HIDE DEF kd
<1>8. ukd \in Seq(Byte) /\ Len(ukd) = Len(a.user) + Len(a.database) + 5
  <2>1. ukd \in Seq(Byte)
    BY <1>4, <1>7, CatType
  <2>2. Len(ukd) = Len(CString(a.user)) + Len(kd)
    BY <1>4, <1>7, CatLen
  <2> QED BY <1>4, <1>7, <2>1, <2>2
<1>9. ParamBytes(a) = Cat(CString(UserKey), ukd)
  BY DEF ParamBytes, ukd, kd, d
<1> HIDE DEF ukd
<1>10. ParamBytes(a) \in Seq(Byte) /\ Len(ParamBytes(a)) = Len(a.user) + Len(a.database) + 7
  <2>1. ParamBytes(a) \in Seq(Byte)
    BY <1>5, <1>8, <1>9, CatType
  <2>2. Len(ParamBytes(a)) = Len(CString(UserKey)) + Len(ukd)
    BY <1>5, <1>8, <1>9, CatLen
  <2> QED BY <1>4, <1>5, <1>8, <2>1, <2>2
<1>11. StartupBody(a) = Cat(v, ParamBytes(a))
  <2>1. StartupBody(a) = Cat(Cat(Cat(Cat(Cat(v, CString(UserKey)), CString(a.user)),
                                 CString(DatabaseKey)), CString(a.database)), One(0))
    BY Zenon DEF StartupBody, Cat, One, v
  <2> QED BY <1>1, <1>3, <1>4, <1>5, <2>1, Chain DEF ParamBytes
<1>12. StartupBody(a) \in Seq(Byte)
  BY <1>1, <1>10, <1>11, CatType
<1>13. Len(StartupBody(a)) = Len(v) + Len(ParamBytes(a))
  BY <1>1, <1>10, <1>11, CatLen
<1>14. Len(StartupBody(a)) = Len(a.user) + Len(a.database) + 11
  BY <1>1, <1>4, <1>10, <1>13
<1> QED BY <1>4, <1>10, <1>11, <1>12, <1>14 DEF v

\* The user and database are understood.
LEMMA StartupIsParsed ==
    ASSUME NEW a \in [user: Text, database: Text]
    PROVE  /\ StartupBytes(a) \in Seq(Byte) /\ Len(StartupBytes(a)) = Len(a.user) + Len(a.database) + 15
           /\ StartupBytes(a) = Cat(Int32(4 + Len(StartupBody(a))), StartupBody(a))
           /\ parseStartupParams(StartupBytes(a)) = a
<1> DEFINE n == 4 + Len(StartupBody(a))
           v == Int32(3 * Place[2])
           b == ParamBytes(a)
           i == Int32(n)
           iv == Cat(i, v)
           m == StartupBytes(a)
<1>1. /\ StartupBody(a) = Cat(v, b) /\ b \in Seq(Byte) /\ n \in Int
      /\ n = Len(a.user) + Len(a.database) + 15 /\ Len(a.user) \in Nat /\ Len(a.database) \in Nat
  <2>1. StartupBody(a) = Cat(v, b) /\ b \in Seq(Byte)
    BY BodyForm
  <2>2. Len(StartupBody(a)) = Len(a.user) + Len(a.database) + 11
        /\ Len(a.user) \in Nat /\ Len(a.database) \in Nat
    BY BodyForm
  <2> HIDE DEF b, v
  <2> QED BY <2>1, <2>2
<1>2. v \in Seq(Byte) /\ Len(v) = 4
  <2>1. 3 * Place[2] \in Int
    BY Places
  <2> QED BY <2>1, Int32Type
<1>3. i \in Seq(Byte) /\ Len(i) = 4
  BY <1>1, Int32Type
<1>4. m = Cat(i, StartupBody(a))
  BY Zenon DEF StartupBytes, Cat, m, i, n
<1> HIDE DEF i, v, b
<1>5. m = Cat(iv, b) /\ iv \in Seq(Byte)
  <2>1. iv \in Seq(Byte)
    BY <1>2, <1>3, CatType
  <2>2. m = Cat(i, Cat(v, b))
    BY <1>1, <1>4
  <2>3. Cat(i, Cat(v, b)) = Cat(Cat(i, v), b)
    BY <1>1, <1>2, <1>3, CatAssoc
  <2> QED BY <2>1, <2>2, <2>3
<1>6. Len(iv) = 8
  <2>1. Len(iv) = Len(i) + Len(v)
    BY <1>2, <1>3, CatLen
  <2> QED BY <1>2, <1>3, <2>1
<1> HIDE DEF iv, m
<1>7. From(m, 9) = b
  <2>1. From(m, Len(iv) + 1) = b
    BY <1>1, <1>5, CatCut
  <2>2. Len(iv) + 1 = 9
    BY <1>6
  <2> QED BY <2>1, <2>2
<1>8. m \in Seq(Byte) /\ Len(m) = n
  <2>1. StartupBody(a) \in Seq(Byte)
    BY BodyForm
  <2>2. m \in Seq(Byte)
    BY <1>3, <1>4, <2>1, CatType
  <2>3. Len(m) = Len(i) + Len(StartupBody(a)) /\ Len(StartupBody(a)) \in Nat
    BY <1>3, <1>4, <2>1, CatLen
  <2> QED BY <1>3, <2>2, <2>3
<1> DEFINE start == [rest |-> b, params |-> NoParams]
           half == [rest |-> Cat(CString(DatabaseKey), Cat(CString(a.database), One(0))),
                    params |-> [NoParams EXCEPT !.user = a.user]]
           done == [rest |-> One(0), params |-> a]
<1>9. a.user \in Text /\ a.database \in Text /\ Text \subseteq Seq(Byte) /\ NoParams \in Params
      /\ NoParams.user = <<>> /\ NoParams.database = <<>>
  BY TextIsBytes DEF Params, NoParams
<1>10. One(0) \in Seq(Byte) /\ Len(One(0)) = 1
  <2>1. 0 \in Byte
    BY DEF Byte
  <2>2. <<>> \in Seq(Byte)
    OBVIOUS
  <2> QED BY <2>1, <2>2, CatFirst
<1>11. ParseParam[start] = half /\ half.rest \in Seq(Byte)
  <2> DEFINE t == Cat(CString(DatabaseKey), Cat(CString(a.database), One(0)))
  <2>1. t \in Seq(Byte)
    BY <1>9, <1>10, Keys, ParseRound
  <2>2. b = Cat(CString(UserKey), Cat(CString(a.user), t))
    BY DEF b, ParamBytes
  <2> HIDE DEF t
  <2>3. ParseParam[start] = [rest |-> t, params |->
             CASE UserKey = UserKey -> [NoParams EXCEPT !.user = a.user]
               [] UserKey = DatabaseKey -> [NoParams EXCEPT !.database = a.user]
               [] OTHER -> NoParams]
    BY <1>9, <2>1, <2>2, Keys, ParseRound
  <2>4. ParseParam[start] = [rest |-> t, params |-> [NoParams EXCEPT !.user = a.user]]
    BY <2>3, Keys
  <2> QED BY <2>1, <2>4 DEF t
<1>12. ParseParam[half] = done
  <2> DEFINE p == [NoParams EXCEPT !.user = a.user]
  <2>1. p \in Params /\ p.user = a.user
    BY <1>9 DEF Params
  <2>2. [p EXCEPT !.database = a.database] = a
    BY <1>9 DEF NoParams
  <2> DEFINE t == Cat(CString(DatabaseKey), Cat(CString(a.database), One(0)))
  <2>0. half = [rest |-> t, params |-> p]
    OBVIOUS
  <2> HIDE DEF p, half
  <2>3. ParseParam[half] = [rest |-> One(0), params |->
             CASE DatabaseKey = UserKey -> [p EXCEPT !.user = a.database]
               [] DatabaseKey = DatabaseKey -> [p EXCEPT !.database = a.database]
               [] OTHER -> p]
    <3>1. ParseParam[[rest |-> t, params |-> p]] = [rest |-> One(0), params |->
               CASE DatabaseKey = UserKey -> [p EXCEPT !.user = a.database]
                 [] DatabaseKey = DatabaseKey -> [p EXCEPT !.database = a.database]
                 [] OTHER -> p]
      BY <1>9, <1>10, <2>1, Keys, ParseRound
    <3> QED BY <2>0, <3>1, Zenon
  <2> QED BY <2>2, <2>3, Keys
<1>13. start \in ParseStates /\ done \in ParseStates
  BY <1>1, <1>9, <1>10 DEF ParseStates, Params
<1>14. ParseParam[done] = done
  <2>1. done.rest = One(0)
    OBVIOUS
  <2> HIDE DEF done
  <2>2. Len(done.rest) <= 1
    <3>1. Len(done.rest) = 1
      BY <1>10, <2>1, Zenon
    <3> QED BY <3>1
  <2> QED BY <1>13, <2>2, Zenon DEF ParseParam, ParseStates
<1> HIDE DEF start, half, done
<1>15. Iterated(ParseParam, start, 2) = done
  <2>1. Iterated(ParseParam, start, 0) = start
    BY <1>13, ParseParamType, IteratedRounds
  <2>2. Iterated(ParseParam, start, 0 + 1) = ParseParam[Iterated(ParseParam, start, 0)]
    BY <1>13, ParseParamType, IteratedRounds
  <2>3. Iterated(ParseParam, start, 1 + 1) = ParseParam[Iterated(ParseParam, start, 1)]
    BY <1>13, ParseParamType, IteratedRounds
  <2>4. 0 + 1 = 1 /\ 1 + 1 = 2
    OBVIOUS
  <2> QED BY <1>11, <1>12, <2>1, <2>2, <2>3, <2>4, Zenon
<1>16. Iterated(ParseParam, start, Len(m)) = done
  <2>1. Len(m) \in Nat /\ 2 <= Len(m)
    BY <1>1, <1>8
  <2> QED BY <1>13, <1>14, <1>15, <2>1, ParseParamType, IteratedFixed
<1>17. parseStartupParams(m) = a
  <2>1. ~(Len(m) < 8)
    BY <1>1, <1>8
  <2>2. parseStartupParams(m) = Iterated(ParseParam, start, Len(m)).params
    BY <1>7, <2>1, Zenon DEF parseStartupParams, start
  <2> QED BY <1>16, <2>2 DEF done
<1> QED BY <1>1, <1>4, <1>8, <1>17 DEF m, i
-----------------------------------------------------------------------------
(* Requests. *)

\* What a script may ask for.
Requests == {r \in [type: {"Q", "P"}, sql: Text] : Len(r.sql) + 8 <= MaxInt32}

BytesOf(r) == RequestBytes(r.type, r.sql)

LEMMA CodesDiffer == Code.Q # Code.X /\ Code.P # Code.X /\ Code.P # Code.Q /\ Code.Q \in Byte
                     /\ Code.P \in Byte /\ Code.X \in Byte /\ Code.N \in Byte
BY DEF Code, Byte

\* A request is a message; a Query's text is found in it.
LEMMA RequestForm ==
    ASSUME NEW r \in Requests
    PROVE  \E body \in Seq(Byte) :
              /\ 4 + Len(body) <= MaxInt32
              /\ BytesOf(r) = Framed(Code[r.type], body)
              /\ r.type = "Q" => extractSQL(Framed(Code.Q, body)) = r.sql
<1> DEFINE cs == CString(r.sql)
<1>1. r.type \in {"Q", "P"} /\ r.sql \in Text /\ Len(r.sql) + 8 <= MaxInt32 /\ MaxInt32 \in Int
  BY MaxBound DEF Requests
<1>2. <<>> \in Seq(Byte)
  OBVIOUS
<1>3. cs \in Seq(Byte) /\ Len(cs) = Len(r.sql) + 1 /\ Len(r.sql) \in Nat
      /\ UpToNul(Cat(cs, <<>>)) = r.sql /\ IndexOf(Cat(cs, <<>>), {0}) = Len(r.sql) + 1
  BY <1>1, <1>2, NulEnds
<1>4. CASE r.type = "Q"
  <2>1. 4 + Len(r.sql) + 1 = 4 + Len(cs) /\ 4 + Len(cs) <= MaxInt32
    BY <1>1, <1>3
  <2>2. BytesOf(r) = Framed(Code.Q, cs)
    BY <1>4, <2>1, Zenon DEF BytesOf, RequestBytes, Framed, Cat, One, cs
  <2>3. extractSQL(Framed(Code.Q, cs)) = r.sql
    <3>1. From(Framed(Code.Q, cs), 6) = cs
      BY <1>3, CodesDiffer, FramedType
    <3>2. Cat(cs, <<>>) = cs
      BY <1>3, CatEmpty
    <3>3. UpToNul(cs) = r.sql /\ IndexOf(cs, {0}) = Len(r.sql) + 1
      BY <1>3, <3>2
    <3>4. IndexOf(cs, {0}) # 0
      BY <1>3, <3>3
    <3> QED BY <3>1, <3>3, <3>4, Zenon DEF extractSQL
  <2> HIDE DEF cs
  <2> QED BY <1>3, <1>4, <2>1, <2>2, <2>3
<1>5. CASE r.type = "P"
  <2> DEFINE end == Int16(0)
             ce == Cat(cs, end)
             body == Cat(One(0), ce)
             len == Int32(4 + 1 + Len(r.sql) + 1 + 2)
             h == Cat(One(Code.P), len)
  <2>1. end \in Seq(Byte) /\ Len(end) = 2
    BY Int16Type
  <2>2. One(0) \in Seq(Byte) /\ Len(One(0)) = 1
    <3>1. 0 \in Byte
      BY DEF Byte
    <3> QED BY <1>2, <3>1, CatFirst
  <2>3. One(Code.P) \in Seq(Byte)
    BY <1>2, CodesDiffer, CatFirst
  <2>4. len \in Seq(Byte)
    <3>1. 4 + 1 + Len(r.sql) + 1 + 2 \in Int
      BY <1>3
    <3> QED BY <3>1, Int32Type
  <2> HIDE DEF end, len, cs
  <2>5. ce \in Seq(Byte) /\ Len(ce) = Len(r.sql) + 3
    <3>1. ce \in Seq(Byte)
      BY <1>3, <2>1, CatType
    <3>2. Len(ce) = Len(cs) + Len(end)
      BY <1>3, <2>1, CatLen
    <3> HIDE DEF ce
    <3> QED BY <1>3, <2>1, <3>1, <3>2
  <2>6. h \in Seq(Byte)
    BY <2>3, <2>4, CatType
  <2>7. Cat(Cat(Cat(h, One(0)), cs), end) = Cat(h, body)
    <3>1. Cat(h, One(0)) \in Seq(Byte)
      BY <2>2, <2>6, CatType
    <3> HIDE DEF h
    <3>2. Cat(Cat(h, One(0)), Cat(cs, end)) = Cat(Cat(Cat(h, One(0)), cs), end)
      BY <1>3, <2>1, <3>1, CatAssoc
    <3> HIDE DEF ce
    <3>3. Cat(h, Cat(One(0), ce)) = Cat(Cat(h, One(0)), ce)
      BY <2>2, <2>5, <2>6, CatAssoc
    <3> QED BY <3>2, <3>3 DEF ce
  <2> HIDE DEF ce
  <2>8. body \in Seq(Byte) /\ Len(body) = Len(r.sql) + 4
    <3>1. body \in Seq(Byte)
      BY <2>2, <2>5, CatType
    <3>2. Len(body) = Len(One(0)) + Len(ce)
      BY <2>2, <2>5, CatLen
    <3> HIDE DEF body
    <3>3. Len(body) = 1 + Len(ce)
      BY <2>2, <3>2, Zenon
    <3> QED BY <1>3, <2>5, <3>1, <3>3
  <2>9. BytesOf(r) = Cat(Cat(Cat(h, One(0)), cs), end)
    <3>1. r.type # "Q"
      BY <1>5
    <3> QED BY <3>1, Zenon DEF BytesOf, RequestBytes, Cat, One, h, len, cs, end
  <2>10. 4 + 1 + Len(r.sql) + 1 + 2 = 4 + Len(body) /\ 4 + Len(body) <= MaxInt32
    BY <1>1, <1>3, <2>8
  <2>11. Cat(h, body) = Framed(Code.P, body)
    BY <2>10, Zenon DEF Framed, h, len
  <2> HIDE DEF body, h
  <2>12. BytesOf(r) = Framed(Code.P, body)
    BY <2>7, <2>9, <2>11
  <2> QED BY <1>5, <2>8, <2>10, <2>12
<1> QED BY <1>1, <1>4, <1>5

\* What is not all there is waited for.
LEMMA BrokenOffIsShort ==
    ASSUME NEW c \in Byte, NEW body \in Seq(Byte), 4 + Len(body) <= MaxInt32,
           NEW n \in Nat, n < 5 + Len(body)
    PROVE  /\ SubSeq(Framed(c, body), 1, n) \in Seq(Byte)
           /\ readRawMessage(SubSeq(Framed(c, body), 1, n)) = [is |-> "short"]
<1> DEFINE m == Framed(c, body)
           b == SubSeq(m, 1, n)
<1>1. m \in Seq(Byte) /\ Len(m) = 5 + Len(body) /\ Len(body) \in Nat
  BY FramedType, LenProperties
<1>2. <<>> \in Seq(Byte) /\ Cat(m, <<>>) = m
  BY <1>1, CatEmpty
<1>3. Unsigned(SubSeq(m, 2, 5)) = 4 + Len(body)
  BY <1>2, FramedLength
<1> HIDE DEF m
<1>4. b \in Seq(Byte) /\ Len(b) = n /\ \A k \in 1..n : b[k] = m[k]
  BY <1>1
<1> HIDE DEF b
<1>5. readRawMessage(b) = [is |-> "short"]
  <2>1. CASE n < 5
    BY <1>4, <2>1, NothingIsRead
  <2>2. CASE n >= 5
    <3>1. SubSeq(b, 2, 5) = SubSeq(m, 2, 5)
      BY <1>1, <1>4, <2>2
    <3>2. PICK k \in Nat : k = 4 + Len(body) /\ k >= 4
      BY <1>1
    <3>3. Unsigned(SubSeq(b, 2, 5)) = k
      BY <1>3, <3>1, <3>2
    <3>4. ~(Len(b) < 5) /\ Len(b) >= 5 /\ ~(k < 4) /\ Len(b) < MessageLen(k)
      BY <1>1, <1>4, <2>2, <3>2 DEF MessageLen
    <3>5. readRawMessage(b) = [is |-> "short"]
      BY <3>2, <3>3, <3>4, Zenon DEF readRawMessage
    <3> QED BY <3>5
  <2> QED BY <2>1, <2>2
<1> QED BY <1>4, <1>5 DEF b, m

\* The requests of s behind the first n, as bytes.
UnreadSeqs(s, n) == [i \in 1..(Len(s) - n) |-> BytesOf(s[n + i])]
Unread(s, n) == FlattenSeq(UnreadSeqs(s, n))

LEMMA RequestBytesType == \A r \in Requests : BytesOf(r) \in Seq(Byte)
<1> SUFFICES ASSUME NEW r \in Requests PROVE BytesOf(r) \in Seq(Byte)
  OBVIOUS
<1>1. Code[r.type] \in Byte
  BY CodesDiffer DEF Requests, Code
<1> QED BY <1>1, RequestForm, FramedType

LEMMA UnreadSeqsType ==
    ASSUME NEW s \in Seq(Requests), NEW n \in 0..Len(s)
    PROVE  UnreadSeqs(s, n) \in Seq(Seq(Byte)) /\ Len(UnreadSeqs(s, n)) = Len(s) - n
<1>1. Len(s) \in Nat /\ \A k \in 1..Len(s) : BytesOf(s[k]) \in Seq(Byte)
  BY RequestBytesType
<1>2. ASSUME NEW i \in 1..(Len(s) - n) PROVE BytesOf(s[n + i]) \in Seq(Byte)
  <2>1. n + i \in 1..Len(s)
    BY <1>1
  <2> QED BY <1>1, <2>1
<1> QED BY <1>1, <1>2 DEF UnreadSeqs

LEMMA UnreadSteps ==
    ASSUME NEW s \in Seq(Requests), NEW n \in 0..Len(s)
    PROVE  /\ Unread(s, n) \in Seq(Byte)
           /\ n = Len(s) => Unread(s, n) = <<>>
           /\ n < Len(s) => /\ s[n + 1] \in Requests /\ n + 1 \in 0..Len(s)
                            /\ Unread(s, n) = Cat(BytesOf(s[n + 1]), Unread(s, n + 1))
           /\ \A r \in Requests : Unread(Append(s, r), n) = Cat(Unread(s, n), BytesOf(r))
<1>1. Len(s) \in Nat /\ \A k \in 1..Len(s) : s[k] \in Requests /\ BytesOf(s[k]) \in Seq(Byte)
  BY RequestBytesType
<1>2. ASSUME NEW k \in 0..Len(s)
      PROVE  UnreadSeqs(s, k) \in Seq(Seq(Byte)) /\ Len(UnreadSeqs(s, k)) = Len(s) - k
  BY UnreadSeqsType
<1>3. Unread(s, n) \in Seq(Byte)
  BY <1>2, FlattenType DEF Unread
<1>4. ASSUME n = Len(s) PROVE Unread(s, n) = <<>>
  <2>1. UnreadSeqs(s, n) = <<>>
    BY <1>1, <1>2, <1>4
  <2> QED BY <1>2, <2>1, FlattenType DEF Unread
<1>5. ASSUME n < Len(s)
      PROVE  /\ s[n + 1] \in Requests /\ n + 1 \in 0..Len(s)
             /\ Unread(s, n) = Cat(BytesOf(s[n + 1]), Unread(s, n + 1))
  <2>1. n + 1 \in 1..Len(s) /\ n + 1 \in 0..Len(s)
    BY <1>1, <1>5
  <2> DEFINE b == BytesOf(s[n + 1])
             rest == UnreadSeqs(s, n + 1)
             whole == UnreadSeqs(s, n)
  <2>2. b \in Seq(Byte) /\ s[n + 1] \in Requests
    BY <1>1, <2>1
  <2>3. rest \in Seq(Seq(Byte)) /\ Len(rest) = Len(s) - (n + 1)
    BY <1>2, <2>1
  <2>4. whole \in Seq(Seq(Byte)) /\ Len(whole) = Len(s) - n
    BY <1>2
  <2>5. whole[1] = b /\ \A i \in 1..Len(rest) : whole[i + 1] = rest[i]
    <3>1. whole[1] = b
      BY <1>1, <1>5 DEF UnreadSeqs
    <3>2. ASSUME NEW i \in 1..Len(rest) PROVE whole[i + 1] = rest[i]
      <4>1. i \in 1..(Len(s) - (n + 1)) /\ i + 1 \in 1..(Len(s) - n) /\ n + (i + 1) = (n + 1) + i
        BY <1>1, <1>5, <2>3
      <4> QED BY <4>1 DEF UnreadSeqs
    <3> QED BY <3>1, <3>2
  <2> HIDE DEF b, rest, whole
  <2>6. whole = <<b>> \o rest
    BY <1>1, <1>5, <2>2, <2>3, <2>4, <2>5
  <2>7. FlattenSeq(whole) = Cat(b, FlattenSeq(rest))
    BY <2>2, <2>3, <2>6, FlattenFirst
  <2> QED BY <2>1, <2>2, <2>7 DEF Unread, b, rest, whole
<1>6. ASSUME NEW r \in Requests PROVE Unread(Append(s, r), n) = Cat(Unread(s, n), BytesOf(r))
  <2> DEFINE longer == Append(s, r)
             seqs == UnreadSeqs(s, n)
             whole == UnreadSeqs(longer, n)
             b == BytesOf(r)
  <2>1. longer \in Seq(Requests) /\ Len(longer) = Len(s) + 1 /\ longer[Len(s) + 1] = r
        /\ \A k \in 1..Len(s) : longer[k] = s[k]
    OBVIOUS
  <2>2. b \in Seq(Byte)
    BY RequestBytesType
  <2>3. seqs \in Seq(Seq(Byte)) /\ Len(seqs) = Len(s) - n
    BY <1>2
  <2> HIDE DEF longer
  <2>4. \A i \in 1..(Len(s) - n) : whole[i] = seqs[i]
    <3> SUFFICES ASSUME NEW i \in 1..(Len(s) - n) PROVE whole[i] = seqs[i]
      OBVIOUS
    <3>1. i \in 1..(Len(longer) - n) /\ n + i \in 1..Len(s)
      BY <1>1, <2>1
    <3> QED BY <2>1, <3>1 DEF UnreadSeqs
  <2>5. whole[Len(s) - n + 1] = b
    <3>1. Len(s) - n + 1 \in 1..(Len(longer) - n) /\ n + (Len(s) - n + 1) = Len(s) + 1
      BY <1>1, <2>1
    <3> QED BY <2>1, <3>1 DEF UnreadSeqs
  <2>6. whole \in Seq(Seq(Byte)) /\ Len(whole) = Len(longer) - n
    <3>1. n \in 0..Len(longer)
      BY <1>1, <2>1
    <3> QED BY <2>1, <3>1, UnreadSeqsType
  <2> HIDE DEF b, seqs, whole
  <2>7. whole = Append(seqs, b)
    <3> DEFINE t == Append(seqs, b)
    <3>1. t \in Seq(Seq(Byte)) /\ Len(t) = Len(seqs) + 1 /\ t[Len(seqs) + 1] = b
          /\ \A i \in 1..Len(seqs) : t[i] = seqs[i]
      BY <2>2, <2>3
    <3> HIDE DEF t
    <3>2. Len(whole) = Len(t)
      BY <1>1, <2>1, <2>3, <2>6, <3>1
    <3>3. ASSUME NEW i \in 1..Len(whole) PROVE whole[i] = t[i]
      <4>1. i \in 1..(Len(s) - n) \/ i = Len(s) - n + 1
        BY <1>1, <2>1, <2>6
      <4> QED BY <2>3, <2>4, <2>5, <3>1, <4>1
    <3>4. whole = t
      BY <2>6, <3>1, <3>2, <3>3, SeqEqual
    <3> QED BY <3>4 DEF t
  <2>8. FlattenSeq(whole) = Cat(FlattenSeq(seqs), b)
    BY <2>2, <2>3, <2>7, FlattenLast
  <2> QED BY <2>8 DEF Unread, seqs, whole, b, longer
<1> QED BY <1>3, <1>4, <1>5, <1>6
-----------------------------------------------------------------------------
(* The sums of sizes. *)

\* SumOf holds the sums of the first numbers.
LEMMA SumRuns ==
    ASSUME NEW f \in Seq(Nat)
    PROVE  \E sum \in [0..Len(f) -> Nat] :
              /\ sum[0] = 0 /\ SumOf(f) = sum[Len(f)]
              /\ \A k \in 1..Len(f) : sum[k] = sum[k - 1] + f[k]
<1> DEFINE n == Len(f)
           Is(s) == s = [i \in 0..n |-> IF i = 0 THEN 0 ELSE s[i - 1] + f[i]]
           sum == CHOOSE s : Is(s)
<1>1. n \in Nat /\ \A k \in 1..n : f[k] \in Nat
  OBVIOUS
<1>2. PICK step \in Steps(Nat) :
         \A p \in (Nat \ {0}) \X Nat : step[p] = IF p[1] <= n THEN p[2] + f[p[1]] ELSE p[2]
  <2> DEFINE step == [p \in (Nat \ {0}) \X Nat |-> IF p[1] <= n THEN p[2] + f[p[1]] ELSE p[2]]
  <2>1. ASSUME NEW p \in (Nat \ {0}) \X Nat
        PROVE  (IF p[1] <= n THEN p[2] + f[p[1]] ELSE p[2]) \in Nat
    BY <1>1
  <2>2. step \in [(Nat \ {0}) \X Nat -> Nat]
    BY <2>1
  <2>3. step \in Steps(Nat)
    BY <2>2 DEF Steps
  <2> QED BY <2>3
<1>3. PICK s : Follows(s, n, Nat, 0, step)
  BY <1>1, <1>2, Recursion
<1>4. s \in [0..n -> Nat] /\ s[0] = 0 /\ \A k \in 1..n : s[k] = step[<<k, s[k - 1]>>]
  BY <1>3 DEF Follows
<1>5. Is(s)
  <2>1. ASSUME NEW k \in 0..n PROVE s[k] = IF k = 0 THEN 0 ELSE s[k - 1] + f[k]
    <3>1. CASE k = 0
      BY <1>4, <3>1
    <3>2. CASE k # 0
      <4>1. k \in 1..n /\ k - 1 \in 0..n /\ k \in Nat \ {0} /\ k <= n
        BY <1>1, <3>2
      <4>2. s[k - 1] \in Nat /\ s[k] = step[<<k, s[k - 1]>>]
        BY <1>4, <4>1
      <4>3. <<k, s[k - 1]>> \in (Nat \ {0}) \X Nat
        BY <4>1, <4>2
      <4> QED BY <1>2, <3>2, <4>1, <4>2, <4>3
    <3> QED BY <3>1, <3>2
  <2>2. s = [k \in 0..n |-> s[k]]
    BY <1>4
  <2>3. [k \in 0..n |-> s[k]] = [k \in 0..n |-> IF k = 0 THEN 0 ELSE s[k - 1] + f[k]]
    BY <2>1
  <2> QED BY <2>2, <2>3
<1> HIDE DEF Is
<1>6. Is(sum)
  BY <1>5
<1> HIDE DEF sum
<1>7. sum = [i \in 0..n |-> IF i = 0 THEN 0 ELSE sum[i - 1] + f[i]]
  BY <1>6 DEF Is
<1>8. sum = s
  <2> DEFINE T == {k \in Nat : k <= n => sum[k] = s[k]}
  <2>1. 0 \in T
    BY <1>1, <1>4, <1>7
  <2>2. ASSUME NEW k \in Nat, k \in T PROVE k + 1 \in T
    <3>1. CASE k + 1 <= n
      <4>1. k + 1 \in 0..n /\ k + 1 # 0 /\ (k + 1) - 1 = k /\ k <= n
        BY <1>1, <3>1
      <4>2. sum[k + 1] = sum[k] + f[k + 1]
        BY <1>7, <4>1
      <4>3. s[k + 1] = s[k] + f[k + 1]
        BY <1>5, <4>1 DEF Is
      <4> QED BY <2>2, <4>1, <4>2, <4>3
    <3>2. CASE ~(k + 1 <= n)
      BY <3>2
    <3> QED BY <3>1, <3>2
  <2> HIDE DEF T
  <2>3. Nat \subseteq T
    BY <2>1, <2>2, Induction
  <2>4. \A k \in 0..n : sum[k] = s[k]
    <3>1. \A k \in 0..n : k \in Nat /\ k <= n
      BY <1>1
    <3> QED BY <2>3, <3>1 DEF T
  <2>5. sum = [k \in 0..n |-> sum[k]] /\ s = [k \in 0..n |-> s[k]]
    BY <1>4, <1>7
  <2> QED BY <2>4, <2>5
<1>9. ASSUME NEW k \in 1..n PROVE s[k] = s[k - 1] + f[k]
  <2>1. k \in 0..n /\ k # 0
    BY <1>1
  <2> QED BY <1>5, <2>1 DEF Is
<1>10. SumOf(f) = sum[n]
  BY DEF SumOf, sum, Is
<1> QED BY <1>4, <1>8, <1>9, <1>10

LEMMA SumType == ASSUME NEW f \in Seq(Nat) PROVE SumOf(f) \in Nat
<1>1. Len(f) \in 0..Len(f)
  OBVIOUS
<1> QED BY <1>1, SumRuns

LEMMA WidthsType == Widths \in Seq(Nat) /\ Len(Widths) = 6 /\ SumOf(Widths) \in Nat
                    /\ \A k \in 1..6 : Widths[k] \in 1..4
<1>1. Widths \in Seq(Nat) /\ Len(Widths) = 6 /\ \A k \in 1..6 : Widths[k] \in 1..4
  BY DEF Widths
<1> QED BY <1>1, SumType

LEMMA ValueType == ASSUME NEW v \in Value PROVE ValueBytes(v) \in Seq(Byte) /\ ValueSize(v) \in Nat
<1>1. CASE v = {}
  <2>1. Int32(-1) \in Seq(Byte)
    BY Int32Type
  <2>2. ValueBytes(v) = Int32(-1) /\ ValueSize(v) = 4
    BY <1>1 DEF ValueBytes, ValueSize
  <2> QED BY <2>1, <2>2
<1>2. CASE v # {}
  <2> DEFINE b == ValueOf(v)
  <2>1. b \in v
    BY <1>2 DEF ValueOf
  <2>2. b \in Seq(Byte)
    BY <2>1 DEF Value
  <2> HIDE DEF b
  <2>3. Int32(Len(b)) \in Seq(Byte) /\ Len(b) \in Nat
    BY <2>2, LenProperties, Int32Type
  <2>4. Cat(Int32(Len(b)), b) \in Seq(Byte)
    BY <2>2, <2>3, CatType
  <2>5. ValueBytes(v) = Cat(Int32(Len(b)), b)
    BY <1>2, Zenon DEF ValueBytes, Cat, b
  <2>6. ValueSize(v) = 4 + Len(b)
    BY <1>2 DEF ValueSize, b
  <2> QED BY <2>3, <2>4, <2>5, <2>6
<1> QED BY <1>1, <1>2

-----------------------------------------------------------------------------
(* Pieces, one behind the other, are found again by their sizes. *)

\* The sequences of seqs behind the first n, one behind the other.
RestSeqs(seqs, n) == [i \in 1..(Len(seqs) - n) |-> seqs[n + i]]
Rest(seqs, n) == FlattenSeq(RestSeqs(seqs, n))

LEMMA RestSteps ==
    ASSUME NEW S, NEW seqs \in Seq(Seq(S)), NEW n \in 0..Len(seqs)
    PROVE  /\ Rest(seqs, n) \in Seq(S)
           /\ n = 0 => Rest(seqs, n) = FlattenSeq(seqs)
           /\ n = Len(seqs) => Rest(seqs, n) = <<>>
           /\ n < Len(seqs) => /\ n + 1 \in 1..Len(seqs) /\ seqs[n + 1] \in Seq(S)
                               /\ Rest(seqs, n) = Cat(seqs[n + 1], Rest(seqs, n + 1))
<1>1. Len(seqs) \in Nat /\ \A k \in 1..Len(seqs) : seqs[k] \in Seq(S)
  OBVIOUS
<1>2. ASSUME NEW k \in 0..Len(seqs)
      PROVE  RestSeqs(seqs, k) \in Seq(Seq(S)) /\ Len(RestSeqs(seqs, k)) = Len(seqs) - k
  <2>1. ASSUME NEW i \in 1..(Len(seqs) - k) PROVE seqs[k + i] \in Seq(S)
    <3>1. k + i \in 1..Len(seqs)
      BY <1>1
    <3> QED BY <1>1, <3>1
  <2>2. Len(seqs) - k \in Nat
    BY <1>1
  <2> QED BY <2>1, <2>2 DEF RestSeqs
<1>3. Rest(seqs, n) \in Seq(S)
  BY <1>2, FlattenType DEF Rest
<1>4. ASSUME n = 0 PROVE Rest(seqs, n) = FlattenSeq(seqs)
  <2>1. \A i \in 1..Len(seqs) : RestSeqs(seqs, n)[i] = seqs[i]
    BY <1>1, <1>4 DEF RestSeqs
  <2>2. Len(RestSeqs(seqs, n)) = Len(seqs)
    BY <1>1, <1>2, <1>4
  <2>3. RestSeqs(seqs, n) = seqs
    BY <1>2, <2>1, <2>2, SeqEqual
  <2> QED BY <2>3, Zenon DEF Rest
<1>5. ASSUME n = Len(seqs) PROVE Rest(seqs, n) = <<>>
  <2>1. RestSeqs(seqs, n) = <<>>
    BY <1>1, <1>2, <1>5
  <2> QED BY <1>2, <2>1, FlattenType DEF Rest
<1>6. ASSUME n < Len(seqs)
      PROVE  /\ n + 1 \in 1..Len(seqs) /\ seqs[n + 1] \in Seq(S)
             /\ Rest(seqs, n) = Cat(seqs[n + 1], Rest(seqs, n + 1))
  <2>1. n + 1 \in 1..Len(seqs) /\ n + 1 \in 0..Len(seqs)
    BY <1>1, <1>6
  <2> DEFINE b == seqs[n + 1]
             rest == RestSeqs(seqs, n + 1)
             whole == RestSeqs(seqs, n)
  <2>2. b \in Seq(S)
    BY <1>1, <2>1
  <2>3. rest \in Seq(Seq(S)) /\ Len(rest) = Len(seqs) - (n + 1)
    BY <1>2, <2>1
  <2>4. whole \in Seq(Seq(S)) /\ Len(whole) = Len(seqs) - n
    BY <1>2
  <2>5. whole[1] = b /\ \A i \in 1..Len(rest) : whole[i + 1] = rest[i]
    <3>1. whole[1] = b
      BY <1>1, <1>6 DEF RestSeqs
    <3>2. ASSUME NEW i \in 1..Len(rest) PROVE whole[i + 1] = rest[i]
      <4>1. i \in 1..(Len(seqs) - (n + 1)) /\ i + 1 \in 1..(Len(seqs) - n) /\ n + (i + 1) = (n + 1) + i
        BY <1>1, <1>6, <2>3
      <4> QED BY <4>1 DEF RestSeqs
    <3> QED BY <3>1, <3>2
  <2> HIDE DEF b, rest, whole
  <2>6. whole = <<b>> \o rest
    <3> DEFINE w == <<b>> \o rest
    <3>1. w \in Seq(Seq(S)) /\ Len(w) = Len(rest) + 1 /\ w[1] = b
          /\ \A i \in 1..Len(rest) : w[i + 1] = rest[i]
      BY <2>2, <2>3
    <3> HIDE DEF w
    <3>2. Len(whole) = Len(w)
      BY <1>1, <2>3, <2>4, <3>1
    <3>3. ASSUME NEW i \in 1..Len(whole) PROVE whole[i] = w[i]
      <4>1. i = 1 \/ (i - 1 \in 1..Len(rest) /\ i = (i - 1) + 1)
        BY <2>3, <2>4, <3>1, <3>2
      <4> QED BY <2>5, <3>1, <4>1
    <3>4. whole = w
      BY <2>4, <3>1, <3>2, <3>3, SeqEqual
    <3> QED BY <3>4 DEF w
  <2>7. FlattenSeq(whole) = Cat(b, FlattenSeq(rest))
    BY <2>2, <2>3, <2>6, FlattenFirst
  <2> QED BY <2>1, <2>2, <2>7 DEF Rest, b, rest, whole
<1> QED BY <1>3, <1>4, <1>5, <1>6

\* Each piece gives its own size, whatever is written behind it.
Sized(size, seqs) ==
    /\ seqs \in Seq(Seq(Byte))
    /\ \A i \in 1..Len(seqs) : /\ Len(seqs[i]) >= 1
                               /\ \A t \in Seq(Byte) : size[Cat(seqs[i], t)] = Len(seqs[i])

LEMMA PiecesFound ==
    ASSUME NEW size, NEW seqs, Sized(size, seqs)
    PROVE  /\ Cuts(size, FlattenSeq(seqs), Len(seqs))
           /\ \A i \in 1..Len(seqs) : Piece(size, FlattenSeq(seqs), i) = seqs[i]
<1> DEFINE body == [s \in Seq(Byte) |-> IF size[s] \in 1..Len(s) THEN From(s, size[s] + 1) ELSE <<>>]
           b == FlattenSeq(seqs)
           n == Len(seqs)
           T == {k \in Nat : k <= n => Behind(size, b, k) = Rest(seqs, k)}
<1>1. seqs \in Seq(Seq(Byte)) /\ n \in Nat
      /\ \A i \in 1..n : /\ seqs[i] \in Seq(Byte) /\ Len(seqs[i]) >= 1
                         /\ \A t \in Seq(Byte) : size[Cat(seqs[i], t)] = Len(seqs[i])
  BY DEF Sized
<1>2. b \in Seq(Byte)
  BY <1>1, FlattenType
<1>3. body \in [Seq(Byte) -> Seq(Byte)]
  <2> SUFFICES ASSUME NEW s \in Seq(Byte)
               PROVE  (IF size[s] \in 1..Len(s) THEN From(s, size[s] + 1) ELSE <<>>) \in Seq(Byte)
    OBVIOUS
  <2>1. CASE size[s] \in 1..Len(s)
    <3>1. size[s] + 1 \in Nat \ {0}
      BY <2>1
    <3> QED BY <2>1, <3>1, FromType
  <2> QED BY <2>1
<1>4. \A k \in Nat : Behind(size, b, k) = Iterated(body, b, k)
  BY Zenon DEF Behind
<1>5. Iterated(body, b, 0) = b
      /\ \A k \in Nat : Iterated(body, b, k) \in Seq(Byte) /\ Iterated(body, b, k + 1) = body[Iterated(body, b, k)]
  BY <1>2, <1>3, IteratedRounds
<1>6. ASSUME NEW k \in Nat, k < n
      PROVE  LET s == Rest(seqs, k)
             IN  /\ s \in Seq(Byte) /\ size[s] \in 1..Len(s) /\ SubSeq(s, 1, size[s]) = seqs[k + 1]
                 /\ body[s] = Rest(seqs, k + 1)
  <2>1. k \in 0..n /\ k + 1 \in 0..n /\ k + 1 \in 1..n
    BY <1>1, <1>6
  <2> DEFINE p == seqs[k + 1]
             t == Rest(seqs, k + 1)
             s == Rest(seqs, k)
  <2>2. s = Cat(p, t) /\ s \in Seq(Byte) /\ t \in Seq(Byte)
    BY <1>1, <1>6, <2>1, RestSteps
  <2>3. p \in Seq(Byte) /\ Len(p) >= 1 /\ size[Cat(p, t)] = Len(p)
    BY <1>1, <2>1, <2>2
  <2> HIDE DEF p, t, s
  <2>4. Len(Cat(p, t)) = Len(p) + Len(t) /\ Len(p) \in Nat /\ Len(t) \in Nat
    BY <2>2, <2>3, CatLen
  <2>5. SubSeq(Cat(p, t), 1, Len(p)) = p /\ From(Cat(p, t), Len(p) + 1) = t
    BY <2>2, <2>3, CatCut
  <2>6. Len(p) \in 1..Len(Cat(p, t))
    BY <2>3, <2>4
  <2>7. size[s] = Len(p) /\ size[s] \in 1..Len(s) /\ SubSeq(s, 1, size[s]) = p /\ From(s, size[s] + 1) = t
    BY <2>2, <2>3, <2>5, <2>6, Zenon
  <2>8. body[s] = t
    BY <2>2, <2>7, Zenon
  <2> HIDE DEF body
  <2> QED BY <2>2, <2>7, <2>8, Zenon DEF p, t, s
<1> HIDE DEF body
<1>7. 0 \in T
  <2>1. Rest(seqs, 0) = b
    BY <1>1, RestSteps
  <2> QED BY <1>4, <1>5, <2>1
<1>8. ASSUME NEW k \in Nat, k \in T PROVE k + 1 \in T
  <2>1. CASE k + 1 <= n
    <3>1. k < n /\ k <= n
      BY <1>1, <2>1
    <3>2. Behind(size, b, k) = Rest(seqs, k)
      BY <1>8, <3>1
    <3>3. Behind(size, b, k + 1) = body[Rest(seqs, k)]
      <4>1. Behind(size, b, k + 1) = Iterated(body, b, k + 1) /\ Behind(size, b, k) = Iterated(body, b, k)
        BY <1>4
      <4>2. Iterated(body, b, k + 1) = body[Iterated(body, b, k)]
        BY <1>5
      <4> HIDE DEF b
      <4> QED BY <3>2, <4>1, <4>2, Zenon
    <3>4. body[Rest(seqs, k)] = Rest(seqs, k + 1)
      BY <1>6, <3>1
    <3> QED BY <3>3, <3>4
  <2>2. CASE ~(k + 1 <= n)
    BY <2>2
  <2> QED BY <2>1, <2>2
<1>9. ASSUME NEW k \in 0..n PROVE Behind(size, b, k) = Rest(seqs, k)
  <2> HIDE DEF T
  <2>1. k \in T
    BY <1>7, <1>8, Induction
  <2> QED BY <2>1 DEF T
<1>10. Behind(size, b, n) = <<>>
  <2>1. Rest(seqs, n) = <<>>
    BY <1>1, RestSteps
  <2> QED BY <1>1, <1>9, <2>1
<1>11. ASSUME NEW i \in 1..n
       PROVE  LET s == Behind(size, b, i - 1) IN size[s] \in 1..Len(s) /\ SubSeq(s, 1, size[s]) = seqs[i]
  <2>1. i - 1 \in Nat /\ i - 1 < n /\ (i - 1) + 1 = i /\ i - 1 \in 0..n
    BY <1>1
  <2>2. Behind(size, b, i - 1) = Rest(seqs, i - 1)
    BY <1>9, <2>1
  <2>3. LET s == Rest(seqs, i - 1) IN size[s] \in 1..Len(s) /\ SubSeq(s, 1, size[s]) = seqs[i]
    BY <1>6, <2>1
  <2> QED BY <2>2, <2>3, Zenon
<1> QED BY <1>10, <1>11, Zenon DEF Cuts, Piece

-----------------------------------------------------------------------------
(* Lengths and places in a concatenation. *)

LEMMA ConcatenationRuns ==
    ASSUME NEW S, NEW seqs \in Seq(Seq(S)), NEW g, Concatenates(g, seqs, S)
    PROVE  /\ Len(seqs) \in Nat /\ g[0] = <<>> /\ FlattenSeq(seqs) = g[Len(seqs)]
           /\ \A k \in 0..Len(seqs) : g[k] \in Seq(S)
           /\ \A k \in 1..Len(seqs) : g[k] = Cat(g[k - 1], seqs[k]) /\ seqs[k] \in Seq(S)
<1>1. g \in [0..Len(seqs) -> Seq(S)] /\ g[0] = <<>>
      /\ \A k \in 1..Len(seqs) : g[k] = g[k - 1] \o seqs[k]
  BY Zenon DEF Concatenates
<1>2. Len(seqs) \in Nat /\ \A k \in 1..Len(seqs) : seqs[k] \in Seq(S)
  OBVIOUS
<1>3. \A k \in 1..Len(seqs) : g[k] = Cat(g[k - 1], seqs[k])
  BY <1>1, Zenon DEF Cat
<1>4. FlattenSeq(seqs) = g[Len(seqs)]
  BY FlattenIs
<1> QED BY <1>1, <1>2, <1>3, <1>4, Zenon

LEMMA FlattenLength ==
    ASSUME NEW S, NEW seqs \in Seq(Seq(S)), NEW f \in Seq(Nat), Len(f) = Len(seqs),
           \A k \in 1..Len(seqs) : f[k] = Len(seqs[k])
    PROVE  Len(FlattenSeq(seqs)) = SumOf(f)
<1> DEFINE n == Len(seqs)
<1>1. PICK g : Concatenates(g, seqs, S)
  BY ConcatenationExists
<1>2. /\ n \in Nat /\ g[0] = <<>> /\ FlattenSeq(seqs) = g[n] /\ \A k \in 0..n : g[k] \in Seq(S)
      /\ \A k \in 1..n : g[k] = Cat(g[k - 1], seqs[k]) /\ seqs[k] \in Seq(S)
  BY <1>1, ConcatenationRuns
<1>3. \E sum \in [0..n -> Nat] : /\ sum[0] = 0 /\ SumOf(f) = sum[n]
                                 /\ \A k \in 1..n : sum[k] = sum[k - 1] + f[k]
  <2>1. \E sum \in [0..Len(f) -> Nat] : /\ sum[0] = 0 /\ SumOf(f) = sum[Len(f)]
                                        /\ \A k \in 1..Len(f) : sum[k] = sum[k - 1] + f[k]
    BY SumRuns
  <2> QED BY <2>1, Zenon
<1> PICK sum \in [0..n -> Nat] : /\ sum[0] = 0 /\ SumOf(f) = sum[n]
                                /\ \A k \in 1..n : sum[k] = sum[k - 1] + f[k]
  BY <1>3
<1> DEFINE T == {k \in Nat : k <= n => Len(g[k]) = sum[k]}
<1>4. 0 \in T
  BY <1>2
<1>5. ASSUME NEW k \in Nat, k \in T PROVE k + 1 \in T
  <2>1. CASE k + 1 <= n
    <3>1. k + 1 \in 1..n /\ (k + 1) - 1 = k /\ k \in 0..n /\ k <= n
      BY <1>2, <2>1
    <3>2. g[k + 1] = Cat(g[k], seqs[k + 1]) /\ g[k] \in Seq(S) /\ seqs[k + 1] \in Seq(S)
      BY <1>2, <3>1
    <3>3. Len(Cat(g[k], seqs[k + 1])) = Len(g[k]) + Len(seqs[k + 1])
      BY <3>2, CatLen
    <3>4. sum[k + 1] = sum[k] + f[k + 1] /\ f[k + 1] = Len(seqs[k + 1])
      BY <3>1
    <3>5. Len(g[k]) = sum[k]
      BY <1>5, <3>1
    <3>6. Len(g[k + 1]) = sum[k + 1]
      BY <3>2, <3>3, <3>4, <3>5, Zenon
    <3> QED BY <3>6
  <2>2. CASE ~(k + 1 <= n)
    BY <2>2
  <2> QED BY <2>1, <2>2
<1> HIDE DEF T
<1>6. n \in T
  BY <1>2, <1>4, <1>5, Induction
<1>7. Len(g[n]) = sum[n]
  BY <1>2, <1>6 DEF T
<1> QED BY <1>2, <1>7, Zenon

LEMMA Middle ==
    ASSUME NEW S, NEW a \in Seq(S), NEW b \in Seq(S), NEW c \in Seq(S)
    PROVE  SubSeq(Cat(Cat(a, b), c), Len(a) + 1, Len(a) + Len(b)) = b
<1> DEFINE s == Cat(Cat(a, b), c)
           t == SubSeq(s, Len(a) + 1, Len(a) + Len(b))
<1>1. s = (a \o b) \o c
  BY Zenon DEF Cat
<1>2. s \in Seq(S) /\ Len(s) = Len(a) + Len(b) + Len(c) /\ \A i \in 1..Len(b) : s[Len(a) + i] = b[i]
  BY <1>1
<1>3. Len(a) \in Nat /\ Len(b) \in Nat /\ Len(c) \in Nat
  OBVIOUS
<1> HIDE DEF s
<1>4. Len(t) = Len(b) /\ \A i \in 1..Len(b) : t[i] = s[Len(a) + i]
  BY <1>2, <1>3
<1>5. t \in Seq(S)
  BY <1>2, <1>3
<1> HIDE DEF t
<1>6. t = b
  BY <1>2, <1>4, <1>5, SeqEqual
<1> QED BY <1>6 DEF t, s

LEMMA PartsFound ==
    ASSUME NEW S, NEW seqs \in Seq(Seq(S)), NEW g, Concatenates(g, seqs, S), NEW k \in 1..Len(seqs)
    PROVE  /\ Len(g[k - 1]) \in Nat /\ Len(g[k]) = Len(g[k - 1]) + Len(seqs[k])
           /\ SubSeq(FlattenSeq(seqs), Len(g[k - 1]) + 1, Len(g[k])) = seqs[k]
           /\ Len(seqs[k]) <= Len(FlattenSeq(seqs))
<1> DEFINE n == Len(seqs)
<1>1. /\ n \in Nat /\ FlattenSeq(seqs) = g[n] /\ \A i \in 0..n : g[i] \in Seq(S)
      /\ \A i \in 1..n : g[i] = Cat(g[i - 1], seqs[i]) /\ seqs[i] \in Seq(S)
  BY ConcatenationRuns
<1>2. k - 1 \in 0..n /\ k \in 0..n /\ g[k - 1] \in Seq(S) /\ g[k] \in Seq(S)
      /\ seqs[k] \in Seq(S) /\ g[k] = Cat(g[k - 1], seqs[k])
  BY <1>1
<1> DEFINE T == {j \in Nat : k + j <= n => \E u \in Seq(S) : g[k + j] = Cat(g[k], u)}
<1>3. 0 \in T
  <2>1. <<>> \in Seq(S) /\ g[k] = Cat(g[k], <<>>) /\ k + 0 = k
    BY <1>2, CatEmpty
  <2> QED BY <2>1
<1>4. ASSUME NEW j \in Nat, j \in T PROVE j + 1 \in T
  <2> SUFFICES ASSUME k + (j + 1) <= n PROVE \E u \in Seq(S) : g[k + (j + 1)] = Cat(g[k], u)
    OBVIOUS
  <2>1. k + j <= n /\ k + (j + 1) \in 1..n /\ (k + (j + 1)) - 1 = k + j
    BY <1>1
  <2>2. PICK u \in Seq(S) : g[k + j] = Cat(g[k], u)
    BY <1>4, <2>1
  <2>3. g[k + (j + 1)] = Cat(Cat(g[k], u), seqs[k + (j + 1)]) /\ seqs[k + (j + 1)] \in Seq(S)
    BY <1>1, <2>1, <2>2
  <2>4. PICK v \in Seq(S) : v = seqs[k + (j + 1)]
    BY <2>3
  <2>5. Cat(Cat(g[k], u), v) = Cat(g[k], Cat(u, v)) /\ Cat(u, v) \in Seq(S)
    BY <1>2, CatAssoc, CatType
  <2> QED BY <2>3, <2>4, <2>5
<1> HIDE DEF T
<1>5. PICK u \in Seq(S) : g[n] = Cat(g[k], u)
  <2>1. n - k \in Nat /\ k + (n - k) = n
    BY <1>1
  <2>2. n - k \in T
    BY <1>3, <1>4, <2>1, Induction
  <2> QED BY <2>1, <2>2 DEF T
<1>6. FlattenSeq(seqs) = Cat(Cat(g[k - 1], seqs[k]), u)
  BY <1>1, <1>2, <1>5
<1> DEFINE a == g[k - 1]
           p == seqs[k]
<1> HIDE DEF a, p
<1>7. Len(Cat(a, p)) = Len(a) + Len(p) /\ Len(a) \in Nat /\ a \in Seq(S) /\ p \in Seq(S)
  BY <1>2, CatLen DEF a, p
<1>8. SubSeq(Cat(Cat(a, p), u), Len(a) + 1, Len(a) + Len(p)) = p
  BY <1>7, Middle
<1>9. Len(p) <= Len(Cat(Cat(a, p), u))
  <2>1. Cat(a, p) \in Seq(S)
    BY <1>7, CatType
  <2>2. Len(Cat(Cat(a, p), u)) = Len(Cat(a, p)) + Len(u) /\ Len(u) \in Nat
    BY <2>1, CatLen
  <2>3. Len(p) \in Nat
    BY <1>7, LenProperties
  <2> QED BY <1>7, <2>2, <2>3
<1> QED BY <1>2, <1>6, <1>7, <1>8, <1>9, Zenon DEF a, p

-----------------------------------------------------------------------------
(* Numbers, with a sign and without one. *)

LEMMA Bytes2 ==
    ASSUME NEW n \in Int, NEW b, b = Bytes(n, 2)
    PROVE  Len(b) = 2 /\ b[1] = (n \div 256) % 256 /\ b[2] = n % 256
<1>1. b = [i \in 1..2 |-> (n \div Place[4 - 2 + i]) % 256]
  BY DEF Bytes
<1>2. n \div 1 = n
  OBVIOUS
<1> QED BY <1>1, <1>2, Places

LEMMA Bytes4 ==
    ASSUME NEW n \in Int, NEW b, b = Bytes(n, 4), NEW h, h = n \div (256 * (256 * 256))
    PROVE  /\ Len(b) = 4 /\ b[1] = h % 256 /\ b[2] = (n \div (256 * 256)) % 256
           /\ b[3] = (n \div 256) % 256 /\ b[4] = n % 256 /\ h \in Int
<1>1. b = [i \in 1..4 |-> (n \div Place[4 - 4 + i]) % 256]
  BY DEF Bytes
<1>2. n \div 1 = n
  OBVIOUS
<1>3. b = [i \in 1..4 |-> (n \div Place[i]) % 256]
  BY <1>1
<1>4. h \in Int
  OBVIOUS
<1> QED BY <1>2, <1>3, <1>4, Places

\* How the high byte h of a number is read again.
LEMMA HighByte ==
    ASSUME NEW h \in Int
    PROVE  /\ h \in -128..127 => (IF h % 256 >= 128 THEN (h % 256) - 256 ELSE h % 256) = h
           /\ h \in 0..255 => h % 256 = h
OBVIOUS

LEMMA Split2 == ASSUME NEW n \in Int PROVE n = 256 * (n \div 256) + (n % 256) /\ n \div 256 \in Int /\ n % 256 \in Int
OBVIOUS

LEMMA Split4 ==
    ASSUME NEW n \in Int
    PROVE  n = (256 * 256) * (256 * (n \div (256 * (256 * 256))) + ((n \div (256 * 256)) % 256))
               + 256 * ((n \div 256) % 256) + (n % 256)
<1>1. n = 256 * (n \div 256) + (n % 256)
  OBVIOUS
<1>2. n \div 256 = 256 * (n \div (256 * 256)) + ((n \div 256) % 256)
  OBVIOUS
<1>3. n \div (256 * 256) = 256 * (n \div (256 * (256 * 256))) + ((n \div (256 * 256)) % 256)
  OBVIOUS
<1>4. n \div (256 * (256 * 256)) \in Int /\ (n \div (256 * 256)) % 256 \in Int /\ (n \div 256) % 256 \in Int
      /\ n % 256 \in Int
  OBVIOUS
<1>5. \A a, b, c, d, e, f \in Int :
         n = 256 * a + d /\ a = 256 * e + c /\ e = 256 * f + b
            => n = (256 * 256) * (256 * f + b) + 256 * c + d
  OBVIOUS
<1>6. n \div 256 \in Int /\ n \div (256 * 256) \in Int
  OBVIOUS
<1> QED BY <1>1, <1>2, <1>3, <1>4, <1>5, <1>6

LEMMA SignedRoundTrip ==
    ASSUME NEW n \in Int, NEW w \in {2, 4}, n \div Place[5 - w] \in -128..127
    PROVE  Number(Bytes(n, w)) = n
<1>1. CASE w = 2
  <2> DEFINE b == Bytes(n, 2)
             h == n \div 256
  <2>1. Len(b) = 2 /\ b[1] = h % 256 /\ b[2] = n % 256
    BY Bytes2
  <2>2. h \in Int /\ h \in -128..127
    BY <1>1, Places
  <2> HIDE DEF b, h
  <2>3. Number(b) = 256 * (IF b[1] >= 128 THEN b[1] - 256 ELSE b[1]) + b[2]
    BY <2>1 DEF Number
  <2>4. (IF b[1] >= 128 THEN b[1] - 256 ELSE b[1]) = h
    BY <2>1, <2>2, HighByte
  <2>5. Number(b) = 256 * h + (n % 256)
    BY <2>1, <2>3, <2>4, Zenon
  <2> QED BY <1>1, <2>5, Split2 DEF b, h
<1>2. CASE w = 4
  <2> DEFINE b == Bytes(n, 4)
             h == n \div (256 * (256 * 256))
  <2>1. Len(b) = 4 /\ b[1] = h % 256 /\ b[2] = (n \div (256 * 256)) % 256
        /\ b[3] = (n \div 256) % 256 /\ b[4] = n % 256
    <3>1. PICK y, z : y = b /\ z = h
      OBVIOUS
    <3>2. y = Bytes(n, 4) /\ z = n \div (256 * (256 * 256))
      BY <3>1, Zenon
    <3> HIDE DEF b, h
    <3>3. /\ Len(y) = 4 /\ y[1] = z % 256 /\ y[2] = (n \div (256 * 256)) % 256
          /\ y[3] = (n \div 256) % 256 /\ y[4] = n % 256
      BY <3>2, Bytes4
    <3> QED BY <3>1, <3>3, Zenon
  <2>2. h \in Int /\ h \in -128..127
    BY <1>2, Places
  <2> HIDE DEF b, h
  <2>3. Number(b) = (256 * 256) * (256 * (IF b[1] >= 128 THEN b[1] - 256 ELSE b[1]) + b[2]) + 256 * b[3] + b[4]
    BY <2>1, Places DEF Number
  <2>4. (IF b[1] >= 128 THEN b[1] - 256 ELSE b[1]) = h
    BY <2>1, <2>2, HighByte
  <2>5. Number(b) = (256 * 256) * (256 * h + ((n \div (256 * 256)) % 256)) + 256 * ((n \div 256) % 256) + (n % 256)
    BY <2>1, <2>3, <2>4
  <2>6. n = (256 * 256) * (256 * h + ((n \div (256 * 256)) % 256)) + 256 * ((n \div 256) % 256) + (n % 256)
    BY Split4 DEF h
  <2> QED BY <1>2, <2>5, <2>6 DEF b
<1> QED BY <1>1, <1>2

LEMMA UnsignedRoundTrip ==
    ASSUME NEW n \in Int, NEW w \in {2, 4}, n \div Place[5 - w] \in 0..255
    PROVE  Unsigned(Bytes(n, w)) = n
<1>1. CASE w = 2
  <2> DEFINE b == Bytes(n, 2)
             h == n \div 256
  <2>1. Len(b) = 2 /\ b[1] = h % 256 /\ b[2] = n % 256
    BY Bytes2
  <2>2. h \in Int /\ h \in 0..255
    BY <1>1, Places
  <2> HIDE DEF b, h
  <2>3. b[1] = h
    BY <2>1, <2>2, HighByte
  <2>4. Unsigned(b) = 256 * h + (n % 256)
    BY <2>1, <2>3 DEF Unsigned
  <2> QED BY <1>1, <2>4, Split2 DEF b, h
<1>2. CASE w = 4
  <2> DEFINE b == Bytes(n, 4)
             h == n \div (256 * (256 * 256))
  <2>1. Len(b) = 4 /\ b[1] = h % 256 /\ b[2] = (n \div (256 * 256)) % 256
        /\ b[3] = (n \div 256) % 256 /\ b[4] = n % 256
    <3>1. PICK y, z : y = b /\ z = h
      OBVIOUS
    <3>2. y = Bytes(n, 4) /\ z = n \div (256 * (256 * 256))
      BY <3>1, Zenon
    <3> HIDE DEF b, h
    <3>3. /\ Len(y) = 4 /\ y[1] = z % 256 /\ y[2] = (n \div (256 * 256)) % 256
          /\ y[3] = (n \div 256) % 256 /\ y[4] = n % 256
      BY <3>2, Bytes4
    <3> QED BY <3>1, <3>3, Zenon
  <2>2. h \in Int /\ h \in 0..255
    BY <1>2, Places
  <2> HIDE DEF b, h
  <2>3. b[1] = h
    BY <2>1, <2>2, HighByte
  <2>4. Unsigned(b) = (256 * 256) * (256 * h + ((n \div (256 * 256)) % 256)) + 256 * ((n \div 256) % 256) + (n % 256)
    BY <2>1, <2>3, Places DEF Unsigned
  <2>5. n = (256 * 256) * (256 * h + ((n \div (256 * 256)) % 256)) + 256 * ((n \div 256) % 256) + (n % 256)
    BY Split4 DEF h
  <2> QED BY <1>2, <2>4, <2>5 DEF b
<1> QED BY <1>1, <1>2

-----------------------------------------------------------------------------
(* Columns and values. *)

NumsBytes(f) == [k \in DOMAIN Widths |-> Bytes(f.nums[k], Widths[k])]
Nums(f) == FlattenSeq(NumsBytes(f))

LEMMA WidthsAre ==
    /\ DOMAIN Widths = 1..6
    /\ Widths[1] = 4 /\ Widths[2] = 2 /\ Widths[3] = 4 /\ Widths[4] = 2 /\ Widths[5] = 4 /\ Widths[6] = 2
    /\ Offsets[1] = 0 /\ Offsets[2] = 4 /\ Offsets[3] = 6 /\ Offsets[4] = 10 /\ Offsets[5] = 12 /\ Offsets[6] = 16
    /\ \A k \in 1..6 : Widths[k] \in {2, 4} /\ Signed[k] \in BOOLEAN
BY DEF Widths, Offsets, Signed

LEMMA NumbersFound ==
    ASSUME NEW f \in FieldDescription
    PROVE  /\ Nums(f) \in Seq(Byte) /\ Len(Nums(f)) = SumOf(Widths)
           /\ \A k \in 1..6 : SubSeq(Nums(f), Offsets[k] + 1, Offsets[k] + Widths[k]) = Bytes(f.nums[k], Widths[k])
<1> DEFINE seqs == NumsBytes(f)
<1>1. \A k \in 1..6 : f.nums[k] \in Int /\ Bytes(f.nums[k], Widths[k]) \in Seq(Byte)
                      /\ Len(Bytes(f.nums[k], Widths[k])) = Widths[k]
  <2> SUFFICES ASSUME NEW k \in 1..6
               PROVE  f.nums[k] \in Int /\ Bytes(f.nums[k], Widths[k]) \in Seq(Byte)
                      /\ Len(Bytes(f.nums[k], Widths[k])) = Widths[k]
    OBVIOUS
  <2>1. f.nums[k] \in Int /\ Widths[k] \in 1..4
    BY WidthsType DEF FieldDescription
  <2> QED BY <2>1, BytesType
<1>2. seqs = [k \in 1..6 |-> Bytes(f.nums[k], Widths[k])]
  BY WidthsAre, Zenon DEF NumsBytes
<1> HIDE DEF seqs
<1>3. seqs \in Seq(Seq(Byte)) /\ Len(seqs) = 6 /\ \A k \in 1..6 : seqs[k] = Bytes(f.nums[k], Widths[k])
  BY <1>1, <1>2
<1>4. \A k \in 1..6 : Len(seqs[k]) = Widths[k]
  BY <1>1, <1>3
<1>5. Nums(f) = FlattenSeq(seqs)
  BY Zenon DEF Nums, seqs
<1>6. Nums(f) \in Seq(Byte)
  BY <1>3, <1>5, FlattenType
<1>7. Len(Nums(f)) = SumOf(Widths)
  <2>1. Widths \in Seq(Nat) /\ Len(Widths) = Len(seqs)
    BY <1>3, WidthsType
  <2>2. \A k \in 1..Len(seqs) : Widths[k] = Len(seqs[k])
    BY <1>3, <1>4
  <2> QED BY <1>3, <1>5, <2>1, <2>2, FlattenLength
<1>8. PICK g : Concatenates(g, seqs, Byte)
  BY <1>3, ConcatenationExists
<1>9. \A k \in 1..6 : /\ Len(g[k - 1]) \in Nat /\ Len(g[k]) = Len(g[k - 1]) + Widths[k]
                      /\ SubSeq(Nums(f), Len(g[k - 1]) + 1, Len(g[k])) = seqs[k]
  <2> SUFFICES ASSUME NEW k \in 1..6
               PROVE  /\ Len(g[k - 1]) \in Nat /\ Len(g[k]) = Len(g[k - 1]) + Widths[k]
                      /\ SubSeq(Nums(f), Len(g[k - 1]) + 1, Len(g[k])) = seqs[k]
    OBVIOUS
  <2>1. k \in 1..Len(seqs)
    BY <1>3
  <2>2. Len(g[k - 1]) \in Nat /\ Len(g[k]) = Len(g[k - 1]) + Len(seqs[k])
        /\ SubSeq(FlattenSeq(seqs), Len(g[k - 1]) + 1, Len(g[k])) = seqs[k]
    <3>1. seqs \in Seq(Seq(Byte)) /\ Concatenates(g, seqs, Byte)
      BY <1>3, <1>8
    <3> QED BY <2>1, <3>1, PartsFound
  <2> QED BY <1>4, <1>5, <2>2
<1>10. Len(g[0]) = 0
  <2>1. g[0] = <<>>
    BY <1>8 DEF Concatenates
  <2> QED BY <2>1
<1>11. \A k \in 1..6 : Len(g[k - 1]) = Offsets[k] /\ Len(g[k]) = Offsets[k] + Widths[k]
  <2> DEFINE at(k) == Len(g[k])
  <2>1. at(0) = 0 /\ \A k \in 1..6 : at(k - 1) \in Nat /\ at(k) = at(k - 1) + Widths[k]
    BY <1>9, <1>10
  <2> HIDE DEF at
  <2>2. at(1) = at(0) + 4 /\ at(2) = at(1) + 2 /\ at(3) = at(2) + 4 /\ at(4) = at(3) + 2
        /\ at(5) = at(4) + 4 /\ at(6) = at(5) + 2
    <3>1. at(1) = at(1 - 1) + Widths[1] /\ at(2) = at(2 - 1) + Widths[2] /\ at(3) = at(3 - 1) + Widths[3]
          /\ at(4) = at(4 - 1) + Widths[4] /\ at(5) = at(5 - 1) + Widths[5] /\ at(6) = at(6 - 1) + Widths[6]
      BY <2>1
    <3> QED BY <3>1, WidthsAre
  <2>3. at(0) = 0 /\ at(1) = 4 /\ at(2) = 6 /\ at(3) = 10 /\ at(4) = 12 /\ at(5) = 16 /\ at(6) = 18
    BY <2>1, <2>2
  <2>4. \A k \in 1..6 : at(k - 1) = Offsets[k] /\ at(k) = Offsets[k] + Widths[k]
    <3> SUFFICES ASSUME NEW k \in 1..6 PROVE at(k - 1) = Offsets[k] /\ at(k) = Offsets[k] + Widths[k]
      OBVIOUS
    <3>1. k = 1 \/ k = 2 \/ k = 3 \/ k = 4 \/ k = 5 \/ k = 6
      OBVIOUS
    <3> QED BY <2>3, <3>1, WidthsAre
  <2> QED BY <2>4 DEF at
<1>12. ASSUME NEW k \in 1..6
       PROVE  SubSeq(Nums(f), Offsets[k] + 1, Offsets[k] + Widths[k]) = Bytes(f.nums[k], Widths[k])
  <2>1. SubSeq(Nums(f), Len(g[k - 1]) + 1, Len(g[k])) = seqs[k]
    BY <1>9
  <2>2. Len(g[k - 1]) = Offsets[k] /\ Len(g[k]) = Offsets[k] + Widths[k] /\ seqs[k] = Bytes(f.nums[k], Widths[k])
    BY <1>3, <1>11
  <2> QED BY <2>1, <2>2, Zenon
<1> QED BY <1>6, <1>7, <1>12

\* A column says where it ends, and is read as it was written.
LEMMA ColumnRoundTrip ==
    ASSUME NEW f \in FieldDescription
    PROVE  /\ FieldBytes(f) \in Seq(Byte) /\ Len(FieldBytes(f)) = Len(f.name) + 1 + SumOf(Widths)
           /\ Len(FieldBytes(f)) >= 1 /\ Len(f.name) \in Nat
           /\ \A t \in Seq(Byte) : ColumnSize[Cat(FieldBytes(f), t)] = Len(FieldBytes(f))
           /\ DecodeColumn(FieldBytes(f)) = f
<1> DEFINE name == CString(f.name)
           nums == Nums(f)
           b == Cat(name, nums)
<1>1. b = FieldBytes(f)
  BY Zenon DEF FieldBytes, Nums, NumsBytes, Cat
<1>2. /\ f.name \in Text /\ f.nums \in [1..6 -> Int] /\ \A k \in 1..6 : FitsIn(f.nums[k], k)
      /\ f = [name |-> f.name, nums |-> f.nums]
  BY DEF FieldDescription
<1>3. nums \in Seq(Byte) /\ Len(nums) = SumOf(Widths) /\ SumOf(Widths) \in Nat
  BY NumbersFound, WidthsType
<1>4. \A k \in 1..6 : SubSeq(nums, Offsets[k] + 1, Offsets[k] + Widths[k]) = Bytes(f.nums[k], Widths[k])
  BY NumbersFound
<1> HIDE DEF nums
<1>5. name \in Seq(Byte) /\ Len(name) = Len(f.name) + 1 /\ Len(f.name) \in Nat
      /\ UpToNul(b) = f.name /\ IndexOf(b, {0}) = Len(f.name) + 1 /\ From(b, Len(f.name) + 2) = nums
  BY <1>2, <1>3, NulEnds
<1> HIDE DEF name
<1>6. b \in Seq(Byte) /\ Len(b) = Len(f.name) + 1 + SumOf(Widths)
  <2>1. b \in Seq(Byte)
    BY <1>3, <1>5, CatType
  <2>2. Len(b) = Len(name) + Len(nums)
    BY <1>3, <1>5, CatLen
  <2> QED BY <1>3, <1>5, <2>1, <2>2
<1>7. ASSUME NEW t \in Seq(Byte) PROVE ColumnSize[Cat(b, t)] = Len(b)
  <2>1. Cat(b, t) = Cat(name, Cat(nums, t)) /\ Cat(nums, t) \in Seq(Byte)
    BY <1>3, <1>5, CatAssoc, CatType
  <2>2. IndexOf(Cat(b, t), {0}) = Len(f.name) + 1
    BY <1>2, <2>1, NulEnds DEF name
  <2>3. Cat(b, t) \in Seq(Byte)
    BY <1>6, CatType
  <2>4. ColumnSize[Cat(b, t)] = Len(f.name) + 1 + SumOf(Widths)
    <3> DEFINE i == IndexOf(Cat(b, t), {0})
    <3>1. ColumnSize[Cat(b, t)] = IF i = 0 THEN 0 ELSE i + SumOf(Widths)
      BY <2>3, Zenon DEF ColumnSize
    <3> HIDE DEF i
    <3>2. i = Len(f.name) + 1
      BY <2>2 DEF i
    <3>3. i # 0
      BY <1>5, <3>2
    <3> QED BY <3>1, <3>2, <3>3, Zenon
  <2> QED BY <1>6, <2>4, Zenon
<1>8. DecodeColumn(b) = f
  <2> DEFINE num(k) == SubSeq(nums, Offsets[k] + 1, Offsets[k] + Widths[k])
  <2>1. From(b, IndexOf(b, {0}) + 1) = nums
    <3>1. IndexOf(b, {0}) + 1 = Len(f.name) + 2
      BY <1>5
    <3> QED BY <1>5, <3>1, Zenon
  <2>2. DecodeColumn(b) = [name |-> f.name, nums |-> [k \in 1..6 |-> IF Signed[k] THEN Number(num(k)) ELSE Unsigned(num(k))]]
    BY <1>5, <2>1, Zenon DEF DecodeColumn
  <2>3. \A k \in 1..6 : (IF Signed[k] THEN Number(num(k)) ELSE Unsigned(num(k))) = f.nums[k]
    <3> SUFFICES ASSUME NEW k \in 1..6
                 PROVE  (IF Signed[k] THEN Number(num(k)) ELSE Unsigned(num(k))) = f.nums[k]
      OBVIOUS
    <3>1. f.nums[k] \in Int /\ Widths[k] \in {2, 4} /\ FitsIn(f.nums[k], k) /\ num(k) = Bytes(f.nums[k], Widths[k])
      BY <1>2, <1>4, WidthsAre
    <3> HIDE DEF num
    <3>2. CASE Signed[k]
      <4>1. f.nums[k] \div Place[5 - Widths[k]] \in -128..127
        BY <3>1, <3>2 DEF FitsIn
      <4>2. Number(Bytes(f.nums[k], Widths[k])) = f.nums[k]
        BY <3>1, <4>1, SignedRoundTrip
      <4> QED BY <3>1, <3>2, <4>2, Zenon
    <3>3. CASE ~Signed[k]
      <4>1. f.nums[k] \div Place[5 - Widths[k]] \in 0..255
        BY <3>1, <3>3 DEF FitsIn
      <4>2. Unsigned(Bytes(f.nums[k], Widths[k])) = f.nums[k]
        BY <3>1, <4>1, UnsignedRoundTrip
      <4> QED BY <3>1, <3>3, <4>2, Zenon
    <3> QED BY <3>2, <3>3
  <2> HIDE DEF num
  <2>4. [k \in 1..6 |-> IF Signed[k] THEN Number(num(k)) ELSE Unsigned(num(k))] = [k \in 1..6 |-> f.nums[k]]
    BY <2>3
  <2>5. [k \in 1..6 |-> f.nums[k]] = f.nums
    BY <1>2
  <2>6. [name |-> f.name, nums |-> [k \in 1..6 |-> IF Signed[k] THEN Number(num(k)) ELSE Unsigned(num(k))]]
           = [name |-> f.name, nums |-> f.nums]
    BY <2>4, <2>5, Zenon
  <2>7. [name |-> f.name, nums |-> f.nums] = f
    BY <1>2
  <2> QED BY <2>2, <2>6, <2>7, Zenon
<1>9. Len(b) >= 1
  BY <1>3, <1>5, <1>6
<1> QED BY <1>1, <1>5, <1>6, <1>7, <1>8, <1>9, Zenon

\* A value too, NULL or not.
LEMMA DatumRoundTrip ==
    ASSUME NEW v \in Value, v # {} => Len(ValueOf(v)) <= MaxInt32
    PROVE  /\ ValueBytes(v) \in Seq(Byte) /\ Len(ValueBytes(v)) = ValueSize(v) /\ Len(ValueBytes(v)) >= 1
           /\ \A t \in Seq(Byte) : DatumSize[Cat(ValueBytes(v), t)] = Len(ValueBytes(v))
           /\ DecodeDatum(ValueBytes(v)) = v
<1>1. CASE v = {}
  <2> DEFINE b == Int32(-1)
  <2>1. ValueBytes(v) = b /\ ValueSize(v) = 4
    BY <1>1 DEF ValueBytes, ValueSize
  <2>2. b \in Seq(Byte) /\ Len(b) = 4
    BY Int32Type
  <2>3. Number(b) = -1
    <3>1. -1 \in Int /\ 4 \in {2, 4} /\ (-1) \div Place[5 - 4] \in -128..127
      <4>1. (-1) \div (256 * (256 * 256)) = -1
        <5>1. \A p \in Nat \ {0} : (-1) \div p = -1
          OBVIOUS
        <5>2. 256 * (256 * 256) \in Nat \ {0}
          OBVIOUS
        <5> QED BY <5>1, <5>2, Zenon
      <4>2. Place[5 - 4] = 256 * (256 * 256)
        BY Places
      <4>3. -1 \in -128..127
        OBVIOUS
      <4> QED BY <4>1, <4>2, <4>3
    <3>2. Number(Bytes(-1, 4)) = -1
      BY <3>1, SignedRoundTrip
    <3> QED BY <3>2 DEF Int32
  <2> HIDE DEF b
  <2>4. ASSUME NEW t \in Seq(Byte) PROVE DatumSize[Cat(b, t)] = 4
    <3>1. SubSeq(Cat(b, t), 1, 4) = b
      BY <2>2, CatCut
    <3>2. Cat(b, t) \in Seq(Byte) /\ Len(Cat(b, t)) = 4 + Len(t) /\ Len(t) \in Nat
      <4>1. Cat(b, t) \in Seq(Byte)
        BY <2>2, CatType
      <4>2. Len(Cat(b, t)) = Len(b) + Len(t) /\ Len(t) \in Nat
        BY <2>2, CatLen
      <4> QED BY <2>2, <4>1, <4>2
    <3>3. ~(Len(Cat(b, t)) < 4) /\ ~(-1 < -1)
      BY <3>2
    <3>4. Number(SubSeq(Cat(b, t), 1, 4)) = -1
      BY <2>3, <3>1
    <3> QED BY <3>2, <3>3, <3>4, Zenon DEF DatumSize
  <2>5. DecodeDatum(b) = {}
    <3>1. SubSeq(b, 1, 4) = b
      BY <2>2
    <3> QED BY <2>3, <3>1, Zenon DEF DecodeDatum
  <2>6. Len(b) >= 1
    BY <2>2
  <2> QED BY <1>1, <2>1, <2>2, <2>4, <2>5, <2>6, Zenon
<1>2. CASE v # {}
  <2> DEFINE d == ValueOf(v)
  <2>1. d \in v
    BY <1>2 DEF ValueOf
  <2>2. d \in Seq(Byte) /\ v = {d}
    BY <2>1 DEF Value
  <2>3. ValueBytes(v) = Cat(Int32(Len(d)), d)
    BY <1>2, Zenon DEF ValueBytes, Cat, d
  <2>4. ValueSize(v) = 4 + Len(d)
    BY <1>2 DEF ValueSize, d
  <2> HIDE DEF d
  <2>5. Len(d) \in 0..MaxInt32 /\ Len(d) \in Nat
    <3>1. Len(d) <= MaxInt32
      BY <1>2 DEF d
    <3>2. Len(d) \in Nat
      BY <2>2, LenProperties
    <3> QED BY <3>1, <3>2, MaxBound
  <2> DEFINE i == Int32(Len(d))
             b == Cat(i, d)
  <2>6. i \in Seq(Byte) /\ Len(i) = 4
    BY <2>5, Int32Type
  <2>7. \A t \in Seq(Byte) : Number(SubSeq(Cat(i, t), 1, 4)) = Len(d)
    BY <2>5, NumberInFront
  <2> HIDE DEF i
  <2>8. b \in Seq(Byte) /\ Len(b) = 4 + Len(d)
    <3>1. b \in Seq(Byte)
      BY <2>2, <2>6, CatType
    <3>2. Len(b) = Len(i) + Len(d)
      BY <2>2, <2>6, CatLen
    <3> QED BY <2>6, <3>1, <3>2
  <2>9. ASSUME NEW t \in Seq(Byte) PROVE DatumSize[Cat(b, t)] = 4 + Len(d)
    <3>1. Cat(b, t) = Cat(i, Cat(d, t)) /\ Cat(d, t) \in Seq(Byte)
      BY <2>2, <2>6, CatAssoc, CatType
    <3>2. Number(SubSeq(Cat(b, t), 1, 4)) = Len(d)
      BY <2>7, <3>1
    <3>3. Cat(b, t) \in Seq(Byte) /\ ~(Len(Cat(b, t)) < 4)
      <4>1. Cat(b, t) \in Seq(Byte)
        BY <2>8, CatType
      <4>2. Len(Cat(b, t)) = Len(b) + Len(t) /\ Len(t) \in Nat
        BY <2>8, CatLen
      <4> QED BY <2>5, <2>8, <4>1, <4>2
    <3>4. ~(Len(d) < -1) /\ Len(d) # -1
      BY <2>5
    <3> QED BY <3>2, <3>3, <3>4, Zenon DEF DatumSize
  <2>10. DecodeDatum(b) = v
    <3>1. Number(SubSeq(b, 1, 4)) = Len(d)
      BY <2>2, <2>7
    <3>2. From(b, 5) = d
      <4>1. From(b, Len(i) + 1) = d
        BY <2>2, <2>6, CatCut
      <4>2. Len(i) + 1 = 5
        BY <2>6
      <4> QED BY <4>1, <4>2
    <3>3. Len(d) # -1
      BY <2>5
    <3> QED BY <2>2, <3>1, <3>2, <3>3, Zenon DEF DecodeDatum
  <2>11. Len(b) >= 1
    BY <2>5, <2>8
  <2>12. ValueBytes(v) = b
    BY <2>3, Zenon DEF i
  <2> HIDE DEF b
  <2> QED BY <2>4, <2>8, <2>9, <2>10, <2>11, <2>12, Zenon
<1> QED BY <1>1, <1>2

\* So does a string.
LEMMA StringRoundTrip ==
    ASSUME NEW s \in Text
    PROVE  /\ CString(s) \in Seq(Byte) /\ Len(CString(s)) = Len(s) + 1 /\ Len(s) \in Nat /\ Len(CString(s)) >= 1
           /\ \A t \in Seq(Byte) : StringSize[Cat(CString(s), t)] = Len(CString(s))
           /\ UpToNul(CString(s)) = s
<1>1. <<>> \in Seq(Byte)
  OBVIOUS
<1>2. CString(s) \in Seq(Byte) /\ Len(CString(s)) = Len(s) + 1 /\ Len(s) \in Nat /\ UpToNul(Cat(CString(s), <<>>)) = s
  BY <1>1, NulEnds
<1>3. Cat(CString(s), <<>>) = CString(s)
  BY <1>2, CatEmpty
<1>4. ASSUME NEW t \in Seq(Byte) PROVE StringSize[Cat(CString(s), t)] = Len(CString(s))
  <2>1. Cat(CString(s), t) \in Seq(Byte)
    BY <1>2, CatType
  <2>2. IndexOf(Cat(CString(s), t), {0}) = Len(s) + 1
    BY NulEnds
  <2> QED BY <1>2, <2>1, <2>2, Zenon DEF StringSize
<1>5. Len(CString(s)) >= 1
  BY <1>2
<1> QED BY <1>2, <1>3, <1>4, <1>5, Zenon
-----------------------------------------------------------------------------
(* Messages. *)

\* What is written for m is a message with its length in front, and the client reads m in it.
Decodes(m) ==
    \E c \in Byte, body \in Seq(Byte) :
        /\ Encode(m) = Framed(c, body) /\ 4 + Len(body) <= MaxInt32
        /\ DecodeMessage(Framed(c, body)) = m

LEMMA FrameIsFramed ==
    ASSUME NEW c \in Byte, NEW body \in Seq(Byte), NEW n, n = 4 + Len(body)
    PROVE  Frame(c, n, body) = Framed(c, body)
<1>1. Len(body) \in Nat
  BY LenProperties
<1>2. Filled(n - 4, body) = body
  <2>1. Filled(n - 4, body) = [i \in 1..Len(body) |-> body[i]]
    <3>1. n - 4 = Len(body)
      BY <1>1
    <3>2. \A i \in 1..Len(body) : (IF i <= Len(body) THEN body[i] ELSE 0) = body[i]
      BY <1>1
    <3>3. Filled(n - 4, body) = [i \in 1..Len(body) |-> IF i <= Len(body) THEN body[i] ELSE 0]
      BY <3>1, Zenon DEF Filled
    <3> QED BY <3>2, <3>3
  <2>2. [i \in 1..Len(body) |-> body[i]] = body
    OBVIOUS
  <2> QED BY <2>1, <2>2, Zenon
<1>3. Frame(c, n, body) = Cat(Cat(One(c), Int32(n)), Filled(n - 4, body))
  BY Zenon DEF Frame, Cat, One
<1> QED BY <1>2, <1>3, Zenon DEF Framed

\* A message that can be sent fits.
LEMMA FramedFits ==
    ASSUME NEW m, Sendable(m), NEW c \in Byte, NEW body \in Seq(Byte), Encode(m) = Framed(c, body)
    PROVE  4 + Len(body) <= MaxInt32
<1>1. Len(Framed(c, body)) <= MaxInt32
  BY Zenon DEF Sendable
<1>2. Len(Framed(c, body)) = 5 + Len(body) /\ Len(body) \in Nat /\ MaxInt32 \in Int
  BY FramedType, LenProperties, MaxBound
<1> QED BY <1>1, <1>2

LEMMA CodesAre ==
    /\ Code.R = 82 /\ Code.S = 83 /\ Code.K = 75 /\ Code.Z = 90 /\ Code.E = 69 /\ Code.C = 67
    /\ Code.T = 84 /\ Code.D = 68 /\ Code.M = 77 /\ Code["I"] = 73 /\ Code["T"] = 84 /\ Code["E"] = 69
BY DEF Code

\* The branches of DecodeMessage.
LEMMA Branches ==
    ASSUME NEW c \in Byte, NEW b \in Seq(Byte)
    PROVE  LET d == DecodeMessage(Framed(c, b))
               string(i) == UpToNul(Piece(StringSize, b, i))
               n == Number(SubSeq(b, 1, 2))
               parts == From(b, 3)
           IN  /\ c = Code.R /\ b = Int32(0) => d = <<"R">>
               /\ c = Code.K /\ Len(b) = 8 => d = <<"K">>
               /\ c = Code.S /\ Cuts(StringSize, b, 2) => d = <<"S", string(1), string(2)>>
               /\ c = Code.C /\ Cuts(StringSize, b, 1) => d = <<"C", string(1)>>
               /\ c = Code.Z /\ Len(b) = 1 => d = <<"Z", CHOOSE s \in {"I", "T", "E"} : Code[s] = b[1]>>
               /\ c = Code.E /\ (\E k, m \in 1..Len(b) : IsError(b, k, m)) =>
                     d = <<"E", Tail(string(CHOOSE m \in 1..Len(b) : \E k \in 1..Len(b) : IsError(b, k, m)))>>
               /\ c = Code.T /\ Cuts(ColumnSize, parts, n) =>
                     d = <<"T", [i \in 1..n |-> DecodeColumn(Piece(ColumnSize, parts, i))]>>
               /\ c = Code.D /\ Cuts(DatumSize, parts, n) =>
                     d = <<"D", [i \in 1..n |-> DecodeDatum(Piece(DatumSize, parts, i))]>>
<1> DEFINE string(i) == UpToNul(Piece(StringSize, b, i))
           n == Number(SubSeq(b, 1, 2))
           parts == From(b, 3)
           err == \E k, m \in 1..Len(b) : IsError(b, k, m)
           e == <<"E", Tail(string(CHOOSE m \in 1..Len(b) : \E k \in 1..Len(b) : IsError(b, k, m)))>>
           s == <<"S", string(1), string(2)>>
           t == <<"T", [i \in 1..n |-> DecodeColumn(Piece(ColumnSize, parts, i))]>>
           r == <<"D", [i \in 1..n |-> DecodeDatum(Piece(DatumSize, parts, i))]>>
           z == <<"Z", CHOOSE x \in {"I", "T", "E"} : Code[x] = b[1]>>
           y == <<"C", string(1)>>
           zero == Int32(0)
<1>1. Framed(c, b)[1] = c /\ From(Framed(c, b), 6) = b
  BY FramedType
<1>2. DecodeMessage(Framed(c, b)) =
         CASE c = Code.R /\ b = zero -> <<"R">>
           [] c = Code.K /\ Len(b) = 8 -> <<"K">>
           [] c = Code.S /\ Cuts(StringSize, b, 2) -> s
           [] c = Code.C /\ Cuts(StringSize, b, 1) -> y
           [] c = Code.Z /\ Len(b) = 1 -> z
           [] c = Code.E /\ err -> e
           [] c = Code.T /\ Cuts(ColumnSize, parts, n) -> t
           [] c = Code.D /\ Cuts(DatumSize, parts, n) -> r
           [] OTHER -> <<"garbled">>
  BY <1>1, Zenon DEF DecodeMessage
<1> HIDE DEF string, n, parts, err, e, s, t, r, z, y, zero
<1>3. LET d == DecodeMessage(Framed(c, b))
      IN  /\ c = Code.R /\ b = zero => d = <<"R">>
          /\ c = Code.K /\ Len(b) = 8 => d = <<"K">>
          /\ c = Code.S /\ Cuts(StringSize, b, 2) => d = s
          /\ c = Code.C /\ Cuts(StringSize, b, 1) => d = y
          /\ c = Code.Z /\ Len(b) = 1 => d = z
          /\ c = Code.E /\ err => d = e
          /\ c = Code.T /\ Cuts(ColumnSize, parts, n) => d = t
          /\ c = Code.D /\ Cuts(DatumSize, parts, n) => d = r
  BY <1>2, CodesAre
<1> QED BY <1>3, Zenon DEF string, n, parts, err, e, s, t, r, z, y, zero

LEMMA FlattenFew ==
    ASSUME NEW a \in Seq(Byte), NEW b \in Seq(Byte), NEW c \in Seq(Byte)
    PROVE  /\ FlattenSeq(<<a>>) = a
           /\ FlattenSeq(<<a, b>>) = Cat(a, b)
           /\ FlattenSeq(<<a, b, c>>) = Cat(a, Cat(b, c))
<1>1. \A x \in Seq(Byte) : FlattenSeq(<<x>>) = x
  <2> SUFFICES ASSUME NEW x \in Seq(Byte) PROVE FlattenSeq(<<x>>) = x
    OBVIOUS
  <2>1. <<>> \in Seq(Seq(Byte)) /\ <<x>> = <<x>> \o <<>>
    OBVIOUS
  <2>2. FlattenSeq(<<x>>) = Cat(x, FlattenSeq(<<>>))
    BY <2>1, FlattenFirst
  <2>3. FlattenSeq(<<>>) = <<>>
    BY <2>1, FlattenType
  <2>4. Cat(x, <<>>) = x
    BY CatEmpty
  <2> QED BY <2>2, <2>3, <2>4, Zenon
<1>2. \A x, y \in Seq(Byte) : FlattenSeq(<<x, y>>) = Cat(x, y)
  <2> SUFFICES ASSUME NEW x \in Seq(Byte), NEW y \in Seq(Byte) PROVE FlattenSeq(<<x, y>>) = Cat(x, y)
    OBVIOUS
  <2>1. <<y>> \in Seq(Seq(Byte)) /\ <<x, y>> = <<x>> \o <<y>>
    <3>1. <<y>> \in Seq(Seq(Byte))
      OBVIOUS
    <3>2. ASSUME NEW S, NEW u \in S, NEW v \in S PROVE <<u, v>> = <<u>> \o <<v>>
      <4> DEFINE d == <<u>> \o <<v>>
                 e == <<u, v>>
      <4>1. d \in Seq(S) /\ Len(d) = 2 /\ d[1] = u /\ d[2] = v
        OBVIOUS
      <4>2. e \in Seq(S) /\ Len(e) = 2 /\ e[1] = u /\ e[2] = v
        OBVIOUS
      <4> HIDE DEF d, e
      <4>3. \A i \in 1..Len(d) : d[i] = e[i]
        BY <4>1, <4>2
      <4>4. d = e
        BY <4>1, <4>2, <4>3, SeqEqual
      <4> QED BY <4>4 DEF d, e
    <3> QED BY <3>1, <3>2, Zenon
  <2>2. FlattenSeq(<<x, y>>) = Cat(x, FlattenSeq(<<y>>))
    BY <2>1, FlattenFirst
  <2> QED BY <1>1, <2>2, Zenon
<1>3. FlattenSeq(<<a, b, c>>) = Cat(a, Cat(b, c))
  <2>1. <<b, c>> \in Seq(Seq(Byte)) /\ <<a, b, c>> = <<a>> \o <<b, c>>
    OBVIOUS
  <2>2. FlattenSeq(<<a, b, c>>) = Cat(a, FlattenSeq(<<b, c>>))
    BY <2>1, FlattenFirst
  <2> QED BY <1>2, <2>2, Zenon
<1> QED BY <1>1, <1>2, <1>3, Zenon

\* Strings, one behind the other.
LEMMA StringsFound ==
    ASSUME NEW texts \in Seq(Text),
           NEW seqs, seqs = [i \in 1..Len(texts) |-> CString(texts[i])]
    PROVE  /\ Len(seqs) = Len(texts) /\ seqs \in Seq(Seq(Byte))
           /\ Cuts(StringSize, FlattenSeq(seqs), Len(texts))
           /\ \A i \in 1..Len(texts) : /\ Piece(StringSize, FlattenSeq(seqs), i) = CString(texts[i])
                                       /\ UpToNul(Piece(StringSize, FlattenSeq(seqs), i)) = texts[i]
<1>1. Len(texts) \in Nat /\ \A i \in 1..Len(texts) : texts[i] \in Text
  OBVIOUS
<1>2. \A i \in 1..Len(texts) :
         /\ CString(texts[i]) \in Seq(Byte) /\ Len(CString(texts[i])) >= 1 /\ UpToNul(CString(texts[i])) = texts[i]
         /\ \A t \in Seq(Byte) : StringSize[Cat(CString(texts[i]), t)] = Len(CString(texts[i]))
  BY <1>1, StringRoundTrip
<1>3. seqs \in Seq(Seq(Byte)) /\ Len(seqs) = Len(texts) /\ \A i \in 1..Len(texts) : seqs[i] = CString(texts[i])
  BY <1>1, <1>2
<1>4. Sized(StringSize, seqs)
  BY <1>2, <1>3, Zenon DEF Sized
<1>5. /\ Cuts(StringSize, FlattenSeq(seqs), Len(seqs))
      /\ \A i \in 1..Len(seqs) : Piece(StringSize, FlattenSeq(seqs), i) = seqs[i]
  BY <1>4, PiecesFound
<1> QED BY <1>2, <1>3, <1>5, Zenon

\* What is written for m is a message of n bytes in which the client reads m.
DecodesIn(m, n) ==
    \E c \in Byte, body \in Seq(Byte) :
        /\ Encode(m) = Framed(c, body) /\ Len(body) + 5 = n
        /\ DecodeMessage(Framed(c, body)) = m

LEMMA FixedDecode ==
    /\ DecodesIn(<<"R">>, 9) /\ DecodesIn(<<"K">>, 13)
    /\ \A status \in {"I", "T", "E"} : DecodesIn(<<"Z", status>>, 6)
<1>1. Code.R \in Byte /\ Code.K \in Byte /\ Code.Z \in Byte
  BY CodesAre DEF Byte
<1>2. Int32(0) \in Seq(Byte) /\ Len(Int32(0)) = 4 /\ Int32(1) \in Seq(Byte) /\ Len(Int32(1)) = 4
  BY Int32Type
<1>3. DecodesIn(<<"R">>, 9)
  <2>1. Encode(<<"R">>) = <<Code.R>> \o Int32(8) \o Int32(0)
    BY DEF Encode
  <2>2. 4 + Len(Int32(0)) = 8
    <3>1. \A k : k = 4 => 4 + k = 8
      OBVIOUS
    <3> QED BY <1>2, <3>1, Zenon
  <2>3. Encode(<<"R">>) = Framed(Code.R, Int32(0))
    BY <2>1, <2>2, Zenon DEF Framed, Cat, One
  <2>4. DecodeMessage(Framed(Code.R, Int32(0))) = <<"R">>
    BY <1>1, <1>2, Branches
  <2>5. Len(Int32(0)) + 5 = 9
    BY <2>2
  <2> QED BY <1>1, <1>2, <2>3, <2>4, <2>5, Zenon DEF DecodesIn
<1>4. DecodesIn(<<"K">>, 13)
  <2> DEFINE one == Int32(1)
             b == Cat(one, one)
  <2>1. Encode(<<"K">>) = <<Code.K>> \o Int32(12) \o one \o one
    BY DEF Encode
  <2>2. one \in Seq(Byte) /\ Len(one) = 4
    BY <1>2
  <2> HIDE DEF one
  <2>3. b \in Seq(Byte)
    BY <2>2, CatType
  <2>4. Len(b) = 8
    <3>1. Len(b) = Len(one) + Len(one)
      BY <2>2, CatLen
    <3> QED BY <2>2, <3>1
  <2>5. Encode(<<"K">>) = Cat(Cat(Cat(One(Code.K), Int32(12)), one), one)
    BY <2>1, Zenon DEF Cat, One
  <2>6. Cat(Cat(Cat(One(Code.K), Int32(12)), one), one) = Cat(Cat(One(Code.K), Int32(12)), b)
    <3>1. One(Code.K) \in Seq(Byte)
      BY <1>1, ByteTypes
    <3>2. Int32(12) \in Seq(Byte)
      BY Int32Type
    <3>3. Cat(One(Code.K), Int32(12)) \in Seq(Byte)
      BY <3>1, <3>2, CatType
    <3> QED BY <2>2, <3>3, CatAssoc
  <2>7. 4 + Len(b) = 12
    BY <2>4
  <2>8. Encode(<<"K">>) = Framed(Code.K, b)
    BY <2>5, <2>6, <2>7, Zenon DEF Framed
  <2>9. DecodeMessage(Framed(Code.K, b)) = <<"K">>
    BY <1>1, <2>3, <2>4, Branches
  <2>10. Len(b) + 5 = 13
    BY <2>4
  <2> QED BY <1>1, <2>3, <2>8, <2>9, <2>10, Zenon DEF DecodesIn
<1>5. ASSUME NEW status \in {"I", "T", "E"} PROVE DecodesIn(<<"Z", status>>, 6)
  <2> DEFINE m == <<"Z", status>>
             b == One(Code[status])
  <2>1. Encode(m) = sendReadyForQuery(status)
    BY DEF Encode
  <2>2. Code[status] \in Byte
    BY CodesAre DEF Byte
  <2>3. b \in Seq(Byte) /\ Len(b) = 1 /\ b[1] = Code[status]
    BY <2>2 DEF One
  <2>4. 4 + Len(b) = 5
    BY <2>3
  <2>5. Encode(m) = Framed(Code.Z, b)
    BY <2>1, <2>4, Zenon DEF Framed, sendReadyForQuery, Cat, One
  <2> HIDE DEF b
  <2>6. (CHOOSE s \in {"I", "T", "E"} : Code[s] = b[1]) = status
    <3>1. \A s \in {"I", "T", "E"} : Code[s] = b[1] <=> s = status
      BY <2>3, CodesAre
    <3> QED BY <3>1
  <2>7. DecodeMessage(Framed(Code.Z, b)) = <<"Z", CHOOSE s \in {"I", "T", "E"} : Code[s] = b[1]>>
    BY <1>1, <2>3, Branches
  <2>8. Len(b) + 5 = 6
    BY <2>3 DEF b
  <2> QED BY <1>1, <2>3, <2>5, <2>6, <2>7, <2>8, Zenon DEF DecodesIn
<1> QED BY <1>3, <1>4, <1>5

LEMMA StatusDecodes ==
    ASSUME NEW key \in Text, NEW value \in Text, Sendable(<<"S", key, value>>)
    PROVE  Decodes(<<"S", key, value>>)
<1> DEFINE m == <<"S", key, value>>
           texts == <<key, value>>
           seqs == [i \in 1..Len(texts) |-> CString(texts[i])]
           b == Cat(CString(key), CString(value))
<1>1. texts \in Seq(Text) /\ Len(texts) = 2 /\ texts[1] = key /\ texts[2] = value
  OBVIOUS
<1>2. seqs = <<CString(key), CString(value)>>
  BY <1>1
<1>3. CString(key) \in Seq(Byte) /\ Len(CString(key)) = Len(key) + 1 /\ Len(key) \in Nat
      /\ CString(value) \in Seq(Byte) /\ Len(CString(value)) = Len(value) + 1 /\ Len(value) \in Nat
  BY StringRoundTrip
<1>4. FlattenSeq(seqs) = b
  <2>1. FlattenSeq(<<CString(key), CString(value)>>) = Cat(CString(key), CString(value))
    BY <1>3, FlattenFew
  <2> QED BY <1>2, <2>1, Zenon
<1> HIDE DEF seqs, texts
<1>5. /\ Cuts(StringSize, b, 2)
      /\ UpToNul(Piece(StringSize, b, 1)) = key /\ UpToNul(Piece(StringSize, b, 2)) = value
  <2>1. /\ Cuts(StringSize, FlattenSeq(seqs), Len(texts))
        /\ \A i \in 1..Len(texts) : UpToNul(Piece(StringSize, FlattenSeq(seqs), i)) = texts[i]
    BY <1>1, StringsFound DEF seqs
  <2>2. 1 \in 1..Len(texts) /\ 2 \in 1..Len(texts)
    BY <1>1
  <2> QED BY <1>1, <1>4, <2>1, <2>2, Zenon
<1>6. b \in Seq(Byte) /\ 4 + Len(b) = 4 + Len(key) + 1 + Len(value) + 1
  <2>1. b \in Seq(Byte)
    BY <1>3, CatType
  <2>2. Len(b) = Len(CString(key)) + Len(CString(value))
    BY <1>3, CatLen
  <2> QED BY <1>3, <2>1, <2>2
<1>7. Encode(m) = Frame(Code.S, 4 + Len(key) + 1 + Len(value) + 1, b)
  <2>1. Encode(m) = sendParameterStatus(key, value)
    BY DEF Encode
  <2> QED BY <2>1, Zenon DEF sendParameterStatus, Cat
<1>8. Code.S \in Byte
  BY CodesAre DEF Byte
<1> HIDE DEF b
<1>9. Encode(m) = Framed(Code.S, b)
  BY <1>6, <1>7, <1>8, FrameIsFramed
<1>10. DecodeMessage(Framed(Code.S, b)) = m
  BY <1>5, <1>6, <1>8, Branches
<1> HIDE DEF m
<1>11. 4 + Len(b) <= MaxInt32
  BY <1>6, <1>8, <1>9, FramedFits DEF m
<1> QED BY <1>6, <1>8, <1>9, <1>10, <1>11, Zenon DEF Decodes, m

LEMMA TagDecodes ==
    ASSUME NEW tag \in Text
    PROVE  DecodesIn(<<"C", tag>>, Len(tag) + 6)
<1> DEFINE m == <<"C", tag>>
           texts == <<tag>>
           seqs == [i \in 1..Len(texts) |-> CString(texts[i])]
           b == CString(tag)
<1>1. texts \in Seq(Text) /\ Len(texts) = 1 /\ texts[1] = tag
  OBVIOUS
<1>2. seqs = <<b>>
  BY <1>1
<1>3. b \in Seq(Byte) /\ Len(b) = Len(tag) + 1 /\ Len(tag) \in Nat
  BY StringRoundTrip
<1>4. FlattenSeq(seqs) = b
  BY <1>2, <1>3, FlattenFew
<1> HIDE DEF seqs, texts
<1>5. Cuts(StringSize, b, 1) /\ UpToNul(Piece(StringSize, b, 1)) = tag
  <2>1. /\ Cuts(StringSize, FlattenSeq(seqs), Len(texts))
        /\ \A i \in 1..Len(texts) : UpToNul(Piece(StringSize, FlattenSeq(seqs), i)) = texts[i]
    BY <1>1, StringsFound DEF seqs
  <2>2. 1 \in 1..Len(texts)
    BY <1>1
  <2> QED BY <1>1, <1>4, <2>1, <2>2, Zenon
<1>6. 4 + Len(b) = 4 + Len(tag) + 1
  BY <1>3
<1>7. Encode(m) = Frame(Code.C, 4 + Len(tag) + 1, b)
  <2>1. Encode(m) = sendCommandComplete(tag)
    BY DEF Encode
  <2> QED BY <2>1, Zenon DEF sendCommandComplete
<1>8. Code.C \in Byte
  BY CodesAre DEF Byte
<1> HIDE DEF b
<1>9. Encode(m) = Framed(Code.C, b)
  BY <1>3, <1>6, <1>7, <1>8, FrameIsFramed
<1>10. DecodeMessage(Framed(Code.C, b)) = m
  BY <1>3, <1>5, <1>8, Branches
<1> HIDE DEF m
<1>11. Len(b) + 5 = Len(tag) + 6
  BY <1>3
<1> QED BY <1>3, <1>8, <1>9, <1>10, <1>11, Zenon DEF DecodesIn, m

LEMMA CStringOfCat ==
    ASSUME NEW c \in 1..255, NEW s \in Text
    PROVE  /\ Cat(One(c), s) \in Text /\ CString(Cat(One(c), s)) = Cat(One(c), CString(s))
           /\ Tail(Cat(One(c), s)) = s /\ CString(Cat(One(c), s))[1] = c
<1> DEFINE t == Cat(One(c), s)
<1>1. s \in Seq(1..255) /\ <<c>> \in Seq(1..255)
  BY DEF Text
<1>2. t \in Seq(1..255)
  BY <1>1 DEF Cat, One
<1>3. Tail(t) = s
  <2>1. t = <<c>> \o s
    BY Zenon DEF Cat, One
  <2> HIDE DEF t
  <2>2. Len(t) = Len(s) + 1 /\ \A i \in 1..Len(s) : t[i + 1] = s[i]
    BY <1>1, <2>1
  <2>3. Tail(t) \in Seq(1..255) /\ Len(Tail(t)) = Len(s) /\ \A i \in 1..Len(s) : Tail(t)[i] = t[i + 1]
    BY <1>1, <1>2, <2>2
  <2>4. \A i \in 1..Len(s) : Tail(t)[i] = s[i]
    BY <2>2, <2>3
  <2> QED BY <1>1, <2>3, <2>4, SeqEqual
<1>4. CString(t) = Cat(One(c), CString(s))
  <2>1. <<0>> \in Seq(0..255) /\ s \in Seq(0..255) /\ <<c>> \in Seq(0..255)
    BY <1>1
  <2>2. <<c>> \o (s \o <<0>>) = (<<c>> \o s) \o <<0>>
    BY <2>1, Associative
  <2> QED BY <2>2, Zenon DEF CString, Cat, One
<1>5. CString(t)[1] = c
  <2>1. CString(s) \in Seq(Byte) /\ c \in Byte
    BY StringRoundTrip DEF Byte
  <2> QED BY <1>4, <2>1, CatFirst
<1> QED BY <1>2, <1>3, <1>4, <1>5 DEF Text

\* Only the second field of an error is its message, however the client looks for it.
LEMMA MessageField ==
    ASSUME NEW b \in Seq(Byte), Len(b) >= 3, Cuts(StringSize, b, 3),
           Piece(StringSize, b, 1)[1] # Code.M, Piece(StringSize, b, 2)[1] = Code.M,
           Piece(StringSize, b, 1) # << 0 >>, Piece(StringSize, b, 2) # << 0 >>, Piece(StringSize, b, 3) = << 0 >>
    PROVE  /\ \E k, m \in 1..Len(b) : IsError(b, k, m)
           /\ (CHOOSE m \in 1..Len(b) : \E k \in 1..Len(b) : IsError(b, k, m)) = 2
<1> DEFINE p(i) == Piece(StringSize, b, i)
           cuts(k) == Cuts(StringSize, b, k)
<1>1. \A k, m : IsError(b, k, m) <=>
         /\ cuts(k) /\ m \in 1..k /\ p(m)[1] = Code.M
         /\ \A i \in 1..k : p(i) = <<0>> <=> i = k
  BY Zenon DEF IsError
<1>2. /\ cuts(3) /\ p(1)[1] # Code.M /\ p(2)[1] = Code.M /\ p(1) # <<0>> /\ p(2) # <<0>> /\ p(3) = <<0>>
      /\ p(3)[1] # Code.M
  BY CodesAre
<1> HIDE DEF p, cuts
<1>3. 3 \in 1..Len(b) /\ 2 \in 1..Len(b)
  OBVIOUS
<1>4. IsError(b, 3, 2)
  <2>1. \A i \in 1..3 : p(i) = <<0>> <=> i = 3
    <3>1. \A i \in 1..3 : i = 1 \/ i = 2 \/ i = 3
      OBVIOUS
    <3> QED BY <1>2, <3>1
  <2>2. 2 \in 1..3
    OBVIOUS
  <2> QED BY <1>1, <1>2, <2>1, <2>2, Zenon
<1>5. ASSUME NEW k \in 1..Len(b), NEW m \in 1..Len(b), IsError(b, k, m) PROVE m = 2
  <2>1. m \in 1..k /\ p(m)[1] = Code.M /\ \A i \in 1..k : p(i) = <<0>> <=> i = k
    BY <1>1, <1>5, Zenon
  <2>2. k = 3
    <3>1. k \in 1..k
      OBVIOUS
    <3>2. k # 1 /\ k # 2
      BY <1>2, <2>1, <3>1
    <3>3. CASE k > 3
      <4>1. 3 \in 1..k /\ 3 # k
        BY <3>3
      <4> QED BY <1>2, <2>1, <4>1
    <3> QED BY <3>2, <3>3
  <2>3. m = 1 \/ m = 2 \/ m = 3
    BY <2>1, <2>2
  <2> QED BY <1>2, <2>1, <2>3
<1>6. \A m \in 1..Len(b) : (\E k \in 1..Len(b) : IsError(b, k, m)) <=> m = 2
  BY <1>3, <1>4, <1>5
<1>7. (CHOOSE m \in 1..Len(b) : \E k \in 1..Len(b) : IsError(b, k, m)) = 2
  BY <1>3, <1>6
<1> QED BY <1>3, <1>4, <1>7

LEMMA ErrorDecodes ==
    ASSUME NEW errMsg \in Text
    PROVE  DecodesIn(<<"E", errMsg>>, Len(errMsg) + 15)
<1> DEFINE m == <<"E", errMsg>>
           u == Cat(One(Code.S), Severity)
           v == Cat(One(Code.M), errMsg)
           texts == <<u, v, <<>>>>
           seqs == [i \in 1..Len(texts) |-> CString(texts[i])]
           b == Cat(CString(u), Cat(CString(v), One(0)))
           n == 4 + 1 + Len(Severity) + 1 + 1 + Len(errMsg) + 1 + 1
<1>1. Severity \in Text /\ Len(Severity) = 5 /\ <<>> \in Text
  BY DEF Severity, Text
<1>2. Code.S \in 1..255 /\ Code.M \in 1..255 /\ Code.S # Code.M /\ Code.M # 0
      /\ Code.E \in Byte /\ Code.S \in Byte /\ Code.M \in Byte /\ 0 \in Byte
  BY CodesAre DEF Byte
<1>3. /\ u \in Text /\ CString(u) = Cat(One(Code.S), CString(Severity)) /\ CString(u)[1] = Code.S
      /\ v \in Text /\ CString(v) = Cat(One(Code.M), CString(errMsg)) /\ Tail(v) = errMsg /\ CString(v)[1] = Code.M
  BY <1>1, <1>2, CStringOfCat
<1> HIDE DEF u, v
<1>4. /\ texts \in Seq(Text) /\ Len(texts) = 3 /\ texts[1] = u /\ texts[2] = v /\ texts[3] = <<>>
  BY <1>1, <1>3
<1>5. CString(<<>>) = One(0)
  <2>1. <<0>> \in Seq(Byte)
    BY <1>2
  <2>2. <<>> \o <<0>> = <<0>>
    BY <2>1, EmptyIsUnit
  <2> QED BY <2>2, Zenon DEF CString, One
<1>6. seqs = <<CString(u), CString(v), One(0)>>
  BY <1>4, <1>5
<1>7. /\ CString(u) \in Seq(Byte) /\ Len(CString(u)) = Len(u) + 1
      /\ CString(v) \in Seq(Byte) /\ Len(CString(v)) = Len(v) + 1
      /\ CString(Severity) \in Seq(Byte) /\ Len(CString(Severity)) = Len(Severity) + 1
      /\ CString(errMsg) \in Seq(Byte) /\ Len(CString(errMsg)) = Len(errMsg) + 1 /\ Len(errMsg) \in Nat
  BY <1>1, <1>3, StringRoundTrip
<1>8. One(0) \in Seq(Byte) /\ Len(One(0)) = 1 /\ One(Code.S) \in Seq(Byte) /\ Len(One(Code.S)) = 1
      /\ One(Code.M) \in Seq(Byte) /\ Len(One(Code.M)) = 1
  BY <1>2 DEF One
<1>9. Len(CString(u)) = Len(Severity) + 2 /\ Len(CString(v)) = Len(errMsg) + 2
  <2>1. Len(CString(u)) = Len(One(Code.S)) + Len(CString(Severity))
    BY <1>3, <1>7, <1>8, CatLen
  <2>2. Len(CString(v)) = Len(One(Code.M)) + Len(CString(errMsg))
    BY <1>3, <1>7, <1>8, CatLen
  <2>4. Len(One(Code.S)) + Len(CString(Severity)) = Len(Severity) + 2
    BY <1>1, <1>7, <1>8
  <2>5. Len(One(Code.M)) + Len(CString(errMsg)) = Len(errMsg) + 2
    BY <1>7, <1>8
  <2> QED BY <2>1, <2>2, <2>4, <2>5, Zenon
<1>10. FlattenSeq(seqs) = b
  <2>1. FlattenSeq(<<CString(u), CString(v), One(0)>>) = Cat(CString(u), Cat(CString(v), One(0)))
    <3>1. \A x, y, z \in Seq(Byte) : FlattenSeq(<<x, y, z>>) = Cat(x, Cat(y, z))
      BY FlattenFew
    <3>2. CString(u) \in Seq(Byte) /\ CString(v) \in Seq(Byte) /\ One(0) \in Seq(Byte)
      BY <1>7, <1>8
    <3> QED BY <3>1, <3>2, Zenon
  <2> QED BY <1>6, <2>1, Zenon
<1>11. b \in Seq(Byte) /\ 4 + Len(b) = n /\ Len(b) >= 3
  <2>1. Cat(CString(v), One(0)) \in Seq(Byte)
    BY <1>7, <1>8, CatType
  <2>2. Len(Cat(CString(v), One(0))) = Len(CString(v)) + Len(One(0))
    BY <1>7, <1>8, CatLen
  <2>3. b \in Seq(Byte)
    BY <1>7, <2>1, CatType
  <2>4. Len(b) = Len(CString(u)) + Len(Cat(CString(v), One(0)))
    BY <1>7, <2>1, CatLen
  <2>5. Len(b) = (Len(Severity) + 2) + ((Len(errMsg) + 2) + 1)
    BY <1>8, <1>9, <2>2, <2>4, Zenon
  <2>6. \A i, j, k \in Nat : i = 5 /\ k = (i + 2) + ((j + 2) + 1) =>
           4 + k = 4 + 1 + i + 1 + 1 + j + 1 + 1 /\ k >= 3
    OBVIOUS
  <2>7. Len(Severity) \in Nat /\ Len(errMsg) \in Nat /\ Len(b) \in Nat
    BY <1>1, <1>7, <2>3, LenProperties
  <2> QED BY <1>1, <2>3, <2>5, <2>6, <2>7, Zenon
<1> HIDE DEF seqs, texts
<1>12. /\ Cuts(StringSize, b, 3)
       /\ Piece(StringSize, b, 1) = CString(u) /\ Piece(StringSize, b, 2) = CString(v)
       /\ UpToNul(Piece(StringSize, b, 2)) = v /\ Piece(StringSize, b, 3) = CString(<<>>)
  <2>1. /\ Cuts(StringSize, FlattenSeq(seqs), Len(texts))
        /\ \A i \in 1..Len(texts) : /\ Piece(StringSize, FlattenSeq(seqs), i) = CString(texts[i])
                                    /\ UpToNul(Piece(StringSize, FlattenSeq(seqs), i)) = texts[i]
    BY <1>4, StringsFound DEF seqs
  <2>2. 1 \in 1..Len(texts) /\ 2 \in 1..Len(texts) /\ 3 \in 1..Len(texts)
    BY <1>4
  <2> QED BY <1>4, <1>10, <2>1, <2>2, Zenon
<1>13. Encode(m) = Frame(Code.E, n, b)
  <2> DEFINE s == One(Code.S)
             sv == CString(Severity)
             c == One(Code.M)
             e == CString(errMsg)
             z == One(0)
  <2>1. Encode(m) = sendError(errMsg)
    BY DEF Encode
  <2>2. Encode(m) = Frame(Code.E, n, Cat(Cat(Cat(Cat(s, sv), c), e), z))
    BY <2>1, Zenon DEF sendError, Cat, One
  <2>3. s \in Seq(Byte) /\ sv \in Seq(Byte) /\ c \in Seq(Byte) /\ e \in Seq(Byte) /\ z \in Seq(Byte) /\ <<>> \in Seq(Byte)
    BY <1>7, <1>8
  <2>4. b = Cat(Cat(s, sv), Cat(Cat(c, e), z))
    BY <1>3, Zenon
  <2> HIDE DEF s, sv, c, e, z, b, n
  <2>5. Cat(s, sv) \in Seq(Byte) /\ Cat(c, e) \in Seq(Byte) /\ Cat(e, z) \in Seq(Byte)
    BY <2>3, CatType
  <2>6. Cat(Cat(s, sv), Cat(Cat(c, e), z)) = Cat(Cat(Cat(s, sv), Cat(c, e)), z)
    BY <2>3, <2>5, CatAssoc
  <2>7. Cat(Cat(s, sv), Cat(c, e)) = Cat(Cat(Cat(s, sv), c), e)
    BY <2>3, <2>5, CatAssoc
  <2> QED BY <2>2, <2>4, <2>6, <2>7, Zenon
<1> HIDE DEF b, n
<1>14. Encode(m) = Framed(Code.E, b)
  BY <1>2, <1>11, <1>13, FrameIsFramed
<1>15. /\ \E k, i \in 1..Len(b) : IsError(b, k, i)
       /\ (CHOOSE i \in 1..Len(b) : \E k \in 1..Len(b) : IsError(b, k, i)) = 2
  <2>1. CString(u) # <<0>> /\ CString(v) # <<0>>
    <3>1. Len(CString(u)) # 1 /\ Len(CString(v)) # 1
      <4>1. \A i, j, k, l \in Nat : i = 5 /\ k = i + 2 /\ l = j + 2 => k # 1 /\ l # 1
        OBVIOUS
      <4>2. Len(Severity) \in Nat /\ Len(CString(u)) \in Nat /\ Len(CString(v)) \in Nat
        BY <1>1, <1>7, LenProperties
      <4> QED BY <1>1, <1>7, <1>9, <4>1, <4>2, Zenon
    <3>2. Len(<<0>>) = 1
      OBVIOUS
    <3> QED BY <3>1, <3>2
  <2>2. CString(u)[1] # Code.M /\ CString(v)[1] = Code.M
    BY <1>2, <1>3
  <2>3. CString(<<>>) = <<0>>
    BY <1>5 DEF One
  <2> QED BY <1>11, <1>12, <2>1, <2>2, <2>3, MessageField
<1>16. DecodeMessage(Framed(Code.E, b)) =
          <<"E", Tail(UpToNul(Piece(StringSize, b,
                     CHOOSE i \in 1..Len(b) : \E k \in 1..Len(b) : IsError(b, k, i))))>>
  BY <1>2, <1>11, <1>15, Branches, Zenon
<1>17. DecodeMessage(Framed(Code.E, b)) = m
  BY <1>3, <1>12, <1>15, <1>16, Zenon
<1> HIDE DEF m
<1>18. Len(b) + 5 = Len(errMsg) + 15
  BY <1>1, <1>7, <1>11 DEF n
<1> QED BY <1>2, <1>11, <1>14, <1>17, <1>18, Zenon DEF DecodesIn, m

\* A count in front of the parts.
LEMMA CountInFront ==
    ASSUME NEW n \in Nat, n < 128 * 256, NEW t \in Seq(Byte)
    PROVE  LET b == Cat(Int16(n), t)
           IN  /\ b \in Seq(Byte) /\ Len(b) = 2 + Len(t) /\ Len(t) \in Nat
               /\ Number(SubSeq(b, 1, 2)) = n /\ From(b, 3) = t
<1> DEFINE i == Int16(n)
           b == Cat(i, t)
<1>1. i \in Seq(Byte) /\ Len(i) = 2
  BY Int16Type
<1>2. Number(i) = n
  <2>1. n \div Place[5 - 2] \in -128..127 /\ 2 \in {2, 4} /\ n \in Int
    <3>1. n \div 256 \in -128..127 /\ n \in Int
      OBVIOUS
    <3>2. 5 - 2 = 3 /\ 2 \in {2, 4}
      OBVIOUS
    <3> QED BY <3>1, <3>2, Places, Zenon
  <2>2. Number(Bytes(n, 2)) = n
    BY <2>1, SignedRoundTrip
  <2> QED BY <2>2, Zenon DEF Int16
<1> HIDE DEF i
<1>3. SubSeq(b, 1, Len(i)) = i /\ From(b, Len(i) + 1) = t
  BY <1>1, CatCut
<1>4. Len(b) = Len(i) + Len(t) /\ Len(t) \in Nat
  BY <1>1, CatLen
<1>5. b \in Seq(Byte)
  BY <1>1, CatType
<1>6. Len(i) + 1 = 3
  BY <1>1
<1>7. Number(SubSeq(b, 1, 2)) = n /\ From(b, 3) = t
  BY <1>1, <1>2, <1>3, <1>6
<1>8. Len(b) = 2 + Len(t) /\ Len(t) \in Nat
  BY <1>1, <1>4
<1> QED BY <1>5, <1>7, <1>8, Zenon DEF i

\* The size of the parts is what their sizes add up to.
LEMMA CountedFrame ==
    ASSUME NEW c \in Byte, NEW n \in Nat, NEW seqs \in Seq(Seq(Byte)), NEW sizes \in Seq(Nat),
           Len(sizes) = Len(seqs), \A k \in 1..Len(seqs) : sizes[k] = Len(seqs[k])
    PROVE  LET b == Cat(Int16(n), FlattenSeq(seqs))
           IN  b \in Seq(Byte) /\ Frame(c, 4 + 2 + SumOf(sizes), b) = Framed(c, b)
<1> DEFINE i == Int16(n)
           t == FlattenSeq(seqs)
           b == Cat(i, t)
<1>1. i \in Seq(Byte) /\ Len(i) = 2
  BY Int16Type
<1>2. t \in Seq(Byte)
  BY FlattenType
<1>3. Len(t) = SumOf(sizes)
  BY FlattenLength
<1> HIDE DEF i, t
<1>4. b \in Seq(Byte)
  BY <1>1, <1>2, CatType
<1>5. Len(b) = Len(i) + Len(t) /\ Len(t) \in Nat
  BY <1>1, <1>2, CatLen
<1>6. 4 + 2 + SumOf(sizes) = 4 + Len(b)
  BY <1>1, <1>3, <1>5
<1> HIDE DEF b
<1>7. Frame(c, 4 + 2 + SumOf(sizes), b) = Framed(c, b)
  BY <1>4, <1>6, FrameIsFramed
<1> QED BY <1>4, <1>7, Zenon DEF b, i, t

LEMMA RowDescriptionDecodes ==
    ASSUME NEW fields \in Seq(FieldDescription), Sendable(<<"T", fields>>)
    PROVE  Decodes(<<"T", fields>>)
<1> DEFINE m == <<"T", fields>>
           n == Len(fields)
           seqs == [i \in DOMAIN fields |-> FieldBytes(fields[i])]
           sizes == [i \in DOMAIN fields |-> Len(fields[i].name) + 1 + SumOf(Widths)]
           t == FlattenSeq(seqs)
           b == Cat(Int16(n), t)
<1>1. n \in Nat /\ DOMAIN fields = 1..n /\ \A i \in 1..n : fields[i] \in FieldDescription
  OBVIOUS
<1>2. n < 128 * 256
  <2>1. m[1] = "T" /\ m[2] = fields
    OBVIOUS
  <2> QED BY <2>1 DEF Sendable
<1>3. \A i \in 1..n :
         /\ FieldBytes(fields[i]) \in Seq(Byte)
         /\ Len(FieldBytes(fields[i])) = Len(fields[i].name) + 1 + SumOf(Widths)
         /\ Len(FieldBytes(fields[i])) >= 1 /\ Len(fields[i].name) \in Nat
         /\ \A s \in Seq(Byte) : ColumnSize[Cat(FieldBytes(fields[i]), s)] = Len(FieldBytes(fields[i]))
         /\ DecodeColumn(FieldBytes(fields[i])) = fields[i]
  BY <1>1, ColumnRoundTrip
<1>4. seqs = [i \in 1..n |-> FieldBytes(fields[i])]
      /\ sizes = [i \in 1..n |-> Len(fields[i].name) + 1 + SumOf(Widths)]
  BY <1>1, Zenon
<1>5. Encode(m) = Frame(Code.T, 4 + 2 + SumOf(sizes), b)
  <2>1. Encode(m) = sendRowDescription(fields)
    BY DEF Encode
  <2> QED BY <2>1, Zenon DEF sendRowDescription, Cat
<1> HIDE DEF seqs, sizes
<1>6. seqs \in Seq(Seq(Byte)) /\ Len(seqs) = n /\ \A i \in 1..n : seqs[i] = FieldBytes(fields[i])
  BY <1>1, <1>3, <1>4
<1>7. sizes \in Seq(Nat) /\ Len(sizes) = n /\ \A i \in 1..n : sizes[i] = Len(fields[i].name) + 1 + SumOf(Widths)
  <2>1. SumOf(Widths) \in Nat
    BY WidthsType
  <2> QED BY <1>1, <1>3, <1>4, <2>1
<1>8. \A i \in 1..n : sizes[i] = Len(seqs[i])
  BY <1>3, <1>6, <1>7
<1>9. Code.T \in Byte
  BY CodesAre DEF Byte
<1>10. b \in Seq(Byte) /\ Encode(m) = Framed(Code.T, b)
  BY <1>1, <1>5, <1>6, <1>7, <1>8, <1>9, CountedFrame
<1>11. Sized(ColumnSize, seqs)
  BY <1>3, <1>6, Zenon DEF Sized
<1>12. Cuts(ColumnSize, t, n) /\ \A i \in 1..n : Piece(ColumnSize, t, i) = FieldBytes(fields[i])
  BY <1>6, <1>11, PiecesFound, Zenon
<1>13. t \in Seq(Byte)
  BY <1>6, FlattenType
<1> HIDE DEF t
<1>14. Number(SubSeq(b, 1, 2)) = n /\ From(b, 3) = t
  BY <1>1, <1>2, <1>13, CountInFront
<1> HIDE DEF b
<1>15. DecodeMessage(Framed(Code.T, b)) = <<"T", [i \in 1..n |-> DecodeColumn(Piece(ColumnSize, t, i))]>>
  <2>1. Cuts(ColumnSize, From(b, 3), Number(SubSeq(b, 1, 2)))
    BY <1>12, <1>14, Zenon
  <2>2. DecodeMessage(Framed(Code.T, b)) =
           <<"T", [i \in 1..Number(SubSeq(b, 1, 2)) |-> DecodeColumn(Piece(ColumnSize, From(b, 3), i))]>>
    BY <1>9, <1>10, <2>1, Branches, Zenon
  <2> QED BY <1>14, <2>2, Zenon
<1>16. [i \in 1..n |-> DecodeColumn(Piece(ColumnSize, t, i))] = fields
  <2>1. \A i \in 1..n : DecodeColumn(Piece(ColumnSize, t, i)) = fields[i]
    BY <1>3, <1>12
  <2>2. [i \in 1..n |-> DecodeColumn(Piece(ColumnSize, t, i))] = [i \in 1..n |-> fields[i]]
    BY <2>1
  <2>3. [i \in 1..n |-> fields[i]] = fields
    BY <1>1
  <2> QED BY <2>2, <2>3, Zenon
<1>17. 4 + Len(b) <= MaxInt32
  BY <1>9, <1>10, FramedFits
<1>18. DecodeMessage(Framed(Code.T, b)) = m
  BY <1>15, <1>16, Zenon
<1> HIDE DEF m
<1> QED BY <1>9, <1>10, <1>17, <1>18, Zenon DEF Decodes, m

LEMMA ValueLength ==
    ASSUME NEW v \in Value
    PROVE  /\ ValueBytes(v) \in Seq(Byte) /\ ValueSize(v) \in Nat /\ Len(ValueBytes(v)) = ValueSize(v)
           /\ v # {} => Len(ValueOf(v)) <= ValueSize(v) /\ Len(ValueOf(v)) \in Nat
<1>1. ValueBytes(v) \in Seq(Byte) /\ ValueSize(v) \in Nat
  BY ValueType
<1>2. CASE v = {}
  <2>1. ValueBytes(v) = Int32(-1) /\ ValueSize(v) = 4
    BY <1>2 DEF ValueBytes, ValueSize
  <2>2. Len(Int32(-1)) = 4
    BY Int32Type
  <2> QED BY <1>1, <1>2, <2>1, <2>2
<1>3. CASE v # {}
  <2> DEFINE d == ValueOf(v)
             i == Int32(Len(d))
  <2>1. d \in v
    BY <1>3 DEF ValueOf
  <2>2. d \in Seq(Byte)
    BY <2>1 DEF Value
  <2>3. ValueBytes(v) = Cat(i, d)
    BY <1>3, Zenon DEF ValueBytes, Cat
  <2>4. ValueSize(v) = 4 + Len(d)
    BY <1>3 DEF ValueSize
  <2> HIDE DEF d
  <2>5. i \in Seq(Byte) /\ Len(i) = 4 /\ Len(d) \in Nat
    BY <2>2, LenProperties, Int32Type
  <2> HIDE DEF i
  <2>6. Len(Cat(i, d)) = Len(i) + Len(d)
    BY <2>2, <2>5, CatLen
  <2>7. Len(ValueBytes(v)) = ValueSize(v)
    BY <2>3, <2>4, <2>5, <2>6
  <2>8. Len(d) <= ValueSize(v)
    BY <2>4, <2>5
  <2> QED BY <1>1, <2>5, <2>7, <2>8 DEF d
<1> QED BY <1>2, <1>3

LEMMA DataRowDecodes ==
    ASSUME NEW values \in Seq(Value), Sendable(<<"D", values>>)
    PROVE  Decodes(<<"D", values>>)
<1> DEFINE m == <<"D", values>>
           n == Len(values)
           seqs == [i \in DOMAIN values |-> ValueBytes(values[i])]
           sizes == [i \in DOMAIN values |-> ValueSize(values[i])]
           t == FlattenSeq(seqs)
           b == Cat(Int16(n), t)
<1>1. n \in Nat /\ DOMAIN values = 1..n /\ \A i \in 1..n : values[i] \in Value
  OBVIOUS
<1>2. n < 128 * 256
  <2>1. m[1] = "D" /\ m[2] = values
    OBVIOUS
  <2> QED BY <2>1 DEF Sendable
<1>3. \A i \in 1..n :
         /\ ValueBytes(values[i]) \in Seq(Byte) /\ ValueSize(values[i]) \in Nat
         /\ Len(ValueBytes(values[i])) = ValueSize(values[i])
         /\ values[i] # {} => Len(ValueOf(values[i])) <= ValueSize(values[i]) /\ Len(ValueOf(values[i])) \in Nat
  BY <1>1, ValueLength
<1>4. seqs = [i \in 1..n |-> ValueBytes(values[i])] /\ sizes = [i \in 1..n |-> ValueSize(values[i])]
  BY <1>1, Zenon
<1>5. Encode(m) = Frame(Code.D, 4 + 2 + SumOf(sizes), b)
  <2>1. Encode(m) = sendDataRow(values)
    BY DEF Encode
  <2> QED BY <2>1, Zenon DEF sendDataRow, Cat
<1> HIDE DEF seqs, sizes
<1>6. seqs \in Seq(Seq(Byte)) /\ Len(seqs) = n /\ \A i \in 1..n : seqs[i] = ValueBytes(values[i])
  BY <1>1, <1>3, <1>4
<1>7. sizes \in Seq(Nat) /\ Len(sizes) = n /\ \A i \in 1..n : sizes[i] = ValueSize(values[i])
  BY <1>1, <1>3, <1>4
<1>8. \A i \in 1..n : sizes[i] = Len(seqs[i])
  BY <1>3, <1>6, <1>7
<1>9. Code.D \in Byte
  BY CodesAre DEF Byte
<1>10. b \in Seq(Byte) /\ Encode(m) = Framed(Code.D, b)
  BY <1>1, <1>5, <1>6, <1>7, <1>8, <1>9, CountedFrame
<1>11. t \in Seq(Byte)
  BY <1>6, FlattenType
<1>12. 4 + Len(b) <= MaxInt32
  BY <1>9, <1>10, FramedFits
<1>13. Len(b) = 2 + Len(t) /\ Len(t) \in Nat
  BY <1>1, <1>2, <1>11, CountInFront
<1>14. ASSUME NEW i \in 1..n, values[i] # {} PROVE Len(ValueOf(values[i])) <= MaxInt32
  <2>1. PICK g : Concatenates(g, seqs, Byte)
    BY <1>6, ConcatenationExists
  <2>2. Len(seqs[i]) <= Len(t)
    BY <1>6, <2>1, PartsFound
  <2>3. Len(seqs[i]) = ValueSize(values[i]) /\ Len(ValueOf(values[i])) <= ValueSize(values[i])
        /\ Len(ValueOf(values[i])) \in Nat /\ ValueSize(values[i]) \in Nat
    BY <1>3, <1>6, <1>14
  <2>4. MaxInt32 \in Int
    BY MaxBound
  <2> HIDE DEF b, t
  <2> QED BY <1>12, <1>13, <2>2, <2>3, <2>4
<1>15. \A i \in 1..n :
          /\ Len(ValueBytes(values[i])) >= 1
          /\ \A s \in Seq(Byte) : DatumSize[Cat(ValueBytes(values[i]), s)] = Len(ValueBytes(values[i]))
          /\ DecodeDatum(ValueBytes(values[i])) = values[i]
  BY <1>1, <1>14, DatumRoundTrip
<1>16. Sized(DatumSize, seqs)
  BY <1>3, <1>6, <1>15, Zenon DEF Sized
<1>17. Cuts(DatumSize, t, n) /\ \A i \in 1..n : Piece(DatumSize, t, i) = ValueBytes(values[i])
  BY <1>6, <1>16, PiecesFound, Zenon
<1> HIDE DEF t
<1>18. Number(SubSeq(b, 1, 2)) = n /\ From(b, 3) = t
  BY <1>1, <1>2, <1>11, CountInFront
<1> HIDE DEF b
<1>19. DecodeMessage(Framed(Code.D, b)) = <<"D", [i \in 1..n |-> DecodeDatum(Piece(DatumSize, t, i))]>>
  <2>1. Cuts(DatumSize, From(b, 3), Number(SubSeq(b, 1, 2)))
    BY <1>17, <1>18, Zenon
  <2>2. DecodeMessage(Framed(Code.D, b)) =
           <<"D", [i \in 1..Number(SubSeq(b, 1, 2)) |-> DecodeDatum(Piece(DatumSize, From(b, 3), i))]>>
    BY <1>9, <1>10, <2>1, Branches, Zenon
  <2> QED BY <1>18, <2>2, Zenon
<1>20. [i \in 1..n |-> DecodeDatum(Piece(DatumSize, t, i))] = values
  <2>1. \A i \in 1..n : DecodeDatum(Piece(DatumSize, t, i)) = values[i]
    BY <1>15, <1>17
  <2>2. [i \in 1..n |-> DecodeDatum(Piece(DatumSize, t, i))] = [i \in 1..n |-> values[i]]
    BY <2>1
  <2>3. [i \in 1..n |-> values[i]] = values
    BY <1>1
  <2> QED BY <2>2, <2>3, Zenon
<1>21. DecodeMessage(Framed(Code.D, b)) = m
  BY <1>19, <1>20, Zenon
<1> HIDE DEF m
<1> QED BY <1>9, <1>10, <1>12, <1>21, Zenon DEF Decodes, m

-----------------------------------------------------------------------------
(* All replies. *)

\* The messages that the send functions write.
Forms ==
    {<<"R">>, <<"K">>}
    \cup {<<"S", p[1], p[2]>> : p \in Text \X Text}
    \cup {<<"Z", status>> : status \in {"I", "T", "E"}}
    \cup {<<"E", msg>> : msg \in Text}
    \cup {<<"C", tag>> : tag \in Text}
    \cup {<<"T", fields>> : fields \in Seq(FieldDescription)}
    \cup {<<"D", values>> : values \in Seq(Value)}

\* Each message that is written can be sent.
Messages == {m \in Forms : Sendable(m)}

LEMMA SizedDecodes ==
    ASSUME NEW m, NEW n, DecodesIn(m, n), n <= 100
    PROVE  Len(Encode(m)) <= MaxInt32
<1>1. PICK c \in Byte, body \in Seq(Byte) : Encode(m) = Framed(c, body) /\ Len(body) + 5 = n
  BY DEF DecodesIn
<1>2. Len(Framed(c, body)) = 5 + Len(body) /\ Len(body) \in Nat
  BY FramedType, LenProperties
<1>3. MaxInt32 \in Int /\ MaxInt32 >= 100
  <2>1. Place[1] = 256 * (256 * 256)
    BY DEF Place
  <2> QED BY <2>1 DEF MaxInt32
<1> QED BY <1>1, <1>2, <1>3

LEMMA SendableDecodes ==
    ASSUME NEW m, Sendable(m), NEW n, DecodesIn(m, n)
    PROVE  Decodes(m)
<1>1. PICK c \in Byte, body \in Seq(Byte) : Encode(m) = Framed(c, body) /\ DecodeMessage(Framed(c, body)) = m
  BY DEF DecodesIn
<1>2. 4 + Len(body) <= MaxInt32
  BY <1>1, FramedFits
<1> QED BY <1>1, <1>2, Zenon DEF Decodes

LEMMA MessageForms ==
    /\ <<"R">> \in Messages /\ <<"K">> \in Messages
    /\ \A status \in {"I", "T", "E"} : <<"Z", status>> \in Messages
    /\ <<"E", Unsupported>> \in Messages /\ <<"C", SelectZero>> \in Messages
    /\ \A p \in Text \X Text : Sendable(<<"S", p[1], p[2]>>) => <<"S", p[1], p[2]>> \in Messages
    /\ \A msg \in Text : /\ Sendable(<<"E", msg>>) => <<"E", msg>> \in Messages
                         /\ Sendable(<<"C", msg>>) => <<"C", msg>> \in Messages
    /\ \A fields \in Seq(FieldDescription) : Sendable(<<"T", fields>>) => <<"T", fields>> \in Messages
    /\ \A values \in Seq(Value) : Sendable(<<"D", values>>) => <<"D", values>> \in Messages
<1>1. Unsupported \in Text /\ Len(Unsupported) = 2 /\ SelectZero \in Text /\ Len(SelectZero) = 2
  BY DEF Unsupported, SelectZero, Text
<1>2. /\ <<"R">> \in Forms /\ <<"K">> \in Forms
      /\ \A p \in Text \X Text : <<"S", p[1], p[2]>> \in Forms
      /\ \A status \in {"I", "T", "E"} : <<"Z", status>> \in Forms
      /\ \A msg \in Text : <<"E", msg>> \in Forms /\ <<"C", msg>> \in Forms
      /\ \A fields \in Seq(FieldDescription) : <<"T", fields>> \in Forms
      /\ \A values \in Seq(Value) : <<"D", values>> \in Forms
  BY Zenon DEF Forms
<1>3. \A m : Len(Encode(m)) <= MaxInt32 /\ m[1] \notin {"T", "D"} => Sendable(m)
  BY Zenon DEF Sendable
<1>4. Sendable(<<"R">>) /\ Sendable(<<"K">>)
  <2>1. Len(Encode(<<"R">>)) <= MaxInt32 /\ Len(Encode(<<"K">>)) <= MaxInt32
    BY FixedDecode, SizedDecodes
  <2>2. <<"R">>[1] \notin {"T", "D"} /\ <<"K">>[1] \notin {"T", "D"}
    OBVIOUS
  <2> QED BY <1>3, <2>1, <2>2
<1>5. ASSUME NEW status \in {"I", "T", "E"} PROVE Sendable(<<"Z", status>>)
  <2>1. Len(Encode(<<"Z", status>>)) <= MaxInt32
    BY FixedDecode, SizedDecodes
  <2>2. <<"Z", status>>[1] \notin {"T", "D"}
    OBVIOUS
  <2> QED BY <1>3, <2>1, <2>2
<1>6. Sendable(<<"E", Unsupported>>)
  <2>1. DecodesIn(<<"E", Unsupported>>, Len(Unsupported) + 15) /\ Len(Unsupported) + 15 <= 100
    <3>1. Len(Unsupported) + 15 <= 100
      BY <1>1
    <3>2. Unsupported \in Text
      BY <1>1
    <3> QED BY <3>1, <3>2, ErrorDecodes, Zenon
  <2>2. Len(Encode(<<"E", Unsupported>>)) <= MaxInt32
    BY <2>1, SizedDecodes
  <2>3. <<"E", Unsupported>>[1] \notin {"T", "D"}
    OBVIOUS
  <2> QED BY <1>3, <2>2, <2>3
<1>7. Sendable(<<"C", SelectZero>>)
  <2>1. DecodesIn(<<"C", SelectZero>>, Len(SelectZero) + 6) /\ Len(SelectZero) + 6 <= 100
    <3>1. Len(SelectZero) + 6 <= 100
      BY <1>1
    <3>2. SelectZero \in Text
      BY <1>1
    <3> QED BY <3>1, <3>2, TagDecodes, Zenon
  <2>2. Len(Encode(<<"C", SelectZero>>)) <= MaxInt32
    BY <2>1, SizedDecodes
  <2>3. <<"C", SelectZero>>[1] \notin {"T", "D"}
    OBVIOUS
  <2> QED BY <1>3, <2>2, <2>3
<1> QED BY <1>1, <1>2, <1>4, <1>5, <1>6, <1>7, Zenon DEF Messages

\* The client reads each message as it was meant.
LEMMA MessageDecodes == ASSUME NEW m \in Messages PROVE Decodes(m)
<1>1. m \in Forms /\ Sendable(m)
  BY DEF Messages
<1>2. CASE m = <<"R">>
  BY <1>1, <1>2, FixedDecode, SendableDecodes
<1>3. CASE m = <<"K">>
  BY <1>1, <1>3, FixedDecode, SendableDecodes
<1>4. ASSUME NEW p \in Text \X Text, m = <<"S", p[1], p[2]>> PROVE Decodes(m)
  <2>1. p[1] \in Text /\ p[2] \in Text
    OBVIOUS
  <2>2. Sendable(<<"S", p[1], p[2]>>)
    BY <1>1, <1>4, Zenon
  <2>3. Decodes(<<"S", p[1], p[2]>>)
    BY <2>1, <2>2, StatusDecodes
  <2> QED BY <1>4, <2>3, Zenon
<1>5. ASSUME NEW status \in {"I", "T", "E"}, m = <<"Z", status>> PROVE Decodes(m)
  BY <1>1, <1>5, FixedDecode, SendableDecodes
<1>6. ASSUME NEW msg \in Text, m = <<"E", msg>> PROVE Decodes(m)
  BY <1>1, <1>6, ErrorDecodes, SendableDecodes
<1>7. ASSUME NEW tag \in Text, m = <<"C", tag>> PROVE Decodes(m)
  BY <1>1, <1>7, TagDecodes, SendableDecodes
<1>8. ASSUME NEW fields \in Seq(FieldDescription), m = <<"T", fields>> PROVE Decodes(m)
  <2>1. Decodes(<<"T", fields>>)
    BY <1>1, <1>8, RowDescriptionDecodes
  <2> QED BY <1>8, <2>1, Zenon
<1>9. ASSUME NEW values \in Seq(Value), m = <<"D", values>> PROVE Decodes(m)
  <2>1. Decodes(<<"D", values>>)
    BY <1>1, <1>9, DataRowDecodes
  <2> QED BY <1>9, <2>1, Zenon
<1> QED BY <1>1, <1>2, <1>3, <1>4, <1>5, <1>6, <1>7, <1>8, <1>9 DEF Forms

\* The bytes of replies, one behind the other.
Encoded(msgs) == [i \in 1..Len(msgs) |-> Encode(msgs[i])]
Stream(msgs) == FlattenSeq(Encoded(msgs))

LEMMA EncodedType ==
    ASSUME NEW msgs \in Seq(Messages)
    PROVE  /\ Encoded(msgs) \in Seq(Seq(Byte)) /\ Len(Encoded(msgs)) = Len(msgs) /\ Len(msgs) \in Nat
           /\ \A i \in 1..Len(msgs) : Encoded(msgs)[i] = Encode(msgs[i])
           /\ Stream(msgs) \in Seq(Byte)
           /\ Stream(<<>>) = <<>>
<1>1. Len(msgs) \in Nat /\ \A i \in 1..Len(msgs) : msgs[i] \in Messages
  OBVIOUS
<1>2. \A i \in 1..Len(msgs) : Encode(msgs[i]) \in Seq(Byte)
  <2> SUFFICES ASSUME NEW i \in 1..Len(msgs) PROVE Encode(msgs[i]) \in Seq(Byte)
    OBVIOUS
  <2>1. PICK c \in Byte, body \in Seq(Byte) : Encode(msgs[i]) = Framed(c, body)
    BY <1>1, MessageDecodes DEF Decodes
  <2> QED BY <2>1, FramedType
<1>3. /\ Encoded(msgs) \in Seq(Seq(Byte)) /\ Len(Encoded(msgs)) = Len(msgs)
      /\ \A i \in 1..Len(msgs) : Encoded(msgs)[i] = Encode(msgs[i])
  BY <1>1, <1>2 DEF Encoded
<1>4. Stream(msgs) \in Seq(Byte)
  BY <1>3, FlattenType DEF Stream
<1>5. Stream(<<>>) = <<>>
  <2>1. Encoded(<<>>) = <<>>
    BY DEF Encoded
  <2>2. FlattenSeq(<<>>) = <<>>
    BY <1>3, FlattenType
  <2> QED BY <2>1, <2>2, Zenon DEF Stream
<1> QED BY <1>1, <1>3, <1>4, <1>5

\* A message says how long it is.
LEMMA MessageIsSized ==
    ASSUME NEW c \in Byte, NEW body \in Seq(Byte), 4 + Len(body) <= MaxInt32, NEW t \in Seq(Byte)
    PROVE  MessageSize[Cat(Framed(c, body), t)] = Len(Framed(c, body))
<1> DEFINE m == Framed(c, body)
           b == Cat(m, t)
<1>1. m \in Seq(Byte) /\ Len(m) = 5 + Len(body) /\ Len(body) \in Nat
  BY FramedType, LenProperties
<1>2. Number(SubSeq(b, 2, 5)) = 4 + Len(body)
  BY FramedLength
<1> HIDE DEF m
<1>3. b \in Seq(Byte) /\ ~(Len(b) < 5) /\ ~(4 + Len(body) < 4)
  <2>1. b \in Seq(Byte)
    BY <1>1, CatType
  <2>2. Len(b) = Len(m) + Len(t) /\ Len(t) \in Nat
    BY <1>1, CatLen
  <2> QED BY <1>1, <2>1, <2>2
<1>4. MessageSize[b] = 1 + (4 + Len(body))
  BY <1>2, <1>3, Zenon DEF MessageSize
<1>5. MessageSize[b] = Len(m)
  BY <1>1, <1>4
<1> QED BY <1>5 DEF m

\* The client finds the messages that were written in their bytes.
LEMMA StreamIsUnderstood ==
    ASSUME NEW msgs \in Seq(Messages)
    PROVE  /\ Cuts(MessageSize, Stream(msgs), Len(msgs))
           /\ \A i \in 1..Len(msgs) : DecodeMessage(Piece(MessageSize, Stream(msgs), i)) = msgs[i]
<1> DEFINE seqs == Encoded(msgs)
<1>1. seqs \in Seq(Seq(Byte)) /\ Len(seqs) = Len(msgs) /\ Len(msgs) \in Nat
      /\ \A i \in 1..Len(msgs) : seqs[i] = Encode(msgs[i])
  BY EncodedType
<1> HIDE DEF seqs
<1>2. ASSUME NEW i \in 1..Len(msgs)
      PROVE  /\ Len(seqs[i]) >= 1 /\ DecodeMessage(seqs[i]) = msgs[i]
             /\ \A t \in Seq(Byte) : MessageSize[Cat(seqs[i], t)] = Len(seqs[i])
  <2>1. msgs[i] \in Messages
    OBVIOUS
  <2>2. PICK c \in Byte, body \in Seq(Byte) :
           /\ Encode(msgs[i]) = Framed(c, body) /\ 4 + Len(body) <= MaxInt32
           /\ DecodeMessage(Framed(c, body)) = msgs[i]
    BY <2>1, MessageDecodes DEF Decodes
  <2>3. Len(Framed(c, body)) = 5 + Len(body) /\ Len(body) \in Nat
    BY FramedType, LenProperties
  <2>4. Len(Framed(c, body)) >= 1
    BY <2>3
  <2>5. \A t \in Seq(Byte) : MessageSize[Cat(Framed(c, body), t)] = Len(Framed(c, body))
    BY <2>2, MessageIsSized
  <2>6. seqs[i] = Framed(c, body)
    BY <1>1, <2>2
  <2> QED BY <2>2, <2>4, <2>5, <2>6, Zenon
<1>3. Sized(MessageSize, seqs)
  BY <1>1, <1>2, Zenon DEF Sized
<1>4. Cuts(MessageSize, FlattenSeq(seqs), Len(seqs))
      /\ \A i \in 1..Len(seqs) : Piece(MessageSize, FlattenSeq(seqs), i) = seqs[i]
  BY <1>3, PiecesFound
<1>5. FlattenSeq(seqs) = Stream(msgs)
  BY Zenon DEF Stream, seqs
<1> QED BY <1>1, <1>2, <1>4, <1>5, Zenon
-----------------------------------------------------------------------------
(* An answer ends with its only ReadyForQuery. *)

OneReady(msgs) ==
    /\ msgs \in Seq(Messages) /\ Len(msgs) >= 1
    /\ \A i \in 1..Len(msgs) : msgs[i][1] = "Z" <=> i = Len(msgs)

NoReady(msgs) == msgs \in Seq(Messages) /\ \A i \in 1..Len(msgs) : msgs[i][1] # "Z"

LEMMA AnswerEnds ==
    ASSUME NEW h, NoReady(h), NEW x \in Messages, x[1] # "Z", NEW z \in Messages, z[1] = "Z"
    PROVE  OneReady(h \o <<x, z>>)
<1> DEFINE msgs == h \o <<x, z>>
<1>1. h \in Seq(Messages) /\ Len(h) \in Nat /\ \A i \in 1..Len(h) : h[i][1] # "Z"
  BY LenProperties DEF NoReady
<1>2. msgs \in Seq(Messages) /\ Len(msgs) = Len(h) + 2 /\ msgs[Len(h) + 1] = x /\ msgs[Len(h) + 2] = z
      /\ \A i \in 1..Len(h) : msgs[i] = h[i]
  BY <1>1
<1> HIDE DEF msgs
<1>3. ASSUME NEW i \in 1..Len(msgs) PROVE msgs[i][1] = "Z" <=> i = Len(msgs)
  <2>1. i \in 1..Len(h) \/ i = Len(h) + 1 \/ i = Len(h) + 2
    BY <1>1, <1>2
  <2>2. CASE i \in 1..Len(h)
    <3>1. msgs[i][1] # "Z" /\ i # Len(msgs)
      BY <1>1, <1>2, <2>2
    <3> QED BY <3>1
  <2>3. CASE i = Len(h) + 1
    <3>1. msgs[i][1] # "Z" /\ i # Len(msgs)
      BY <1>1, <1>2, <2>3
    <3> QED BY <3>1
  <2>4. CASE i = Len(h) + 2
    BY <1>2, <2>4
  <2> QED BY <2>1, <2>2, <2>3, <2>4
<1> QED BY <1>1, <1>2, <1>3 DEF OneReady, msgs

LEMMA HeadType ==
    ASSUME NEW x \in Messages, x[1] # "Z", NEW n \in Nat, NEW f \in [1..n -> Messages],
           \A i \in 1..n : f[i][1] # "Z"
    PROVE  NoReady(<<x>> \o f)
<1>1. f \in Seq(Messages) /\ Len(f) = n
  OBVIOUS
<1> DEFINE msgs == <<x>> \o f
<1>2. msgs \in Seq(Messages) /\ Len(msgs) = n + 1 /\ msgs[1] = x /\ \A i \in 1..n : msgs[i + 1] = f[i]
  BY <1>1
<1> HIDE DEF msgs
<1>3. ASSUME NEW i \in 1..Len(msgs) PROVE msgs[i][1] # "Z"
  <2>1. i = 1 \/ (i - 1 \in 1..n /\ (i - 1) + 1 = i)
    BY <1>2
  <2>2. CASE i = 1
    BY <1>2, <2>2
  <2>3. CASE i - 1 \in 1..n /\ (i - 1) + 1 = i
    <3>1. msgs[i] = f[i - 1]
      BY <1>2, <2>3
    <3> QED BY <2>3, <3>1
  <2> QED BY <2>1, <2>2, <2>3
<1> QED BY <1>2, <1>3 DEF NoReady, msgs

LEMMA AuthOkReady == OneReady(sendAuthOk)
<1> DEFINE n == Len(ServerParams)
           f == [i \in DOMAIN ServerParams |-> <<"S", ServerParams[i][1], ServerParams[i][2]>>]
           h == <<<<"R">>>> \o f
<1>1. n \in Nat /\ DOMAIN ServerParams = 1..n /\ \A i \in 1..n : ServerParams[i] \in Text \X Text
  <2>1. ServerParams \in Seq(Text \X Text)
    BY WireAssumption
  <2> QED BY <2>1
<1>2. \A i \in 1..n : f[i] \in Messages /\ f[i][1] # "Z"
  <2> SUFFICES ASSUME NEW i \in 1..n PROVE f[i] \in Messages /\ f[i][1] # "Z"
    OBVIOUS
  <2>1. f[i] = <<"S", ServerParams[i][1], ServerParams[i][2]>>
    BY <1>1
  <2>2. f[i] \in Messages
    <3>1. Sendable(<<"S", ServerParams[i][1], ServerParams[i][2]>>)
      BY <1>1, AnswersFit
    <3>2. ServerParams[i] \in Text \X Text
      BY <1>1
    <3> QED BY <2>1, <3>1, <3>2, MessageForms, Zenon
  <2> QED BY <2>1, <2>2
<1>3. f \in [1..n -> Messages]
  BY <1>1, <1>2
<1> HIDE DEF f
<1>4. <<"R">> \in Messages /\ <<"R">>[1] # "Z"
  BY MessageForms
<1>5. NoReady(h)
  BY <1>1, <1>2, <1>3, <1>4, HeadType
<1> HIDE DEF h
<1>6. OneReady(h \o <<<<"K">>, <<"Z", "I">>>>)
  <2>1. <<"K">> \in Messages /\ <<"K">>[1] # "Z" /\ <<"Z", "I">> \in Messages /\ <<"Z", "I">>[1] = "Z"
    BY MessageForms
  <2> QED BY <1>5, <2>1, AnswerEnds
<1> QED BY <1>6, Zenon DEF sendAuthOk, h, f

LEMMA ErrorReplyReady ==
    ASSUME NEW h, NoReady(h), NEW errMsg, <<"E", errMsg>> \in Messages, NEW status \in {"I", "T", "E"}
    PROVE  OneReady(h \o ErrorReply(errMsg, status))
<1>1. <<"E", errMsg>> \in Messages /\ <<"E", errMsg>>[1] # "Z"
      /\ <<"Z", status>> \in Messages /\ <<"Z", status>>[1] = "Z"
  BY MessageForms
<1>2. OneReady(h \o <<<<"E", errMsg>>, <<"Z", status>>>>)
  BY <1>1, AnswerEnds
<1> QED BY <1>2, Zenon DEF ErrorReply

\* Whatever the server answers, refused, failed or complete.
LEMMA RelayedReady ==
    ASSUME NEW r \in Results, NEW status \in {"I", "T"}, NEW errStatus \in {"I", "T", "E"}
    PROVE  OneReady(Relayed(r, status) \o (IF Fails(r) THEN ErrorReply(r.error, errStatus) ELSE <<>>))
<1> DEFINE rows == [i \in DOMAIN r.rows |-> <<"D", r.rows[i]>>]
           h == IF r.is = "refused" \/ r.fields = <<>> THEN <<>> ELSE <<<<"T", r.fields>>>> \o rows
           tag == IF r.tag = <<>> THEN SelectZero ELSE r.tag
           complete == <<<<"C", tag>>, <<"Z", status>>>>
<1>1. r.fields \in Seq(FieldDescription) /\ r.rows \in Seq(Seq(Value)) /\ r.tag \in Text /\ r.error \in Text
  <2>1. r \in Answer
    BY WireAssumption
  <2> QED BY <2>1 DEF Answer
<1>0. /\ Sendable(<<"T", r.fields>>) /\ \A i \in DOMAIN r.rows : Sendable(<<"D", r.rows[i]>>)
      /\ Sendable(<<"C", r.tag>>) /\ Sendable(<<"E", r.error>>)
  BY AnswersFit
<1>2. <<"C", tag>> \in Messages /\ <<"E", r.error>> \in Messages
  <2>1. <<"C", SelectZero>> \in Messages /\ <<"C", r.tag>> \in Messages /\ <<"E", r.error>> \in Messages
    BY <1>0, <1>1, MessageForms, Zenon
  <2>2. tag = SelectZero \/ tag = r.tag
    OBVIOUS
  <2> HIDE DEF tag
  <2> QED BY <2>1, <2>2
<1> HIDE DEF tag
<1>3. NoReady(h)
  <2>1. CASE r.is = "refused" \/ r.fields = <<>>
    BY <2>1 DEF NoReady
  <2>2. CASE ~(r.is = "refused" \/ r.fields = <<>>)
    <3> DEFINE n == Len(r.rows)
    <3>1. n \in Nat /\ DOMAIN r.rows = 1..n /\ \A i \in 1..n : r.rows[i] \in Seq(Value)
      BY <1>1
    <3>2. \A i \in 1..n : rows[i] \in Messages /\ rows[i][1] # "Z"
      <4> SUFFICES ASSUME NEW i \in 1..n PROVE rows[i] \in Messages /\ rows[i][1] # "Z"
        OBVIOUS
      <4>1. rows[i] = <<"D", r.rows[i]>>
        BY <3>1
      <4>2. rows[i] \in Messages
        <5>1. r.rows[i] \in Seq(Value) /\ Sendable(<<"D", r.rows[i]>>)
          BY <1>0, <3>1
        <5> QED BY <4>1, <5>1, MessageForms, Zenon
      <4> QED BY <4>1, <4>2
    <3>3. rows \in [1..n -> Messages]
      BY <3>1, <3>2
    <3> HIDE DEF rows
    <3>4. <<"T", r.fields>> \in Messages /\ <<"T", r.fields>>[1] # "Z"
      <4>1. <<"T", r.fields>> \in Messages
        BY <1>0, <1>1, MessageForms, Zenon
      <4> QED BY <4>1
    <3>5. NoReady(<<<<"T", r.fields>>>> \o rows)
      BY <3>1, <3>2, <3>3, <3>4, HeadType
    <3> QED BY <2>2, <3>5
  <2> QED BY <2>1, <2>2
<1>4. Relayed(r, status) = h \o (IF Fails(r) THEN <<>> ELSE complete)
  BY Zenon DEF Relayed, h, complete, tag, rows
<1> HIDE DEF h
<1>5. h \in Seq(Messages)
  BY <1>3 DEF NoReady
<1>6. CASE Fails(r)
  <2>1. h \o <<>> = h
    BY <1>5, EmptyIsUnit
  <2>2. Relayed(r, status) = h
    BY <1>4, <1>6, <2>1, Zenon
  <2>3. OneReady(h \o ErrorReply(r.error, errStatus))
    BY <1>2, <1>3, ErrorReplyReady
  <2> QED BY <1>6, <2>2, <2>3, Zenon
<1>7. CASE ~Fails(r)
  <2>1. OneReady(h \o complete)
    <3>1. <<"C", tag>> \in Messages /\ <<"C", tag>>[1] # "Z"
          /\ <<"Z", status>> \in Messages /\ <<"Z", status>>[1] = "Z"
      BY <1>2, MessageForms
    <3> QED BY <1>3, <3>1, AnswerEnds
  <2>2. Relayed(r, status) = h \o complete
    BY <1>4, <1>7, Zenon
  <2> DEFINE all == h \o complete
  <2> HIDE DEF all, complete
  <2>3. all \o <<>> = all
    <3>1. all \in Seq(Messages)
      BY <2>1 DEF OneReady, all
    <3> QED BY <3>1, EmptyIsUnit
  <2> QED BY <1>7, <2>1, <2>2, <2>3, Zenon DEF all
<1> QED BY <1>6, <1>7
-----------------------------------------------------------------------------
(* What waits for the proxy to read: a startup message or the rest of one,  *)
(* the requests it has not taken, and what a client that left added.        *)

Terminate == Framed(Code.X, <<>>)

\* A client leaves at once, with a Terminate, or in the middle of a Query.
Tails == {<<>>, Terminate} \cup {SubSeq(RequestBytes("Q", <<73, 78>>), 1, n) : n \in {3, 6}}

Pending(front, s, n, tail) == Cat(front, Cat(Unread(s, n), tail))

LEMMA TailsAreRead ==
    \A tail \in Tails :
        /\ tail \in Seq(Byte)
        /\ \/ readRawMessage(tail) = [is |-> "short"]
           \/ readRawMessage(tail) = [is |-> "ok", msg |-> Terminate, rest |-> <<>>]
<1>1. <<>> \in Seq(Byte) /\ Len(<<>>) = 0
  OBVIOUS
<1>2. MaxInt32 \in Int /\ MaxInt32 >= 1000
  BY DEF MaxInt32, Place
<1>3. readRawMessage(<<>>) = [is |-> "short"]
  <2>1. Len(<<>>) < 5
    OBVIOUS
  <2> QED BY <1>1, <2>1, NothingIsRead, Zenon
<1>4. Terminate \in Seq(Byte) /\ readRawMessage(Terminate) = [is |-> "ok", msg |-> Terminate, rest |-> <<>>]
  <2>1. 4 + Len(<<>>) <= MaxInt32
    BY <1>2
  <2>2. Terminate \in Seq(Byte)
    BY <1>1, CodesDiffer, FramedType DEF Terminate
  <2>3. readRawMessage(Cat(Terminate, <<>>)) = [is |-> "ok", msg |-> Terminate, rest |-> <<>>]
    BY <1>1, <2>1, CodesDiffer, FramedIsRead DEF Terminate
  <2>4. Cat(Terminate, <<>>) = Terminate
    BY <2>2, CatEmpty
  <2> QED BY <2>2, <2>3, <2>4, Zenon
<1>5. ASSUME NEW n \in {3, 6}
      PROVE  LET cut == SubSeq(RequestBytes("Q", <<73, 78>>), 1, n)
             IN  cut \in Seq(Byte) /\ readRawMessage(cut) = [is |-> "short"]
  <2>1. PICK sql : sql = <<73, 78>>
    OBVIOUS
  <2>2. sql \in Text /\ Len(sql) = 2
    BY <2>1 DEF Text
  <2> DEFINE cs == CString(sql)
  <2>3. cs \in Seq(Byte) /\ Len(cs) = Len(sql) + 1
    BY <2>2, <1>1, NulEnds
  <2>4. RequestBytes("Q", sql) = Framed(Code.Q, cs)
    <3>1. 4 + Len(sql) + 1 = 4 + Len(cs)
      BY <2>2, <2>3
    <3> QED BY <3>1, Zenon DEF RequestBytes, Framed, Cat, One, cs
  <2> HIDE DEF cs
  <2>5. n \in Nat /\ n < 5 + Len(cs) /\ 4 + Len(cs) <= MaxInt32
    BY <1>2, <2>2, <2>3
  <2>6. LET cut == SubSeq(Framed(Code.Q, cs), 1, n)
        IN  cut \in Seq(Byte) /\ readRawMessage(cut) = [is |-> "short"]
    BY <2>3, <2>5, CodesDiffer, BrokenOffIsShort
  <2> QED BY <2>1, <2>4, <2>6, Zenon
<1> QED BY <1>1, <1>3, <1>4, <1>5 DEF Tails

LEMMA PendingType ==
    ASSUME NEW front \in Seq(Byte), NEW s \in Seq(Requests), NEW n \in 0..Len(s), NEW tail \in Tails
    PROVE  Pending(front, s, n, tail) \in Seq(Byte) /\ Unread(s, n) \in Seq(Byte)
           /\ Cat(Unread(s, n), tail) \in Seq(Byte)
<1>1. Unread(s, n) \in Seq(Byte) /\ tail \in Seq(Byte)
  BY UnreadSteps, TailsAreRead
<1>2. Cat(Unread(s, n), tail) \in Seq(Byte)
  BY <1>1, CatType
<1>3. Cat(front, Cat(Unread(s, n), tail)) \in Seq(Byte)
  BY <1>2, CatType
<1> QED BY <1>1, <1>2, <1>3 DEF Pending

\* Another request, or the tail, arrives behind what waits.
LEMMA PendingGrows ==
    ASSUME NEW front \in Seq(Byte), NEW s \in Seq(Requests), NEW n \in 0..Len(s)
    PROVE  /\ \A r \in Requests : Pending(front, s, n, <<>>) \o BytesOf(r) = Pending(front, Append(s, r), n, <<>>)
           /\ \A tail \in Tails : Pending(front, s, n, <<>>) \o tail = Pending(front, s, n, tail)
<1> DEFINE u == Unread(s, n)
<1>1. u \in Seq(Byte) /\ \A r \in Requests : Unread(Append(s, r), n) = Cat(u, BytesOf(r))
  BY UnreadSteps
<1> HIDE DEF u
<1>2. Cat(u, <<>>) = u
  BY <1>1, CatEmpty
<1>3. ASSUME NEW x \in Seq(Byte)
      PROVE  Cat(Cat(front, Cat(u, <<>>)), x) = Cat(front, Cat(u, x))
  <2>1. Cat(front, Cat(u, x)) = Cat(Cat(front, u), x)
    BY <1>1, CatAssoc
  <2> QED BY <1>2, <2>1, Zenon
<1>4. ASSUME NEW r \in Requests
      PROVE  Pending(front, s, n, <<>>) \o BytesOf(r) = Pending(front, Append(s, r), n, <<>>)
  <2>1. BytesOf(r) \in Seq(Byte)
    BY RequestBytesType
  <2> DEFINE ux == Cat(u, BytesOf(r))
  <2>2. ux \in Seq(Byte)
    BY <1>1, <2>1, CatType
  <2>3. Cat(Cat(front, Cat(u, <<>>)), BytesOf(r)) = Cat(front, ux)
    BY <1>3, <2>1
  <2> HIDE DEF ux
  <2>4. Cat(ux, <<>>) = ux
    BY <2>2, CatEmpty
  <2>5. Pending(front, Append(s, r), n, <<>>) = Cat(front, Cat(ux, <<>>))
    BY <1>1, Zenon DEF Pending, ux
  <2>6. Pending(front, s, n, <<>>) = Cat(front, Cat(u, <<>>))
    BY Zenon DEF Pending, u
  <2>7. Pending(front, s, n, <<>>) \o BytesOf(r) = Cat(Cat(front, Cat(u, <<>>)), BytesOf(r))
    BY <2>6, Zenon DEF Cat
  <2> QED BY <2>3, <2>4, <2>5, <2>7, Zenon
<1>5. ASSUME NEW tail \in Tails
      PROVE  Pending(front, s, n, <<>>) \o tail = Pending(front, s, n, tail)
  <2>1. tail \in Seq(Byte)
    BY TailsAreRead
  <2>2. Cat(Cat(front, Cat(u, <<>>)), tail) = Cat(front, Cat(u, tail))
    BY <1>3, <2>1
  <2>3. Pending(front, s, n, <<>>) = Cat(front, Cat(u, <<>>)) /\ Pending(front, s, n, tail) = Cat(front, Cat(u, tail))
    BY Zenon DEF Pending, u
  <2>4. Pending(front, s, n, <<>>) \o tail = Cat(Cat(front, Cat(u, <<>>)), tail)
    BY <2>3, Zenon DEF Cat
  <2> QED BY <2>2, <2>3, <2>4, Zenon
<1> QED BY <1>4, <1>5

\* A tail is what a Leave adds to the bytes on their way.
LEMMA TerminateAdds ==
    ASSUME NEW b \in Seq(Byte)
    PROVE  b \o <<Code.X>> \o Int32(4) = b \o Terminate
<1> DEFINE x == One(Code.X)
           i == Int32(4)
<1>1. <<>> \in Seq(Byte) /\ 4 + Len(<<>>) = 4
  OBVIOUS
<1>2. x \in Seq(Byte) /\ i \in Seq(Byte)
  BY CodesDiffer, ByteTypes, Int32Type
<1>3. Terminate = Cat(Cat(x, i), <<>>)
  BY <1>1, Zenon DEF Terminate, Framed, x, i
<1>4. b \o <<Code.X>> \o Int32(4) = Cat(Cat(b, x), i)
  BY Zenon DEF Cat, One, x, i
<1> HIDE DEF x, i
<1>5. Cat(Cat(x, i), <<>>) = Cat(x, i)
  <2>1. Cat(x, i) \in Seq(Byte)
    BY <1>2, CatType
  <2> QED BY <2>1, CatEmpty
<1>6. Cat(b, Cat(x, i)) = Cat(Cat(b, x), i)
  BY <1>2, CatAssoc
<1>7. b \o Terminate = Cat(b, Terminate)
  BY Zenon DEF Cat
<1> QED BY <1>3, <1>4, <1>5, <1>6, <1>7, Zenon

\* The message loop finds the next request, then the tail.
LEMMA LoopReads ==
    ASSUME NEW s \in Seq(Requests), NEW n \in 0..Len(s), NEW tail \in Tails
    PROVE  LET r == readRawMessage(Pending(<<>>, s, n, tail))
           IN  /\ n < Len(s) => /\ s[n + 1] \in Requests
                                /\ r.is = "ok" /\ r.msg[1] = Code[s[n + 1].type]
                                /\ r.rest = Pending(<<>>, s, n + 1, tail)
                                /\ s[n + 1].type = "Q" => extractSQL(r.msg) = s[n + 1].sql
               /\ n = Len(s) => r = [is |-> "short"] \/ r = [is |-> "ok", msg |-> Terminate, rest |-> <<>>]
<1> DEFINE r == readRawMessage(Pending(<<>>, s, n, tail))
<1>1. tail \in Seq(Byte) /\ <<>> \in Seq(Byte) /\ Len(s) \in Nat
  BY TailsAreRead, LenProperties
<1>2. \A k \in 0..Len(s) : Pending(<<>>, s, k, tail) = Cat(Unread(s, k), tail) /\ Unread(s, k) \in Seq(Byte)
  <2> SUFFICES ASSUME NEW k \in 0..Len(s)
               PROVE  Pending(<<>>, s, k, tail) = Cat(Unread(s, k), tail) /\ Unread(s, k) \in Seq(Byte)
    OBVIOUS
  <2>1. Unread(s, k) \in Seq(Byte) /\ Cat(Unread(s, k), tail) \in Seq(Byte)
    BY <1>1, PendingType
  <2>2. Cat(<<>>, Cat(Unread(s, k), tail)) = Cat(Unread(s, k), tail)
    BY <2>1, CatEmpty
  <2> QED BY <2>1, <2>2, Zenon DEF Pending
<1>3. ASSUME n < Len(s)
      PROVE  /\ s[n + 1] \in Requests
             /\ r.is = "ok" /\ r.msg[1] = Code[s[n + 1].type]
             /\ r.rest = Pending(<<>>, s, n + 1, tail)
             /\ s[n + 1].type = "Q" => extractSQL(r.msg) = s[n + 1].sql
  <2>1. s[n + 1] \in Requests /\ n + 1 \in 0..Len(s) /\ Unread(s, n) = Cat(BytesOf(s[n + 1]), Unread(s, n + 1))
    BY <1>3, UnreadSteps
  <2>2. PICK q : q = s[n + 1]
    OBVIOUS
  <2>3. PICK body \in Seq(Byte) :
              /\ 4 + Len(body) <= MaxInt32
              /\ BytesOf(q) = Framed(Code[q.type], body)
              /\ q.type = "Q" => extractSQL(Framed(Code.Q, body)) = q.sql
    BY <2>1, <2>2, RequestForm
  <2>4. q.type \in {"Q", "P"} /\ Code[q.type] \in Byte
    BY <2>1, <2>2, CodesDiffer DEF Requests
  <2> DEFINE m == Framed(Code[q.type], body)
             u == Unread(s, n + 1)
             rest == Cat(u, tail)
  <2>5. m \in Seq(Byte) /\ m[1] = Code[q.type]
    BY <2>4, FramedType
  <2>6. u \in Seq(Byte)
    BY <1>2, <2>1
  <2>7. Pending(<<>>, s, n, tail) = Cat(Cat(m, u), tail) /\ Pending(<<>>, s, n + 1, tail) = rest
    BY <1>2, <2>1, <2>2, <2>3, Zenon
  <2>8. readRawMessage(Cat(m, rest)) = [is |-> "ok", msg |-> m, rest |-> rest]
    <3>1. rest \in Seq(Byte)
      BY <1>1, <2>6, CatType
    <3> HIDE DEF rest
    <3> QED BY <2>3, <2>4, <3>1, FramedIsRead
  <2> HIDE DEF m, u
  <2>9. Cat(m, Cat(u, tail)) = Cat(Cat(m, u), tail)
    BY <1>1, <2>5, <2>6, CatAssoc
  <2>10. r = [is |-> "ok", msg |-> m, rest |-> rest]
    BY <2>7, <2>8, <2>9, Zenon
  <2> HIDE DEF rest, r
  <2>11. r.is = "ok" /\ r.msg = m /\ r.rest = rest
    BY <2>10
  <2>12. q.type = "Q" => extractSQL(m) = q.sql
    BY <2>3, Zenon DEF m
  <2> QED BY <2>1, <2>2, <2>5, <2>7, <2>11, <2>12, Zenon
<1>4. ASSUME n = Len(s)
      PROVE  r = [is |-> "short"] \/ r = [is |-> "ok", msg |-> Terminate, rest |-> <<>>]
  <2>1. Unread(s, n) = <<>>
    BY <1>4, UnreadSteps
  <2>2. Cat(<<>>, tail) = tail
    BY <1>1, CatEmpty
  <2>3. Pending(<<>>, s, n, tail) = tail
    BY <1>2, <2>1, <2>2, Zenon
  <2> QED BY <2>3, TailsAreRead, Zenon
<1> QED BY <1>3, <1>4

\* handleClient reads a startup message as it was sent, and no more than that.
LEMMA StartupReads ==
    ASSUME NEW a \in Startups, NEW s \in Seq(Requests), NEW tail \in Tails
    PROVE  LET r == readStartup(Pending(StartupBytes(a), s, 0, tail))
           IN  /\ \/ r = [is |-> "invalid"]
                  \/ r = [is |-> "ok", msg |-> StartupBytes(a), rest |-> Pending(<<>>, s, 0, tail)]
               /\ Len(StartupBytes(a)) # 8
               /\ parseStartupParams(StartupBytes(a)) = a
               /\ a \in [user: Text, database: Text]
<1> DEFINE u == Cat(Unread(s, 0), tail)
           m == StartupBytes(a)
<1>1. a \in [user: Text, database: Text] /\ Len(a.user) + Len(a.database) + 15 <= MaxInt32
  BY WireAssumption
<1>2. 0 \in 0..Len(s) /\ <<>> \in Seq(Byte)
  BY LenProperties
<1>3. m \in Seq(Byte) /\ Len(m) = Len(a.user) + Len(a.database) + 15
      /\ m = Cat(Int32(4 + Len(StartupBody(a))), StartupBody(a)) /\ parseStartupParams(m) = a
  BY <1>1, StartupIsParsed
<1>4. StartupBody(a) \in Seq(Byte) /\ Len(StartupBody(a)) = Len(a.user) + Len(a.database) + 11
      /\ Len(a.user) \in Nat /\ Len(a.database) \in Nat
  BY <1>1, BodyForm
<1>5. Len(m) # 8
  <2>1. Len(m) = Len(a.user) + Len(a.database) + 15
    BY <1>3, Zenon
  <2>2. Len(a.user) \in Nat /\ Len(a.database) \in Nat
    BY <1>4, Zenon
  <2>3. \A x, y \in Nat : x + y + 15 # 8
    OBVIOUS
  <2> HIDE DEF m
  <2> QED BY <2>1, <2>2, <2>3, Zenon
<1>6. u \in Seq(Byte) /\ Cat(<<>>, u) = u
  <2>1. u \in Seq(Byte)
    BY <1>2, PendingType
  <2> HIDE DEF u
  <2> QED BY <2>1, CatEmpty
<1>7. Pending(m, s, 0, tail) = Cat(m, u) /\ Pending(<<>>, s, 0, tail) = Cat(<<>>, u)
  BY Zenon DEF Pending
<1> HIDE DEF u, m
<1>8. readStartup(Cat(m, u)) = [is |-> "invalid"] \/ readStartup(Cat(m, u)) = [is |-> "ok", msg |-> m, rest |-> u]
  <2>1. PICK body : body = StartupBody(a)
    OBVIOUS
  <2>2. body \in Seq(Byte) /\ 4 + Len(body) <= MaxInt32
    BY <1>1, <1>4, <2>1, MaxBound
  <2>3. LET w == Cat(Int32(4 + Len(body)), body)
        IN  readStartup(Cat(w, u)) = [is |-> "invalid"] \/ readStartup(Cat(w, u)) = [is |-> "ok", msg |-> w, rest |-> u]
    BY <1>6, <2>2, StartupIsRead
  <2> QED BY <1>3, <2>1, <2>3, Zenon
<1> QED BY <1>1, <1>3, <1>5, <1>6, <1>7, <1>8, Zenon DEF m

\* A request for SSL is read as one.
LEMMA SSLReads ==
    LET r == readStartup(SSLRequest)
    IN  /\ SSLRequest \in Seq(Byte) /\ Len(SSLRequest) = 8
        /\ Unsigned(SubSeq(SSLRequest, 5, 8)) = SSLCode
        /\ r = [is |-> "invalid"] \/ r = [is |-> "ok", msg |-> SSLRequest, rest |-> <<>>]
<1> DEFINE c == Int32(SSLCode)
           i == Int32(8)
           m == Cat(i, c)
<1>1. SSLCode \in 0..MaxInt32 /\ SSLCode \in Int /\ 8 <= MaxInt32
  BY DEF SSLCode, MaxInt32, Place
<1>2. c \in Seq(Byte) /\ Len(c) = 4 /\ i \in Seq(Byte) /\ Len(i) = 4
  BY <1>1, Int32Type
<1>3. Unsigned(c) = SSLCode
  BY <1>1, Int32RoundTrip
<1>4. SSLRequest = m
  BY Zenon DEF SSLRequest, Cat
<1>5. <<>> \in Seq(Byte)
  OBVIOUS
<1>6. /\ m \in Seq(Byte) /\ Len(m) = 8
      /\ readStartup(Cat(m, <<>>)) = [is |-> "invalid"]
         \/ readStartup(Cat(m, <<>>)) = [is |-> "ok", msg |-> m, rest |-> <<>>]
  <2> HIDE DEF c, i
  <2>1. m \in Seq(Byte)
    BY <1>2, CatType
  <2>2. Len(m) = Len(i) + Len(c)
    BY <1>2, CatLen
  <2>3. Len(m) = 8
    <3> HIDE DEF m
    <3> QED BY <1>2, <2>2
  <2>4. 4 + Len(c) = 8 /\ 4 + Len(c) <= MaxInt32
    BY <1>1, <1>2
  <2>5. LET w == Cat(Int32(4 + Len(c)), c)
        IN  readStartup(Cat(w, <<>>)) = [is |-> "invalid"]
            \/ readStartup(Cat(w, <<>>)) = [is |-> "ok", msg |-> w, rest |-> <<>>]
    BY <1>2, <1>5, <2>4, StartupIsRead
  <2> QED BY <2>1, <2>3, <2>4, <2>5, Zenon DEF i
<1> HIDE DEF c, i
<1>7. SubSeq(m, 5, 8) = c
  <2>1. From(Cat(i, c), Len(i) + 1) = c
    BY <1>2, CatCut
  <2>2. Len(i) + 1 = 5
    BY <1>2
  <2> QED BY <1>6, <2>1, <2>2, Zenon DEF From
<1>8. Cat(m, <<>>) = m
  <2> HIDE DEF m
  <2> QED BY <1>6, CatEmpty
<1> QED BY <1>3, <1>4, <1>6, <1>7, <1>8, Zenon

-----------------------------------------------------------------------------
(* What is written to the client. *)

Readys(m) == {i \in DOMAIN m : m[i][1] = "Z"}

LEMMA ReadysGrow ==
    ASSUME NEW m \in Seq(Messages), NEW msgs, OneReady(msgs)
    PROVE  /\ m \o msgs \in Seq(Messages) /\ m \o msgs # <<>>
           /\ Cardinality(Readys(m \o msgs)) = Cardinality(Readys(m)) + 1
           /\ Cardinality(Readys(m)) \in Nat
           /\ Last(m \o msgs)[1] = "Z"
<1> DEFINE all == m \o msgs
<1>1. msgs \in Seq(Messages) /\ Len(msgs) \in Nat /\ Len(msgs) >= 1
      /\ \A i \in 1..Len(msgs) : msgs[i][1] = "Z" <=> i = Len(msgs)
  BY LenProperties DEF OneReady
<1>2. all \in Seq(Messages) /\ Len(all) = Len(m) + Len(msgs) /\ Len(m) \in Nat
      /\ (\A i \in 1..Len(m) : all[i] = m[i])
      /\ (\A i \in 1..Len(msgs) : all[Len(m) + i] = msgs[i])
  BY <1>1
<1> HIDE DEF all
<1>3. DOMAIN m = 1..Len(m) /\ DOMAIN all = 1..Len(all) /\ Len(all) \in Nat \ {0}
  BY <1>1, <1>2
<1>4. all[Len(all)][1] = "Z"
  BY <1>1, <1>2
<1>5. Readys(all) = Readys(m) \cup {Len(all)}
  <2>1. ASSUME NEW i \in Readys(m) PROVE i \in Readys(all)
    BY <1>2, <1>3 DEF Readys
  <2>2. Len(all) \in Readys(all)
    BY <1>3, <1>4 DEF Readys
  <2>3. ASSUME NEW i \in Readys(all), i # Len(all) PROVE i \in Readys(m)
    <3>1. i \in 1..Len(all) /\ all[i][1] = "Z"
      BY <1>3 DEF Readys
    <3>2. CASE i \in 1..Len(m)
      BY <1>2, <1>3, <3>1, <3>2 DEF Readys
    <3>3. CASE i \notin 1..Len(m)
      <4>1. i - Len(m) \in 1..Len(msgs) /\ Len(m) + (i - Len(m)) = i
        BY <1>1, <1>2, <3>1, <3>3
      <4>2. msgs[i - Len(m)][1] = "Z"
        BY <1>2, <3>1, <4>1
      <4>3. i - Len(m) = Len(msgs)
        BY <1>1, <4>1, <4>2
      <4> QED BY <1>2, <2>3, <4>1, <4>3
    <3> QED BY <3>2, <3>3
  <2> QED BY <2>1, <2>2, <2>3
<1>6. Len(all) \notin Readys(m)
  BY <1>1, <1>2, <1>3 DEF Readys
<1>7. IsFiniteSet(Readys(m))
  <2>1. IsFiniteSet(1..Len(m))
    BY <1>2, FS_Interval
  <2>2. Readys(m) \subseteq 1..Len(m)
    BY <1>3 DEF Readys
  <2> QED BY <2>1, <2>2, FS_Subset
<1>8. Cardinality(Readys(m)) \in Nat
  BY <1>7, FS_CardinalityType
<1>9. Cardinality(Readys(m) \cup {Len(all)}) = Cardinality(Readys(m)) + 1
  BY <1>6, <1>7, FS_AddElement
<1>10. Last(all)[1] = "Z" /\ all # <<>>
  BY <1>3, <1>4 DEF Last
<1> QED BY <1>2, <1>5, <1>8, <1>9, <1>10 DEF all

LEMMA NothingReady == Cardinality(Readys(<<>>)) = 0
<1>1. Readys(<<>>) = {}
  BY DEF Readys
<1> QED BY <1>1, FS_EmptySet

LEMMA FlattenCat ==
    ASSUME NEW S, NEW x \in Seq(Seq(S)), NEW y \in Seq(Seq(S)), NEW whole, whole = x \o y
    PROVE  FlattenSeq(whole) = Cat(FlattenSeq(x), FlattenSeq(y))
<1> DEFINE m == Len(x)
           n == Len(y)
<1>1. /\ m \in Nat /\ n \in Nat /\ whole \in Seq(Seq(S)) /\ Len(whole) = m + n
      /\ \A k \in 1..m : whole[k] = x[k]
      /\ \A k \in 1..n : whole[m + k] = y[k]
  OBVIOUS
<1>2. PICK f : Concatenates(f, x, S)
  BY ConcatenationExists
<1>3. PICK h : Concatenates(h, y, S)
  BY ConcatenationExists
<1>4. PICK g : Concatenates(g, whole, S)
  BY <1>1, ConcatenationExists
<1>5. /\ f[0] = <<>> /\ FlattenSeq(x) = f[m] /\ \A k \in 0..m : f[k] \in Seq(S)
      /\ \A k \in 1..m : f[k] = Cat(f[k - 1], x[k])
  BY <1>2, ConcatenationRuns
<1>6. /\ h[0] = <<>> /\ FlattenSeq(y) = h[n] /\ \A k \in 0..n : h[k] \in Seq(S)
      /\ \A k \in 1..n : h[k] = Cat(h[k - 1], y[k]) /\ y[k] \in Seq(S)
  BY <1>3, ConcatenationRuns
<1>7. /\ g[0] = <<>> /\ FlattenSeq(whole) = g[m + n]
      /\ \A k \in 1..(m + n) : g[k] = Cat(g[k - 1], whole[k])
  <2>1. /\ g[0] = <<>> /\ FlattenSeq(whole) = g[Len(whole)]
        /\ \A k \in 1..Len(whole) : g[k] = Cat(g[k - 1], whole[k])
    <3>1. whole \in Seq(Seq(S)) /\ Concatenates(g, whole, S)
      BY <1>1, <1>4
    <3> HIDE DEF m, n
    <3> QED BY <3>1, ConcatenationRuns
  <2> QED BY <1>1, <2>1, Zenon
<1> DEFINE T == {k \in Nat : k <= m => g[k] = f[k]}
           U == {k \in Nat : k <= n => g[m + k] = Cat(f[m], h[k])}
<1>8. 0 \in T
  BY <1>5, <1>7
<1>9. ASSUME NEW k \in Nat, k \in T PROVE k + 1 \in T
  <2> SUFFICES ASSUME k + 1 <= m PROVE g[k + 1] = f[k + 1]
    OBVIOUS
  <2>1. k + 1 \in 1..m /\ k + 1 \in 1..(m + n) /\ (k + 1) - 1 = k /\ k <= m
    BY <1>1
  <2>2. g[k] = f[k] /\ whole[k + 1] = x[k + 1]
    BY <1>1, <1>9, <2>1
  <2>3. g[k + 1] = Cat(g[k], whole[k + 1]) /\ f[k + 1] = Cat(f[k], x[k + 1])
    BY <1>5, <1>7, <2>1
  <2> QED BY <2>2, <2>3, Zenon
<1> HIDE DEF T
<1>10. m \in T
  BY <1>1, <1>8, <1>9, Induction
<1>11. g[m] = f[m] /\ f[m] \in Seq(S)
  BY <1>1, <1>5, <1>10 DEF T
<1>12. 0 \in U
  <2>1. Cat(f[m], <<>>) = f[m]
    BY <1>11, CatEmpty
  <2>2. m + 0 = m
    BY <1>1
  <2> QED BY <1>6, <1>11, <2>1, <2>2
<1>13. ASSUME NEW k \in Nat, k \in U PROVE k + 1 \in U
  <2> SUFFICES ASSUME k + 1 <= n PROVE g[m + (k + 1)] = Cat(f[m], h[k + 1])
    OBVIOUS
  <2>1. /\ k + 1 \in 1..n /\ m + (k + 1) \in 1..(m + n) /\ (m + (k + 1)) - 1 = m + k
        /\ (k + 1) - 1 = k /\ k <= n /\ k \in 0..n
    BY <1>1
  <2>2. g[m + k] = Cat(f[m], h[k]) /\ whole[m + (k + 1)] = y[k + 1]
    BY <1>1, <1>13, <2>1
  <2>3. g[m + (k + 1)] = Cat(g[m + k], whole[m + (k + 1)]) /\ h[k + 1] = Cat(h[k], y[k + 1])
    BY <1>6, <1>7, <2>1
  <2>4. Cat(f[m], Cat(h[k], y[k + 1])) = Cat(Cat(f[m], h[k]), y[k + 1])
    <3>1. PICK a \in Seq(S), b \in Seq(S), c \in Seq(S) : a = f[m] /\ b = h[k] /\ c = y[k + 1]
      BY <1>6, <1>11, <2>1
    <3>2. Cat(a, Cat(b, c)) = Cat(Cat(a, b), c)
      BY CatAssoc
    <3> QED BY <3>1, <3>2
  <2> QED BY <2>2, <2>3, <2>4, Zenon
<1> HIDE DEF U
<1>14. n \in U
  BY <1>1, <1>12, <1>13, Induction
<1>15. g[m + n] = Cat(f[m], h[n])
  BY <1>1, <1>14 DEF U
<1> QED BY <1>5, <1>6, <1>7, <1>15, Zenon

LEMMA StreamGrows ==
    ASSUME NEW x \in Seq(Messages), NEW y \in Seq(Messages)
    PROVE  Stream(x \o y) = Stream(x) \o Stream(y)
<1> DEFINE whole == x \o y
           a == Encoded(x)
           b == Encoded(y)
           c == Encoded(whole)
<1>1. /\ whole \in Seq(Messages) /\ Len(whole) = Len(x) + Len(y)
      /\ \A i \in 1..Len(x) : whole[i] = x[i]
      /\ \A i \in 1..Len(y) : whole[Len(x) + i] = y[i]
  OBVIOUS
<1> HIDE DEF whole
<1>2. /\ a \in Seq(Seq(Byte)) /\ Len(a) = Len(x) /\ Len(x) \in Nat /\ \A i \in 1..Len(x) : a[i] = Encode(x[i])
      /\ b \in Seq(Seq(Byte)) /\ Len(b) = Len(y) /\ Len(y) \in Nat /\ \A i \in 1..Len(y) : b[i] = Encode(y[i])
  BY EncodedType
<1>3. c \in Seq(Seq(Byte)) /\ Len(c) = Len(whole) /\ \A i \in 1..Len(whole) : c[i] = Encode(whole[i])
  BY <1>1, EncodedType
<1> HIDE DEF a, b, c
<1>4. c = a \o b
  <2> DEFINE d == a \o b
  <2>1. /\ d \in Seq(Seq(Byte)) /\ Len(d) = Len(a) + Len(b)
        /\ \A i \in 1..Len(a) : d[i] = a[i]
        /\ \A i \in 1..Len(b) : d[Len(a) + i] = b[i]
    <3>1. ASSUME NEW S, NEW p \in Seq(S), NEW q \in Seq(S)
          PROVE  /\ p \o q \in Seq(S) /\ Len(p \o q) = Len(p) + Len(q)
                 /\ \A i \in 1..Len(p) : (p \o q)[i] = p[i]
                 /\ \A i \in 1..Len(q) : (p \o q)[Len(p) + i] = q[i]
      OBVIOUS
    <3>2. a \in Seq(Seq(Byte)) /\ b \in Seq(Seq(Byte))
      BY <1>2
    <3>3. /\ a \o b \in Seq(Seq(Byte)) /\ Len(a \o b) = Len(a) + Len(b)
          /\ \A i \in 1..Len(a) : (a \o b)[i] = a[i]
          /\ \A i \in 1..Len(b) : (a \o b)[Len(a) + i] = b[i]
      BY <3>1, <3>2
    <3> QED BY <3>3, Zenon
  <2> HIDE DEF d
  <2>2. Len(c) = Len(d)
    BY <1>1, <1>2, <1>3, <2>1
  <2>3. ASSUME NEW i \in 1..Len(c) PROVE c[i] = d[i]
    <3>0. i \in 1..Len(whole) /\ c[i] = Encode(whole[i])
      BY <1>3
    <3>1. CASE i \in 1..Len(x)
      <4>1. whole[i] = x[i] /\ d[i] = a[i] /\ a[i] = Encode(x[i])
        BY <1>1, <1>2, <2>1, <3>1
      <4> QED BY <3>0, <4>1, Zenon
    <3>2. CASE i \notin 1..Len(x)
      <4>1. PICK j \in 1..Len(y) : i = Len(x) + j
        <5>1. i - Len(x) \in 1..Len(y) /\ i = Len(x) + (i - Len(x))
          BY <1>1, <1>2, <3>0, <3>2
        <5> QED BY <5>1
      <4>2. whole[i] = y[j] /\ d[i] = b[j] /\ b[j] = Encode(y[j])
        <5>1. whole[Len(x) + j] = y[j] /\ b[j] = Encode(y[j]) /\ d[Len(a) + j] = b[j] /\ Len(a) = Len(x)
          BY <1>1, <1>2, <2>1
        <5> QED BY <4>1, <5>1, Zenon
      <4> QED BY <3>0, <4>2, Zenon
    <3> QED BY <3>1, <3>2
  <2>4. c = d
    BY <1>3, <2>1, <2>2, <2>3, SeqEqual
  <2> QED BY <2>4 DEF d
<1>5. FlattenSeq(c) = Cat(FlattenSeq(a), FlattenSeq(b))
  BY <1>2, <1>4, FlattenCat
<1> QED BY <1>5, Zenon DEF Stream, Cat, a, b, c, whole

LEMMA WriteStep ==
    ASSUME replies \in Seq(Messages), outbox = Stream(replies), NEW msgs, OneReady(msgs), Write(msgs)
    PROVE  /\ outbox' \in Seq(Byte) /\ outbox' = Stream(replies')
           /\ replies' \in Seq(Messages) /\ replies' # <<>>
           /\ Cardinality(Readys(replies')) = Cardinality(Readys(replies)) + 1
           /\ Last(replies')[1] = "Z"
<1>1. msgs \in Seq(Messages)
  BY DEF OneReady
<1>2. outbox' = outbox \o Stream(msgs) /\ replies' = replies \o msgs
  <2>1. DOMAIN msgs = 1..Len(msgs)
    BY <1>1
  <2> QED BY <2>1, Zenon DEF Write, Stream, Encoded
<1>3. /\ replies \o msgs \in Seq(Messages) /\ replies \o msgs # <<>>
      /\ Cardinality(Readys(replies \o msgs)) = Cardinality(Readys(replies)) + 1
      /\ Last(replies \o msgs)[1] = "Z"
  BY ReadysGrow
<1>4. outbox' = Stream(replies')
  <2>1. Stream(replies \o msgs) = Stream(replies) \o Stream(msgs)
    BY <1>1, StreamGrows
  <2> QED BY <1>2, <2>1, Zenon
<1>5. Stream(replies \o msgs) \in Seq(Byte)
  BY <1>3, EncodedType
<1> QED BY <1>2, <1>3, <1>4, <1>5, Zenon

LEMMA RouteType ==
    ASSUME NEW s, NEW a \in BOOLEAN, NEW b \in BOOLEAN
    PROVE  LET route == Route(s, a, b)
           IN  /\ route[1] \in BOOLEAN /\ route[2] \in BOOLEAN /\ route[3] \in BOOLEAN
               /\ route[3] => ClassifyQuery(s) = "READ"
<1> DEFINE route == Route(s, a, b)
           begins == FirstToken(s) \in {"BEGIN", "START", "begin", "start"}
           reads == ClassifyQuery(s) = "READ"
<1>1. begins \in BOOLEAN /\ reads \in BOOLEAN
  OBVIOUS
<1>2. route = <<begins, FALSE, FALSE>> \/ route = <<TRUE, b, FALSE>> \/ route = <<FALSE, b, reads>>
  BY Zenon DEF Route
<1> HIDE DEF route, begins, reads
<1>3. \A x, y, z : <<x, y, z>>[1] = x /\ <<x, y, z>>[2] = y /\ <<x, y, z>>[3] = z
  OBVIOUS
<1>4. TRUE \in BOOLEAN /\ FALSE \in BOOLEAN
  OBVIOUS
<1>5. route[1] \in BOOLEAN /\ route[2] \in BOOLEAN /\ route[3] \in BOOLEAN /\ (route[3] => reads)
  <2>1. CASE route = <<begins, FALSE, FALSE>>
    <3>1. route[1] = begins /\ route[2] = FALSE /\ route[3] = FALSE
      BY <1>3, <2>1, Zenon
    <3> QED BY <1>1, <1>4, <3>1, Zenon
  <2>2. CASE route = <<TRUE, b, FALSE>>
    <3>1. route[1] = TRUE /\ route[2] = b /\ route[3] = FALSE
      BY <1>3, <2>2, Zenon
    <3> QED BY <1>4, <3>1, Zenon
  <2>3. CASE route = <<FALSE, b, reads>>
    <3>1. route[1] = FALSE /\ route[2] = b /\ route[3] = reads
      BY <1>3, <2>3, Zenon
    <3> QED BY <1>1, <1>4, <3>1, Zenon
  <2> QED BY <1>2, <2>1, <2>2, <2>3, Zenon
<1> QED BY <1>5, Zenon DEF route, reads

-----------------------------------------------------------------------------
(* The inductive invariant. *)

Waiting(front, n) ==
    \E tail \in Tails : /\ client = "started" => tail = <<>>
                        /\ inbox = Pending(front, sent, n, tail)

Taking == [type: {"Q", "P"}, sql: Text, useReplica: BOOLEAN]

Types ==
    /\ client \in {"new", "ssl", "started", "closed"}
    /\ phase \in {"startup", "sslRefused", "loop", "gone"}
    /\ sent \in Seq(Requests)
    /\ inbox \in Seq(Byte) /\ outbox \in Seq(Byte)
    /\ got \in Seq(Taking)
    /\ inTransaction \in BOOLEAN /\ txFailed \in BOOLEAN
    /\ replies \in Seq(Messages)

\* The startup message comes first, after one SSLRequest at most.
Before ==
    /\ client = "new" => phase \in {"startup", "gone"}
    /\ client \in {"new", "ssl"} => sent = <<>> /\ phase # "loop" /\ replies = <<>>

Opening ==
    phase \in {"startup", "sslRefused"} =>
        /\ got = <<>> /\ replies = <<>>
        /\ \/ client # "started" /\ sent = <<>> /\ inbox = <<>>
           \/ client \in {"ssl", "closed"} /\ sent = <<>> /\ phase = "startup" /\ inbox = SSLRequest
           \/ /\ client \in {"started", "closed"} /\ asked \in Startups /\ outbox = <<>>
              /\ Waiting(StartupBytes(asked), 0)

\* In the loop, the proxy is at the end of a message and has answered all it took.
InLoop ==
    phase = "loop" =>
        /\ params = asked
        /\ Waiting(<<>>, Len(got))
        /\ replies # <<>> /\ Last(replies)[1] = "Z"
        /\ Cardinality(Readys(replies)) = 1 + Len(got)

Taken ==
    /\ Len(got) <= Len(sent)
    /\ \A i \in 1..Len(got) : /\ got[i].type = sent[i].type
                              /\ got[i].type = "Q" => got[i].sql = sent[i].sql
                              /\ got[i].useReplica => ClassifyQuery(Reduced(got[i].sql)) = "READ"

\* All that is written, other than the refusal of SSL, are the replies.
Written == replies # <<>> => outbox = Stream(replies)

WInv == Types /\ Before /\ Opening /\ InLoop /\ Taken /\ Written

LEMMA WInit == Init => WInv
<1> SUFFICES ASSUME Init PROVE WInv
  OBVIOUS
<1> USE DEF Init
<1>1. Types
  <2>1. <<>> \in Seq(Requests) /\ <<>> \in Seq(Byte) /\ <<>> \in Seq(Taking) /\ <<>> \in Seq(Messages)
    OBVIOUS
  <2>2. sent = <<>> /\ inbox = <<>> /\ outbox = <<>> /\ got = <<>> /\ replies = <<>>
    OBVIOUS
  <2>3. client = "new" /\ phase = "startup" /\ inTransaction = FALSE /\ txFailed = FALSE
    OBVIOUS
  <2> QED BY <2>1, <2>2, <2>3, Zenon DEF Types
<1>2. Before /\ InLoop
  BY DEF Before, InLoop
<1>3. Opening
  BY DEF Opening
<1>4. Taken /\ Written
  BY DEF Taken, Written
<1> QED BY <1>1, <1>2, <1>3, <1>4 DEF WInv

-----------------------------------------------------------------------------
(* The steps of the client. *)

LEMMA SendSSLRequestStep == ASSUME WInv, SendSSLRequest PROVE WInv'
<1>1. client = "new" /\ client' = "ssl" /\ inbox' = SSLRequest /\ asked' = asked /\ sent' = sent
      /\ outbox' = outbox /\ phase' = phase /\ params' = params /\ got' = got /\ replies' = replies
      /\ inTransaction' = inTransaction /\ txFailed' = txFailed
  BY DEF SendSSLRequest, proxyVars
<1>2. sent = <<>> /\ replies = <<>> /\ phase \in {"startup", "gone"}
  BY <1>1 DEF WInv, Before
<1>3. Types'
  BY <1>1, SSLReads DEF WInv, Types
<1>4. Before' /\ InLoop'
  BY <1>1, <1>2 DEF Before, InLoop
<1>5. Opening'
  BY <1>1, <1>2 DEF WInv, Opening
<1>6. Taken' /\ Written'
  BY <1>1 DEF WInv, Taken, Written
<1> QED BY <1>3, <1>4, <1>5, <1>6 DEF WInv

LEMMA SendStartupStep == ASSUME WInv, SendStartup PROVE WInv'
<1>1. client \in {"new", "ssl"} /\ client' = "started" /\ asked' \in Startups
      /\ inbox' = StartupBytes(asked') /\ outbox' = <<>> /\ sent' = sent
      /\ phase' = phase /\ params' = params /\ got' = got /\ replies' = replies
      /\ inTransaction' = inTransaction /\ txFailed' = txFailed
  BY DEF SendStartup, proxyVars
<1>2. sent = <<>> /\ replies = <<>> /\ phase # "loop"
  BY <1>1 DEF WInv, Before
<1>3. StartupBytes(asked') \in Seq(Byte)
  <2>1. asked' \in [user: Text, database: Text]
    BY <1>1, WireAssumption
  <2> QED BY <2>1, StartupIsParsed
<1>4. Types'
  <2>1. outbox' \in Seq(Byte)
    BY <1>1
  <2> QED BY <1>1, <1>3, <2>1 DEF WInv, Types
<1>5. Before' /\ InLoop'
  BY <1>1, <1>2 DEF Before, InLoop
<1>6. Waiting(StartupBytes(asked), 0)'
  <2> DEFINE b == StartupBytes(asked')
  <2>1. <<>> \in Tails /\ <<>> \in Seq(Requests) /\ 0 \in 0..Len(<<>>) /\ Len(<<>>) = 0
    BY DEF Tails
  <2>2. Unread(<<>>, 0) = <<>>
    BY <2>1, UnreadSteps
  <2>3. Cat(<<>>, <<>>) = <<>> /\ Cat(b, <<>>) = b
    <3>1. <<>> \in Seq(Byte)
      OBVIOUS
    <3> QED BY <1>3, <3>1, CatEmpty
  <2>4. Pending(b, <<>>, 0, <<>>) = b
    BY <2>2, <2>3, Zenon DEF Pending
  <2>5. sent' = <<>>
    BY <1>1, <1>2
  <2>6. inbox' = Pending(StartupBytes(asked'), sent', 0, <<>>)
    BY <1>1, <2>4, <2>5, Zenon
  <2> QED BY <2>1, <2>6 DEF Waiting
<1>7. Opening'
  BY <1>1, <1>6 DEF WInv, Opening
<1>8. Taken' /\ Written'
  BY <1>1, <1>2 DEF WInv, Taken, Written
<1> QED BY <1>4, <1>5, <1>7, <1>8 DEF WInv

\* A request of a script fits in a message.
LEMMA ScriptsAskRequests ==
    ASSUME NEW s \in Seq(Requests), NEW script \in Scripts, IsStrictPrefix(s, script)
    PROVE  script[Len(s) + 1] \in Requests
<1>1. script \in Seq([type: {"Q", "P"}, sql: Text])
      /\ \A i \in DOMAIN script : Len(script[i].sql) + 8 <= MaxInt32
  BY WireAssumption
<1>2. Len(s) \in Nat /\ Len(script) \in Nat /\ DOMAIN script = 1..Len(script)
  BY <1>1
<1>3. Len(s) <= Len(script) /\ SubSeq(s, 1, Len(s)) = SubSeq(script, 1, Len(s)) /\ s # script
  BY DEF IsStrictPrefix, IsPrefix
<1>4. Len(s) # Len(script)
  <2> SUFFICES ASSUME Len(s) = Len(script) PROVE FALSE
    OBVIOUS
  <2>1. SubSeq(s, 1, Len(s)) = s
    OBVIOUS
  <2>2. SubSeq(script, 1, Len(script)) = script
    BY <1>1
  <2> QED BY <1>3, <2>1, <2>2, Zenon
<1>5. Len(s) + 1 \in 1..Len(script)
  BY <1>2, <1>3, <1>4
<1>6. script[Len(s) + 1] \in [type: {"Q", "P"}, sql: Text] /\ Len(script[Len(s) + 1].sql) + 8 <= MaxInt32
  <2>1. Len(s) + 1 \in DOMAIN script
    BY <1>2, <1>5
  <2>2. Len(script[Len(s) + 1].sql) + 8 <= MaxInt32
    BY <1>1, <2>1, Zenon
  <2>3. script[Len(s) + 1] \in [type: {"Q", "P"}, sql: Text]
    <3>1. ASSUME NEW S, NEW t \in Seq(S), NEW k \in 1..Len(t) PROVE t[k] \in S
      OBVIOUS
    <3> QED BY <1>1, <1>5, <3>1, Zenon
  <2> QED BY <2>2, <2>3
<1> QED BY <1>6 DEF Requests

\* The bytes that wait grow with the requests that are sent.
LEMMA WaitingGrows ==
    ASSUME Types, client = "started", NEW front \in Seq(Byte), NEW n \in 0..Len(sent), Waiting(front, n),
           NEW r \in Requests
    PROVE  inbox \o BytesOf(r) = Pending(front, Append(sent, r), n, <<>>)
<1>1. inbox = Pending(front, sent, n, <<>>)
  BY DEF Waiting
<1>2. sent \in Seq(Requests)
  BY DEF Types
<1>3. Pending(front, sent, n, <<>>) \o BytesOf(r) = Pending(front, Append(sent, r), n, <<>>)
  BY <1>2, PendingGrows
<1> QED BY <1>1, <1>3, Zenon

LEMMA SendRequestStep == ASSUME WInv, SendRequest PROVE WInv'
<1>1. PICK script \in Scripts :
            /\ IsStrictPrefix(sent, script)
            /\ inbox' = inbox \o RequestBytes(script[Len(sent) + 1].type, script[Len(sent) + 1].sql)
            /\ sent' = Append(sent, script[Len(sent) + 1])
  BY DEF SendRequest
<1>2. client = "started" /\ client' = client /\ asked' = asked /\ outbox' = outbox
      /\ phase' = phase /\ params' = params /\ got' = got /\ replies' = replies
      /\ inTransaction' = inTransaction /\ txFailed' = txFailed
  BY DEF SendRequest, proxyVars
<1>3. Types /\ sent \in Seq(Requests) /\ inbox \in Seq(Byte) /\ got \in Seq(Taking)
  BY DEF WInv, Types
<1>4. PICK r : r = script[Len(sent) + 1]
  OBVIOUS
<1>5. r \in Requests
  BY <1>1, <1>3, <1>4, ScriptsAskRequests
<1>6. inbox' = inbox \o BytesOf(r) /\ sent' = Append(sent, r)
  BY <1>1, <1>4, Zenon DEF BytesOf
<1>7. Len(got) \in Nat /\ Len(sent) \in Nat /\ Len(got) \in 0..Len(sent) /\ 0 \in 0..Len(sent)
  BY <1>3 DEF WInv, Taken
<1>8. sent' \in Seq(Requests) /\ Len(sent') = Len(sent) + 1 /\ \A i \in 1..Len(sent) : sent'[i] = sent[i]
  BY <1>3, <1>5, <1>6
<1>9. inbox' \in Seq(Byte)
  <2>1. BytesOf(r) \in Seq(Byte)
    BY <1>5, RequestBytesType
  <2> QED BY <1>3, <1>6, <2>1
<1>10. Types'
  BY <1>2, <1>8, <1>9 DEF WInv, Types
<1>11. Before'
  BY <1>2 DEF Before
<1>12. ASSUME NEW front \in Seq(Byte), NEW n \in 0..Len(sent), Waiting(front, n)
       PROVE  inbox' = Pending(front, sent', n, <<>>) /\ <<>> \in Tails
  <2>1. inbox \o BytesOf(r) = Pending(front, Append(sent, r), n, <<>>)
    BY <1>2, <1>3, <1>5, <1>12, WaitingGrows
  <2> QED BY <1>6, <2>1, Zenon DEF Tails
<1>13. Opening'
  <2> SUFFICES ASSUME phase \in {"startup", "sslRefused"} PROVE Opening'
    BY <1>2 DEF Opening
  <2>1. got = <<>> /\ replies = <<>> /\ asked \in Startups /\ outbox = <<>>
        /\ Waiting(StartupBytes(asked), 0)
    BY <1>2 DEF WInv, Opening
  <2>2. StartupBytes(asked) \in Seq(Byte)
    <3>1. asked \in [user: Text, database: Text]
      BY <2>1, WireAssumption
    <3> QED BY <3>1, StartupIsParsed
  <2>3. inbox' = Pending(StartupBytes(asked), sent', 0, <<>>) /\ <<>> \in Tails
    BY <1>7, <1>12, <2>1, <2>2
  <2>4. inbox' = Pending(StartupBytes(asked'), sent', 0, <<>>)
    BY <1>2, <2>3, Zenon
  <2>5. Waiting(StartupBytes(asked), 0)'
    BY <2>3, <2>4 DEF Waiting
  <2> QED BY <1>2, <2>1, <2>5 DEF Opening
<1>14. InLoop'
  <2> SUFFICES ASSUME phase = "loop" PROVE InLoop'
    BY <1>2 DEF InLoop
  <2>1. /\ params = asked /\ Waiting(<<>>, Len(got)) /\ replies # <<>> /\ Last(replies)[1] = "Z"
        /\ Cardinality(Readys(replies)) = 1 + Len(got)
    BY DEF WInv, InLoop
  <2>2. <<>> \in Seq(Byte)
    OBVIOUS
  <2>3. inbox' = Pending(<<>>, sent', Len(got), <<>>) /\ <<>> \in Tails
    BY <1>7, <1>12, <2>1, <2>2
  <2>4. inbox' = Pending(<<>>, sent', Len(got'), <<>>)
    BY <1>2, <2>3, Zenon
  <2>5. Waiting(<<>>, Len(got))'
    BY <2>3, <2>4 DEF Waiting
  <2> QED BY <1>2, <2>1, <2>5, Zenon DEF InLoop
<1>15. Taken'
  <2>1. \A i \in 1..Len(got) : /\ i \in 1..Len(sent)
                               /\ got[i].type = sent[i].type
                               /\ got[i].type = "Q" => got[i].sql = sent[i].sql
                               /\ got[i].useReplica => ClassifyQuery(Reduced(got[i].sql)) = "READ"
    BY <1>7 DEF WInv, Taken
  <2>2. Len(got) <= Len(sent')
    BY <1>7, <1>8
  <2>3. ASSUME NEW i \in 1..Len(got)
        PROVE  got[i].type = sent'[i].type /\ (got[i].type = "Q" => got[i].sql = sent'[i].sql)
    BY <1>8, <2>1
  <2> QED BY <1>2, <2>1, <2>2, <2>3 DEF Taken
<1>16. Written'
  BY <1>2 DEF WInv, Written
<1> QED BY <1>10, <1>11, <1>13, <1>14, <1>15, <1>16 DEF WInv

LEMMA LeaveStep == ASSUME WInv, Leave PROVE WInv'
<1>1. client # "closed" /\ client' = "closed" /\ asked' = asked /\ sent' = sent /\ outbox' = outbox
      /\ phase' = phase /\ params' = params /\ got' = got /\ replies' = replies
      /\ inTransaction' = inTransaction /\ txFailed' = txFailed
  BY DEF Leave, proxyVars
<1>2. Types /\ client \in {"new", "ssl", "started", "closed"} /\ sent \in Seq(Requests)
      /\ inbox \in Seq(Byte) /\ got \in Seq(Taking)
  BY DEF WInv, Types
<1>3. \/ inbox' = inbox
      \/ client = "started" /\ \E tail \in Tails : inbox' = inbox \o tail
  <2>1. CASE client = "started" /\ inbox' = inbox \o <<Code.X>> \o Int32(4)
    <3>1. inbox' = inbox \o Terminate
      BY <1>2, <2>1, TerminateAdds
    <3> QED BY <2>1, <3>1 DEF Tails
  <2>2. CASE client = "started" /\ \E n \in {3, 6} : inbox' = inbox \o SubSeq(RequestBytes("Q", <<73, 78>>), 1, n)
    BY <2>2, Zenon DEF Tails
  <2> QED BY <2>1, <2>2 DEF Leave
<1>4. Len(got) \in 0..Len(sent) /\ 0 \in 0..Len(sent)
  BY <1>2 DEF WInv, Taken
<1>5. inbox' \in Seq(Byte)
  <2>1. CASE \E tail \in Tails : inbox' = inbox \o tail
    <3>1. PICK tail \in Tails : inbox' = inbox \o tail
      BY <2>1
    <3>2. tail \in Seq(Byte)
      BY TailsAreRead
    <3> QED BY <1>2, <3>1, <3>2
  <2> QED BY <1>2, <1>3, <2>1
<1>6. Types'
  BY <1>1, <1>5 DEF WInv, Types
<1>7. Before'
  BY <1>1 DEF Before
<1>8. ASSUME NEW front \in Seq(Byte), NEW n \in 0..Len(sent), Waiting(front, n)
      PROVE  \E tail \in Tails : inbox' = Pending(front, sent', n, tail)
  <2>1. CASE inbox' = inbox
    BY <1>1, <1>8, <2>1 DEF Waiting
  <2>2. CASE client = "started" /\ \E tail \in Tails : inbox' = inbox \o tail
    <3>1. inbox = Pending(front, sent, n, <<>>)
      BY <1>8, <2>2 DEF Waiting
    <3>2. PICK tail \in Tails : inbox' = inbox \o tail
      BY <2>2
    <3>3. Pending(front, sent, n, <<>>) \o tail = Pending(front, sent, n, tail)
      BY <1>2, PendingGrows
    <3> QED BY <1>1, <3>1, <3>2, <3>3, Zenon
  <2> QED BY <1>3, <2>1, <2>2
<1>9. Opening'
  <2> SUFFICES ASSUME phase \in {"startup", "sslRefused"} PROVE Opening'
    BY <1>1 DEF Opening
  <2>1. got = <<>> /\ replies = <<>>
    BY DEF WInv, Opening
  <2>2. CASE client # "started" /\ sent = <<>> /\ inbox = <<>>
    BY <1>1, <1>3, <2>1, <2>2 DEF Opening
  <2>3. CASE client \in {"ssl", "closed"} /\ sent = <<>> /\ phase = "startup" /\ inbox = SSLRequest
    BY <1>1, <1>3, <2>1, <2>3 DEF Opening
  <2>4. CASE asked \in Startups /\ outbox = <<>> /\ Waiting(StartupBytes(asked), 0)
    <3>1. StartupBytes(asked) \in Seq(Byte)
      <4>1. asked \in [user: Text, database: Text]
        BY <2>4, WireAssumption
      <4> QED BY <4>1, StartupIsParsed
    <3>2. \E tail \in Tails : inbox' = Pending(StartupBytes(asked), sent', 0, tail)
      BY <1>4, <1>8, <2>4, <3>1
    <3>3. Waiting(StartupBytes(asked), 0)'
      BY <1>1, <3>2 DEF Waiting
    <3> QED BY <1>1, <2>1, <2>4, <3>3 DEF Opening
  <2> QED BY <2>2, <2>3, <2>4 DEF WInv, Opening
<1>10. InLoop'
  <2> SUFFICES ASSUME phase = "loop" PROVE InLoop'
    BY <1>1 DEF InLoop
  <2>1. /\ params = asked /\ Waiting(<<>>, Len(got)) /\ replies # <<>> /\ Last(replies)[1] = "Z"
        /\ Cardinality(Readys(replies)) = 1 + Len(got)
    BY DEF WInv, InLoop
  <2>2. <<>> \in Seq(Byte)
    OBVIOUS
  <2>3. \E tail \in Tails : inbox' = Pending(<<>>, sent', Len(got), tail)
    BY <1>4, <1>8, <2>1, <2>2
  <2>4. Waiting(<<>>, Len(got))'
    BY <1>1, <2>3 DEF Waiting
  <2> QED BY <1>1, <2>1, <2>4, Zenon DEF InLoop
<1>11. Taken' /\ Written'
  BY <1>1 DEF WInv, Taken, Written
<1> QED BY <1>6, <1>7, <1>9, <1>10, <1>11 DEF WInv

-----------------------------------------------------------------------------
(* The steps of the proxy. *)

LEMMA ReadFailsStep == ASSUME WInv, ReadFails PROVE WInv'
<1>1. phase' = "gone" /\ inbox' = inbox /\ client' = client /\ asked' = asked /\ sent' = sent
      /\ outbox' = outbox /\ params' = params /\ got' = got /\ replies' = replies
      /\ inTransaction' = inTransaction /\ txFailed' = txFailed
  BY DEF ReadFails, Return, clientVars, sessionVars
<1>2. Types'
  BY <1>1 DEF WInv, Types
<1>3. Before'
  BY <1>1 DEF WInv, Before
<1>4. Opening' /\ InLoop'
  BY <1>1 DEF Opening, InLoop
<1>5. Taken' /\ Written'
  BY <1>1 DEF WInv, Taken, Written
<1> QED BY <1>2, <1>3, <1>4, <1>5 DEF WInv

IsSSL(r) == Len(r.msg) = 8 /\ Unsigned(SubSeq(r.msg, 5, 8)) = SSLCode

LEMMA ReadStartupStep == ASSUME WInv, ReadStartup PROVE WInv'
<1> DEFINE r == readStartup(inbox)
<1>1. /\ phase \in {"startup", "sslRefused"} /\ r.is = "ok" /\ inbox' = r.rest
      /\ client' = client /\ asked' = asked /\ sent' = sent
      /\ got' = got /\ inTransaction' = inTransaction /\ txFailed' = txFailed
      /\ \/ /\ phase = "startup" /\ IsSSL(r)
            /\ phase' = "sslRefused" /\ outbox' = outbox \o <<Code.N>>
            /\ params' = params /\ replies' = replies
         \/ /\ ~(phase = "startup" /\ IsSSL(r))
            /\ phase' = "loop" /\ params' = parseStartupParams(r.msg)
            /\ Write(sendAuthOk)
  BY DEF ReadStartup, IsSSL, clientVars, sessionVars
<1> HIDE DEF r
<1>2. Types /\ sent \in Seq(Requests) /\ got = <<>> /\ replies = <<>> /\ outbox \in Seq(Byte)
  BY <1>1 DEF WInv, Types, Opening
<1>3. <<>> \in Seq(Byte)
  OBVIOUS
<1>4. inbox # <<>>
  <2> SUFFICES ASSUME inbox = <<>> PROVE FALSE
    OBVIOUS
  <2>1. r = [is |-> "short"]
    BY NothingIsRead, Zenon DEF r
  <2>2. r.is = "short"
    BY <2>1
  <2> QED BY <1>1, <2>2
<1>5. CASE client \in {"ssl", "closed"} /\ sent = <<>> /\ phase = "startup" /\ inbox = SSLRequest
  <2>1. r = [is |-> "ok", msg |-> SSLRequest, rest |-> <<>>]
    <3>1. r = [is |-> "invalid"] \/ r = [is |-> "ok", msg |-> SSLRequest, rest |-> <<>>]
      BY <1>5, SSLReads, Zenon DEF r
    <3>2. CASE r = [is |-> "invalid"]
      <4>1. r.is = "invalid"
        BY <3>2
      <4> QED BY <1>1, <4>1
    <3> QED BY <3>1, <3>2
  <2>2. r.msg = SSLRequest /\ r.rest = <<>>
    BY <2>1
  <2>3. IsSSL(r)
    BY <2>2, SSLReads, Zenon DEF IsSSL
  <2>4. phase' = "sslRefused" /\ outbox' = outbox \o <<Code.N>> /\ replies' = replies /\ inbox' = <<>>
    BY <1>1, <1>5, <2>2, <2>3
  <2>5. outbox' \in Seq(Byte)
    <3>1. One(Code.N) \in Seq(Byte)
      BY CodesDiffer, ByteTypes
    <3>2. Cat(outbox, One(Code.N)) \in Seq(Byte)
      BY <1>2, <3>1, CatType
    <3>3. outbox' = Cat(outbox, One(Code.N))
      BY <2>4, Zenon DEF Cat, One
    <3> QED BY <3>2, <3>3, Zenon
  <2>6. Types'
    BY <1>1, <1>3, <2>4, <2>5 DEF WInv, Types
  <2>7. Before'
    BY <1>1, <1>2, <1>5, <2>4 DEF WInv, Before
  <2>8. Opening' /\ InLoop'
    BY <1>1, <1>2, <1>5, <2>4 DEF Opening, InLoop
  <2>9. Taken' /\ Written'
    BY <1>1, <1>2, <2>4 DEF WInv, Taken, Written
  <2> QED BY <2>6, <2>7, <2>8, <2>9 DEF WInv
<1>6. CASE client \in {"started", "closed"} /\ asked \in Startups /\ outbox = <<>>
           /\ Waiting(StartupBytes(asked), 0)
  <2>1. PICK tail \in Tails : /\ client = "started" => tail = <<>>
                              /\ inbox = Pending(StartupBytes(asked), sent, 0, tail)
    BY <1>6 DEF Waiting
  <2> DEFINE rest == Pending(<<>>, sent, 0, tail)
             m == StartupBytes(asked)
  <2>2. /\ r = [is |-> "invalid"] \/ r = [is |-> "ok", msg |-> m, rest |-> rest]
        /\ Len(m) # 8 /\ parseStartupParams(m) = asked
    BY <1>2, <1>6, <2>1, StartupReads, Zenon DEF r
  <2> HIDE DEF rest, m
  <2>3. r.msg = m /\ r.rest = rest
    <3>1. CASE r = [is |-> "invalid"]
      <4>1. r.is = "invalid"
        BY <3>1
      <4> QED BY <1>1, <4>1
    <3>2. CASE r = [is |-> "ok", msg |-> m, rest |-> rest]
      BY <3>2
    <3> QED BY <2>2, <3>1, <3>2
  <2>4. ~IsSSL(r)
    BY <2>2, <2>3, Zenon DEF IsSSL
  <2>5. phase' = "loop" /\ params' = parseStartupParams(r.msg) /\ Write(sendAuthOk)
    BY <1>1, <2>4, Zenon
  <2>6. params' = asked /\ inbox' = rest
    BY <1>1, <2>2, <2>3, <2>5, Zenon
  <2>7. /\ outbox' \in Seq(Byte) /\ outbox' = Stream(replies')
        /\ replies' \in Seq(Messages) /\ replies' # <<>>
        /\ Cardinality(Readys(replies')) = Cardinality(Readys(replies)) + 1
        /\ Last(replies')[1] = "Z"
    <3>1. replies \in Seq(Messages)
      BY <1>2 DEF Types
    <3>2. outbox = Stream(replies)
      <4>1. Stream(<<>>) = <<>>
        BY <3>1, EncodedType
      <4> QED BY <1>2, <1>6, <4>1, Zenon
    <3> QED BY <2>5, <3>1, <3>2, AuthOkReady, WriteStep
  <2>8. Cardinality(Readys(replies')) = 1 + Len(got')
    <3>1. Cardinality(Readys(replies)) = 0
      BY <1>2, NothingReady, Zenon
    <3>2. Len(got') = 0
      BY <1>1, <1>2
    <3> QED BY <2>7, <3>1, <3>2
  <2>9. inbox' \in Seq(Byte)
    <3>1. 0 \in 0..Len(sent)
      BY <1>2
    <3>2. rest \in Seq(Byte)
      BY <1>2, <1>3, <3>1, PendingType DEF rest
    <3> QED BY <2>6, <3>2
  <2>10. Types'
    BY <1>1, <2>5, <2>7, <2>9 DEF WInv, Types
  <2>11. Before' /\ Opening'
    BY <1>1, <1>6, <2>5 DEF Before, Opening
  <2>12. Waiting(<<>>, Len(got))'
    <3>1. Len(got') = 0 /\ inbox' = Pending(<<>>, sent', 0, tail)
      BY <1>1, <1>2, <2>6 DEF rest
    <3>2. inbox' = Pending(<<>>, sent', Len(got'), tail)
      BY <3>1, Zenon
    <3> QED BY <1>1, <2>1, <3>2 DEF Waiting
  <2>13. InLoop'
    BY <1>1, <2>6, <2>7, <2>8, <2>12, Zenon DEF InLoop
  <2>14. Taken' /\ Written'
    BY <1>1, <2>7 DEF WInv, Taken, Written
  <2> QED BY <2>10, <2>11, <2>13, <2>14 DEF WInv
<1> QED BY <1>1, <1>4, <1>5, <1>6 DEF WInv, Opening

\* An iteration that takes a request and answers it.
LEMMA RequestIsTaken ==
    ASSUME WInv, phase = "loop", phase' = "loop", params' = params,
           client' = client, asked' = asked, sent' = sent,
           inTransaction' \in BOOLEAN, txFailed' \in BOOLEAN,
           Len(got) < Len(sent), NEW tail \in Tails, client = "started" => tail = <<>>,
           inbox' = Pending(<<>>, sent, Len(got) + 1, tail),
           NEW g \in Taking, got' = Append(got, g), g.type = sent[Len(got) + 1].type,
           g.type = "Q" => g.sql = sent[Len(got) + 1].sql,
           g.useReplica => ClassifyQuery(Reduced(g.sql)) = "READ",
           NEW msgs, OneReady(msgs), Write(msgs)
    PROVE  WInv'
<1>1. Types /\ sent \in Seq(Requests) /\ got \in Seq(Taking) /\ replies \in Seq(Messages) /\ outbox \in Seq(Byte)
  BY DEF WInv, Types
<1>2. /\ outbox' \in Seq(Byte) /\ outbox' = Stream(replies')
      /\ replies' \in Seq(Messages) /\ replies' # <<>>
      /\ Cardinality(Readys(replies')) = Cardinality(Readys(replies)) + 1
      /\ Last(replies')[1] = "Z"
  <2>1. outbox = Stream(replies)
    BY DEF WInv, InLoop, Written
  <2> QED BY <1>1, <2>1, WriteStep
<1>3. got' \in Seq(Taking) /\ Len(got') = Len(got) + 1 /\ Len(got) \in Nat /\ Len(sent) \in Nat
      /\ got'[Len(got) + 1] = g /\ \A i \in 1..Len(got) : got'[i] = got[i]
  BY <1>1
<1>4. inbox' \in Seq(Byte)
  <2>1. Len(got) + 1 \in 0..Len(sent) /\ <<>> \in Seq(Byte)
    BY <1>3
  <2>2. Pending(<<>>, sent, Len(got) + 1, tail) \in Seq(Byte)
    BY <1>1, <2>1, PendingType
  <2> QED BY <2>2, Zenon
<1>5. Types'
  BY <1>1, <1>2, <1>3, <1>4 DEF Types
<1>6. Before' /\ Opening'
  BY DEF WInv, Before, Opening
<1>7. Waiting(<<>>, Len(got))'
  <2>1. inbox' = Pending(<<>>, sent', Len(got'), tail)
    BY <1>3, Zenon
  <2> QED BY <2>1 DEF Waiting
<1>8. InLoop'
  <2>1. params = asked /\ Cardinality(Readys(replies)) = 1 + Len(got)
    BY DEF WInv, InLoop
  <2>2. Cardinality(Readys(replies')) = 1 + Len(got')
    BY <1>2, <1>3, <2>1
  <2>3. params' = asked'
    BY <2>1
  <2> QED BY <1>2, <1>7, <2>2, <2>3, Zenon DEF InLoop
<1>9. Taken'
  <2>1. Len(got') <= Len(sent')
    BY <1>3
  <2>2. ASSUME NEW i \in 1..Len(got')
        PROVE  /\ got'[i].type = sent'[i].type /\ (got'[i].type = "Q" => got'[i].sql = sent'[i].sql)
               /\ got'[i].useReplica => ClassifyQuery(Reduced(got'[i].sql)) = "READ"
    <3>1. i \in 1..Len(got) \/ i = Len(got) + 1
      BY <1>3
    <3>2. CASE i \in 1..Len(got)
      <4>1. /\ got[i].type = sent[i].type /\ (got[i].type = "Q" => got[i].sql = sent[i].sql)
            /\ got[i].useReplica => ClassifyQuery(Reduced(got[i].sql)) = "READ"
        BY <3>2 DEF WInv, Taken
      <4>2. got'[i] = got[i]
        BY <1>3, <3>2
      <4> QED BY <4>1, <4>2, Zenon
    <3>3. CASE i = Len(got) + 1
      <4>1. got'[i] = g
        BY <1>3, <3>3, Zenon
      <4> QED BY <3>3, <4>1, Zenon
    <3> QED BY <3>1, <3>2, <3>3
  <2> QED BY <2>1, <2>2 DEF Taken
<1>10. Written'
  BY <1>2 DEF Written
<1> QED BY <1>5, <1>6, <1>8, <1>9, <1>10 DEF WInv

LEMMA ReadMessageStep == ASSUME WInv, ReadMessage PROVE WInv'
<1> DEFINE r == readRawMessage(inbox)
<1>1. /\ phase = "loop" /\ r.is = "ok" /\ inbox' = r.rest
      /\ client' = client /\ asked' = asked /\ sent' = sent
      /\ \/ r.msg[1] = Code.X /\ Return
         \/ r.msg[1] = Code.Q /\ TakeQuery(extractSQL(r.msg)) /\ phase' = phase /\ params' = params
         \/ /\ r.msg[1] \notin {Code.X, Code.Q}
            /\ got' = Append(got, [type |-> "P", sql |-> <<>>, useReplica |-> FALSE])
            /\ Write(ErrorReply(Unsupported, "I"))
            /\ phase' = phase /\ params' = params
            /\ inTransaction' = inTransaction /\ txFailed' = txFailed
  BY DEF ReadMessage, clientVars
<1> HIDE DEF r
<1>2. Types /\ sent \in Seq(Requests) /\ got \in Seq(Taking) /\ outbox \in Seq(Byte)
      /\ inTransaction \in BOOLEAN /\ txFailed \in BOOLEAN
  BY DEF WInv, Types
<1>3. Len(got) \in Nat /\ Len(sent) \in Nat /\ Len(got) \in 0..Len(sent)
  BY <1>2 DEF WInv, Taken
<1>4. PICK tail \in Tails : /\ client = "started" => tail = <<>>
                            /\ inbox = Pending(<<>>, sent, Len(got), tail)
  BY <1>1 DEF WInv, InLoop, Waiting
<1>5. CASE Len(got) = Len(sent)
  <2>1. r = [is |-> "short"] \/ r = [is |-> "ok", msg |-> Terminate, rest |-> <<>>]
    BY <1>2, <1>3, <1>4, <1>5, LoopReads, Zenon DEF r
  <2>2. r = [is |-> "ok", msg |-> Terminate, rest |-> <<>>]
    <3>1. CASE r = [is |-> "short"]
      <4>1. r.is = "short"
        BY <3>1
      <4> QED BY <1>1, <4>1
    <3> QED BY <2>1, <3>1
  <2>3. r.msg = Terminate /\ r.rest = <<>>
    BY <2>2
  <2>4. Terminate[1] = Code.X
    <3>1. <<>> \in Seq(Byte)
      OBVIOUS
    <3> QED BY <3>1, CodesDiffer, FramedType DEF Terminate
  <2>5. r.msg[1] = Code.X /\ Code.X # Code.Q
    BY <2>3, <2>4, CodesDiffer, Zenon
  <2>6. Return
    BY <1>1, <2>5, Zenon
  <2>7. phase' = "gone" /\ params' = params /\ got' = got /\ outbox' = outbox /\ replies' = replies
        /\ inTransaction' = inTransaction /\ txFailed' = txFailed
    BY <2>6 DEF Return, sessionVars
  <2>8. inbox' \in Seq(Byte)
    BY <1>1, <2>3
  <2>9. Types'
    BY <1>1, <2>7, <2>8 DEF WInv, Types
  <2>10. Before' /\ Opening' /\ InLoop'
    BY <1>1, <2>7 DEF WInv, Before, Opening, InLoop
  <2>11. Taken' /\ Written'
    BY <1>1, <2>7 DEF WInv, Taken, Written
  <2> QED BY <2>9, <2>10, <2>11 DEF WInv
<1>6. CASE Len(got) < Len(sent)
  <2>1. PICK q : q = sent[Len(got) + 1]
    OBVIOUS
  <2>2. /\ q \in Requests
        /\ r.msg[1] = Code[q.type]
        /\ r.rest = Pending(<<>>, sent, Len(got) + 1, tail)
        /\ q.type = "Q" => extractSQL(r.msg) = q.sql
    BY <1>2, <1>3, <1>4, <1>6, <2>1, LoopReads, Zenon DEF r
  <2>3. q.type \in {"Q", "P"} /\ q.sql \in Text
    BY <2>2 DEF Requests
  <2>4. inbox' = Pending(<<>>, sent, Len(got) + 1, tail)
    BY <1>1, <2>2, Zenon
  <2>5. CASE q.type = "Q"
    <3>1. r.msg[1] = Code.Q /\ extractSQL(r.msg) = q.sql
      <4>1. Code["Q"] = Code.Q
        OBVIOUS
      <4> QED BY <2>2, <2>5, <4>1, Zenon
    <3>2. TakeQuery(q.sql) /\ phase' = phase /\ params' = params
      BY <1>1, <3>1, CodesDiffer, Zenon
    <3> DEFINE route == Route(Reduced(q.sql), inTransaction, txFailed)
               readyStatus == IF route[1] THEN "T" ELSE "I"
               g == [type |-> "Q", sql |-> q.sql, useReplica |-> route[3]]
    <3>3. PICK answer \in Results :
              LET failed == route[2] \/ (Fails(answer) /\ route[1])
              IN  /\ inTransaction' = route[1] /\ txFailed' = failed
                  /\ got' = Append(got, g)
                  /\ Write(Relayed(answer, readyStatus) \o
                           (IF Fails(answer)
                            THEN ErrorReply(answer.error, IF failed THEN "E" ELSE readyStatus) ELSE <<>>))
      BY <3>2, Zenon DEF TakeQuery
    <3> DEFINE failed == route[2] \/ (Fails(answer) /\ route[1])
               errStatus == IF failed THEN "E" ELSE readyStatus
               msgs == Relayed(answer, readyStatus) \o
                          (IF Fails(answer) THEN ErrorReply(answer.error, errStatus) ELSE <<>>)
    <3>4. /\ route[1] \in BOOLEAN /\ route[2] \in BOOLEAN /\ route[3] \in BOOLEAN
          /\ route[3] => ClassifyQuery(Reduced(q.sql)) = "READ"
      BY <1>2, RouteType
    <3>5. inTransaction' = route[1] /\ txFailed' = failed /\ got' = Append(got, g) /\ Write(msgs)
      BY <3>3, Zenon
    <3> HIDE DEF route
    <3>6. inTransaction' \in BOOLEAN /\ txFailed' \in BOOLEAN
      BY <3>4, <3>5
    <3>7. g \in Taking /\ g.type = q.type /\ g.sql = q.sql /\ g.useReplica = route[3]
      BY <2>3, <2>5, <3>4 DEF Taking
    <3>8. readyStatus \in {"I", "T"} /\ errStatus \in {"I", "T", "E"}
      OBVIOUS
    <3> HIDE DEF readyStatus, errStatus, g
    <3>9. OneReady(msgs)
      BY <3>8, RelayedReady
    <3> HIDE DEF msgs
    <3>10. /\ g.type = sent[Len(got) + 1].type /\ (g.type = "Q" => g.sql = sent[Len(got) + 1].sql)
           /\ g.useReplica => ClassifyQuery(Reduced(g.sql)) = "READ"
      BY <2>1, <3>4, <3>7, Zenon
    <3>11. phase' = "loop"
      BY <1>1, <3>2
    <3> QED BY <1>1, <1>4, <1>6, <2>4, <3>2, <3>5, <3>6, <3>7, <3>9, <3>10, <3>11, RequestIsTaken
  <2>6. CASE q.type = "P"
    <3> DEFINE g == [type |-> "P", sql |-> <<>>, useReplica |-> FALSE]
               msgs == ErrorReply(Unsupported, "I")
    <3>1. r.msg[1] = Code.P
      <4>1. Code["P"] = Code.P
        OBVIOUS
      <4> QED BY <2>2, <2>6, <4>1, Zenon
    <3>2. /\ got' = Append(got, g) /\ Write(msgs)
          /\ phase' = phase /\ params' = params
          /\ inTransaction' = inTransaction /\ txFailed' = txFailed
      BY <1>1, <3>1, CodesDiffer, Zenon
    <3>3. g \in Taking /\ g.type = q.type /\ g.type # "Q" /\ ~g.useReplica
      BY <2>6 DEF Taking, Text
    <3>4. OneReady(msgs)
      <4>1. <<"E", Unsupported>> \in Messages /\ "I" \in {"I", "T", "E"}
        BY MessageForms
      <4>2. NoReady(<<>>)
        BY DEF NoReady
      <4>3. OneReady(<<>> \o msgs)
        BY <4>1, <4>2, ErrorReplyReady
      <4>4. msgs \in Seq(Messages)
        <5>1. <<"E", Unsupported>> \in Messages /\ <<"Z", "I">> \in Messages
          BY MessageForms
        <5> QED BY <5>1 DEF ErrorReply
      <4> HIDE DEF msgs
      <4>5. <<>> \o msgs = msgs
        BY <4>4, EmptyIsUnit
      <4> QED BY <4>3, <4>5, Zenon
    <3> HIDE DEF g, msgs
    <3>5. /\ g.type = sent[Len(got) + 1].type /\ (g.type = "Q" => g.sql = sent[Len(got) + 1].sql)
          /\ g.useReplica => ClassifyQuery(Reduced(g.sql)) = "READ"
      BY <2>1, <3>3, Zenon
    <3>6. phase' = "loop" /\ inTransaction' \in BOOLEAN /\ txFailed' \in BOOLEAN
      BY <1>1, <1>2, <3>2
    <3> QED BY <1>1, <1>4, <1>6, <2>4, <3>2, <3>3, <3>4, <3>5, <3>6, RequestIsTaken
  <2> QED BY <2>3, <2>5, <2>6
<1> QED BY <1>3, <1>5, <1>6

-----------------------------------------------------------------------------
LEMMA WStep == WInv /\ [Next]_vars => WInv'
<1> SUFFICES ASSUME WInv, [Next]_vars PROVE WInv'
  OBVIOUS
<1>1. CASE SendSSLRequest
  BY <1>1, SendSSLRequestStep
<1>2. CASE SendStartup
  BY <1>2, SendStartupStep
<1>3. CASE SendRequest
  BY <1>3, SendRequestStep
<1>4. CASE Leave
  BY <1>4, LeaveStep
<1>5. CASE ReadStartup
  BY <1>5, ReadStartupStep
<1>6. CASE ReadMessage
  BY <1>6, ReadMessageStep
<1>7. CASE ReadFails
  BY <1>7, ReadFailsStep
<1>8. CASE UNCHANGED vars
  BY <1>8 DEF vars, clientVars, WInv, Types, Before, Opening, InLoop, Taken, Waiting, Written
<1> QED BY <1>1, <1>2, <1>3, <1>4, <1>5, <1>6, <1>7, <1>8 DEF Next

LEMMA WInvariant == Spec => []WInv
<1>1. Init => WInv
  BY WInit
<1>2. WInv /\ [Next]_vars => WInv'
  BY WStep
<1> QED BY <1>1, <1>2, PTL DEF Spec

\* What the proxy reads and writes are bytes, and its state is what handleClient's
\* variables can hold, for every script, result and startup message.
THEOREM WireTypeCorrect == Spec => []WireTypeOK
<1>1. WInv => WireTypeOK
  <2> SUFFICES ASSUME WInv PROVE WireTypeOK
    OBVIOUS
  <2>1. Types /\ Len(got) \in Nat
    BY DEF WInv, Types
  <2>2. ASSUME NEW b \in Seq(Byte) PROVE Range(b) \subseteq 0..255
    <3> SUFFICES ASSUME NEW x \in Range(b) PROVE x \in 0..255
      OBVIOUS
    <3>1. PICK i \in DOMAIN b : x = b[i]
      BY DEF Range
    <3>2. b[i] \in Byte
      OBVIOUS
    <3> QED BY <3>1, <3>2 DEF Byte
  <2>3. Range(inbox) \subseteq 0..255 /\ Range(outbox) \subseteq 0..255
    BY <2>1, <2>2 DEF Types
  <2> QED BY <2>1, <2>3 DEF WireTypeOK, Types
<1> QED BY <1>1, WInvariant, PTL

\* handleClient takes the requests of every client in order and as they were sent,
\* however they follow one another, and is at the end of a message whenever it reads:
\* the length fields and NULs that readRawMessage, extractSQL and parseStartupParams
\* rely on are where the client put them.
THEOREM RequestsAreUnderstood == Spec => []RequestsUnderstood
<1>1. WInv => RequestsUnderstood
  <2> SUFFICES ASSUME WInv PROVE RequestsUnderstood
    OBVIOUS
  <2>1. sent \in Seq(Requests) /\ got \in Seq(Taking) /\ DOMAIN got = 1..Len(got)
    BY DEF WInv, Types
  <2>2. phase = "loop" => params = asked
    BY DEF WInv, InLoop
  <2>3. /\ Len(got) <= Len(sent)
        /\ \A i \in DOMAIN got : /\ got[i].type = sent[i].type
                                 /\ got[i].type = "Q" => got[i].sql = sent[i].sql
    BY <2>1 DEF WInv, Taken
  <2>4. ASSUME phase = "loop", client = "started"
        PROVE  inbox = FlattenSeq([i \in 1..(Len(sent) - Len(got)) |->
                          RequestBytes(sent[Len(got) + i].type, sent[Len(got) + i].sql)])
    <3>1. inbox = Pending(<<>>, sent, Len(got), <<>>)
      BY <2>4 DEF WInv, InLoop, Waiting
    <3>2. Len(got) \in 0..Len(sent) /\ <<>> \in Seq(Byte)
      BY <2>1, <2>3
    <3>3. Unread(sent, Len(got)) \in Seq(Byte)
      BY <2>1, <3>2, UnreadSteps
    <3> DEFINE u == Unread(sent, Len(got))
    <3>4. Cat(u, <<>>) = u /\ Cat(<<>>, u) = u
      BY <3>3, CatEmpty
    <3>5. inbox = u
      BY <3>1, <3>4, Zenon DEF Pending
    <3> QED BY <3>5, Zenon DEF Unread, UnreadSeqs, BytesOf
  <2> QED BY <2>2, <2>3, <2>4, Zenon DEF RequestsUnderstood
<1> QED BY <1>1, WInvariant, PTL

\* handleClient writes one ReadyForQuery for the startup and one for each request, at
\* the end of its answer, whatever it is: complete, refused by the server, failed in
\* the middle of its rows, or an error for a message that is not supported.
THEOREM AlwaysInStep == Spec => []InStep
<1>1. WInv => InStep
  BY DEF WInv, InLoop, InStep, Readys
<1> QED BY <1>1, WInvariant, PTL

\* The length fields that the send functions compute are the lengths of what they write,
\* for empty strings, NULLs, no rows and negative numbers alike: a client that goes by
\* them reads the very replies that were written, however many follow one another.
THEOREM RepliesAreUnderstood == Spec => []RepliesUnderstood
<1>1. WInv => RepliesUnderstood
  <2> SUFFICES ASSUME WInv, replies # <<>> PROVE RepliesUnderstood
    BY DEF RepliesUnderstood
  <2>1. replies \in Seq(Messages) /\ outbox = Stream(replies)
    BY DEF WInv, Types, Written
  <2>2. DOMAIN replies = 1..Len(replies)
    BY <2>1
  <2>3. /\ Cuts(MessageSize, Stream(replies), Len(replies))
        /\ \A i \in 1..Len(replies) : DecodeMessage(Piece(MessageSize, Stream(replies), i)) = replies[i]
    BY <2>1, StreamIsUnderstood
  <2> QED BY <2>1, <2>2, <2>3, Zenon DEF RepliesUnderstood
<1> QED BY <1>1, WInvariant, PTL

\* "Strip leading whitespace and comments": of every statement that the proxy takes,
\* stripLeadingComments leaves what PostgreSQL reads on from, and firstToken finds in the
\* text as it was sent the word it finds behind the lead, or none of the words at all.
THEOREM CommentsAreStripped == Spec => []CommentsStripped
<1>1. WInv => CommentsStripped
  <2> SUFFICES ASSUME WInv, NEW i \in DOMAIN got
               PROVE  /\ Closed(got[i].sql) /\ LinesEndWithLF(got[i].sql) =>
                            TrimSpace(stripLeadingComments(got[i].sql)) = TrimSpace(Lexed(got[i].sql).rest)
                      /\ \A w \in DOMAIN Spelling :
                            FirstToken(Reduced(got[i].sql)) = w <=> firstToken(got[i].sql) = Spelling[w]
    BY Zenon DEF CommentsStripped
  <2>1. got[i] \in Taking
    BY DEF WInv, Types
  <2>2. got[i].sql \in Seq(Byte)
    BY <2>1, TextIsBytes DEF Taking
  <2> QED BY <2>2, AllStripped, FirstTokenSeen
<1> QED BY <1>1, WInvariant, PTL

\* A statement whose comments are closed, and whose carriage returns have their line
\* feeds, goes to the replica only if PostgreSQL too, behind the blanks and the comments
\* that it skips, reads the word of a read there, or a COPY with a " TO " anywhere, or
\* nothing at all.
THEOREM WritesStayOnPrimary == Spec => []WritesReachPrimary
<1>1. WInv => WritesReachPrimary
  <2> SUFFICES ASSUME WInv, NEW i \in DOMAIN got, got[i].useReplica,
                      Closed(got[i].sql), LinesEndWithLF(got[i].sql), Lexed(got[i].sql).rest # <<>>
               PROVE  \E w \in DOMAIN Spelling :
                         /\ Spelling[w] = LexedWord(got[i].sql)
                         /\ \/ Upper[w] \in {"SELECT", "SHOW", "EXPLAIN", "SET", "RESET", "DISCARD"}
                            \/ Upper[w] = "COPY" /\ HasTo(Lexed(got[i].sql).rest)
    BY Zenon DEF WritesReachPrimary, BeginsAsRead
  <2>1. got[i] \in Taking /\ i \in 1..Len(got)
    BY DEF WInv, Types
  <2>2. got[i].sql \in Seq(Byte)
    BY <2>1, TextIsBytes DEF Taking
  <2>3. ClassifyQuery(Reduced(got[i].sql)) = "READ"
    BY <2>1 DEF WInv, Taken
  <2> QED BY <2>2, <2>3, ReadSeen
<1> QED BY <1>1, WInvariant, PTL
=============================================================================
