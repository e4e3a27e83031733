--------------------------- MODULE UefiBootProofs ---------------------------
(***************************************************************************)
(* Proofs about UefiBoot, for every set of machines: where the files come  *)
(* from, who reports a panic, and which video mode is in use.              *)
(***************************************************************************)
EXTENDS UefiBoot, WellFoundedInduction, TLAPS

-----------------------------------------------------------------------------
(*****************************************************************************)
(* Induction                                                                 *)
(*****************************************************************************)

\* A set of natural numbers that is not empty has a least one.
LEMMA LeastExists ==
  ASSUME NEW T, T \subseteq Nat, T # {}
  PROVE  \E x \in T : \A y \in T : x <= y
<1> DEFINE R == OpToRel(<, Nat)
<1>1. IsWellFoundedOn(R, Nat)
  BY NatLessThanWellFounded, Zenon
<1>2. ASSUME NEW x \in Nat, NEW y \in Nat, y < x PROVE <<y, x>> \in R
  BY <1>2 DEF OpToRel
<1> HIDE DEF R
<1>3. PICK x \in T : \A y \in T : ~(<<y, x>> \in R)
  BY <1>1, WFMin, Zenon
<1>4. \A y \in T : ~(y < x)
  BY <1>2, <1>3, Zenon
<1> QED
  BY <1>4

\* What holds of 0, and of n + 1 when it holds of n, holds of every n: stated
\* for the set of those it holds of.
LEMMA EveryNumber ==
  ASSUME NEW S, 0 \in S, \A n \in Nat : n \in S => n + 1 \in S
  PROVE  \A n \in Nat : n \in S
<1> SUFFICES ASSUME NEW n \in Nat, n \notin S PROVE FALSE
  OBVIOUS
<1> DEFINE T == {k \in Nat : k \notin S}
<1>1. T \subseteq Nat /\ T # {}
  OBVIOUS
<1>2. PICK x \in T : \A y \in T : x <= y
  BY <1>1, LeastExists, Zenon
<1>3. x \in Nat /\ x \notin S /\ x # 0
  BY <1>2
<1>4. x - 1 \in Nat /\ ~(x <= x - 1) /\ (x - 1) + 1 = x
  BY <1>3
<1>5. x - 1 \in S
  BY <1>2, <1>4
<1> QED
  BY <1>3, <1>4, <1>5

-----------------------------------------------------------------------------
(*****************************************************************************)
(* Integers and their bytes                                                  *)
(*****************************************************************************)
\* An integer of two bytes and its bytes determine each other.
LEMMA BytesOfWord ==
  ASSUME NEW word \in Words
  PROVE  /\ word % Base \in Bytes /\ word \div Base \in Bytes
         /\ word = (word % Base) + Base * (word \div Base)
<1> DEFINE q == word \div Base
           r == word % Base
<1>1. q \in Int /\ r \in 0..(Base - 1) /\ word = r + Base * q
  BY BaseAssumption DEF Words
<1> HIDE DEF q, r
<1>2. r + Base * q \in 0..(Base * Base - 1)
  BY <1>1 DEF Words
<1>3. q \in 0..(Base - 1)
  BY BaseAssumption, <1>1, <1>2
<1> QED
  BY <1>1, <1>3, Zenon DEF Bytes, q, r

\* and of any two bytes.
LEMMA WordOfBytes ==
  ASSUME NEW lo \in Bytes, NEW hi \in Bytes
  PROVE  /\ lo + Base * hi \in Words
         /\ (lo + Base * hi) % Base = lo /\ (lo + Base * hi) \div Base = hi
<1>1. lo + Base * hi \in Words
  BY BaseAssumption DEF Words, Bytes
<1>2. (lo + Base * hi) % Base = lo /\ (lo + Base * hi) \div Base = hi
  BY BaseAssumption DEF Bytes
<1> QED
  BY <1>1, <1>2

-----------------------------------------------------------------------------
(*****************************************************************************)
(* What deserialize makes of a field that serialize has written              *)
(*****************************************************************************)

\* from_le_bytes undoes to_le_bytes.
LEMMA RestoreWord ==
  ASSUME NEW word \in Words
  PROVE  /\ ToLeBytes(word) = <<word % Base, word \div Base>>
         /\ ToLeBytes(word) \in Seq(Bytes) /\ Len(ToLeBytes(word)) = 2
         /\ FromLeBytes(ToLeBytes(word)) = word
BY BytesOfWord DEF ToLeBytes, FromLeBytes

\* The tags are bytes.
LEMMA SmallBytes == 0 \in Bytes /\ 1 \in Bytes
BY BaseAssumption DEF Bytes

\* A byte before a sequence of bytes can be taken off again.
LEMMA Prepend ==
  ASSUME NEW b \in Bytes, NEW s \in Seq(Bytes), NEW t, t = <<b>> \o s
  PROVE  t \in Seq(Bytes) /\ Len(t) = 1 + Len(s) /\ t[1] = b /\ Tail(t) = s
OBVIOUS

\* The arms of deserialize for a first byte 1.
LEMMA Tagged ==
  ASSUME NEW b, b[1] = 1
  PROVE  /\ DeserializeMapping(b) = Ok(FixedAddress(FromLeBytes(Tail(b))))
         /\ DeserializeOptionWord(b) = Ok(Some(FromLeBytes(Tail(b))))
         /\ DeserializeMapping(Tail(b)).ok =>
              DeserializeOptionMapping(b) = Ok(Some(DeserializeMapping(Tail(b)).value))
         /\ ~DeserializeMapping(Tail(b)).ok => DeserializeOptionMapping(b) = Error
<1>1. b[1] # 0
  OBVIOUS
<1> QED
  BY <1>1, Zenon DEF DeserializeMapping, DeserializeOptionWord, DeserializeOptionMapping

\* A mapping is read as it was written,
LEMMA RestoreMapping ==
  ASSUME NEW m \in Mappings
  PROVE  /\ SerializeMapping(m) \in Seq(Bytes) /\ Len(SerializeMapping(m)) = 3
         /\ DeserializeMapping(SerializeMapping(m)) = Ok(m)
<1>1. CASE m = Dynamic
  BY <1>1, SmallBytes DEF SerializeMapping, DeserializeMapping
<1>2. CASE m # Dynamic
  <2>1. PICK addr \in Words : m = FixedAddress(addr)
    BY <1>2, Zenon DEF Mappings
  <2> DEFINE b == ToLeBytes(addr)
  <2>2. m.addr = addr
    BY <2>1 DEF FixedAddress
  <2>3. SerializeMapping(m) = <<1>> \o b
    BY <1>2, <2>2, Zenon DEF SerializeMapping
  <2>4. b \in Seq(Bytes)
    BY RestoreWord, Zenon
  <2>5. Len(b) = 2 /\ FromLeBytes(b) = addr
    BY RestoreWord, Zenon
  <2> HIDE DEF b
  <2>6. /\ SerializeMapping(m) \in Seq(Bytes) /\ Len(SerializeMapping(m)) = 1 + Len(b)
        /\ SerializeMapping(m)[1] = 1 /\ Tail(SerializeMapping(m)) = b
    BY <2>3, <2>4, Prepend, SmallBytes, Zenon
  <2>7. Len(SerializeMapping(m)) = 3
    BY <2>5, <2>6
  <2>8. DeserializeMapping(SerializeMapping(m)) = Ok(FixedAddress(addr))
    BY <2>5, <2>6, Tagged, Zenon
  <2> QED
    BY <2>1, <2>6, <2>7, <2>8, Zenon
<1> QED
  BY <1>1, <1>2

\* The types a field can have.
Types == {"uuid", "flag", "word", "mapping", "option_word", "option_mapping"}

\* and so is the value of any field.
LEMMA RestoreField ==
  ASSUME NEW type \in Types, NEW value \in Values(type)
  PROVE  /\ SerializeField(type, value) \in Seq(Bytes)
         /\ Len(SerializeField(type, value)) = Width(type)
         /\ DeserializeField(type, SerializeField(type, value)) = Ok(value)
<1> DEFINE b == SerializeField(type, value)
<1>1. CASE type = "uuid"
  BY <1>1, SmallBytes DEF SerializeField, DeserializeField, Width, Values, Uuid
<1>2. CASE type = "flag"
  <2>1. value \in BOOLEAN
    BY <1>2 DEF Values
  <2>2. CASE value = TRUE
    <3>1. b = <<1>>
      BY <1>2, <2>2 DEF SerializeField
    <3>2. <<1>>[1] \in {0, 1} /\ (<<1>>[1] = 1) = TRUE
      OBVIOUS
    <3>3. DeserializeField(type, <<1>>) = Ok(TRUE)
      BY <1>2, <3>2, Zenon DEF DeserializeField
    <3>4. <<1>> \in Seq(Bytes) /\ Len(<<1>>) = Width(type)
      BY <1>2, SmallBytes DEF Width
    <3> QED
      BY <2>2, <3>1, <3>3, <3>4, Zenon
  <2>3. CASE value = FALSE
    <3>1. b = <<0>>
      BY <1>2, <2>3 DEF SerializeField
    <3>2. <<0>>[1] \in {0, 1} /\ (<<0>>[1] = 1) = FALSE
      OBVIOUS
    <3>3. DeserializeField(type, <<0>>) = Ok(FALSE)
      BY <1>2, <3>2, Zenon DEF DeserializeField
    <3>4. <<0>> \in Seq(Bytes) /\ Len(<<0>>) = Width(type)
      BY <1>2, SmallBytes DEF Width
    <3> QED
      BY <2>3, <3>1, <3>3, <3>4, Zenon
  <2> QED
    BY <2>1, <2>2, <2>3, Zenon
<1>3. CASE type = "word"
  <2>1. value \in Words
    BY <1>3 DEF Values
  <2>2. b = ToLeBytes(value) /\ Width(type) = 2
    BY <1>3 DEF SerializeField, Width
  <2>3. DeserializeField(type, b) = Ok(FromLeBytes(b))
    BY <1>3 DEF DeserializeField
  <2> QED
    BY <2>1, <2>2, <2>3, RestoreWord
<1>4. CASE type = "mapping"
  <2>1. value \in Mappings
    BY <1>4 DEF Values
  <2>2. b = SerializeMapping(value) /\ Width(type) = 3
    BY <1>4 DEF SerializeField, Width
  <2>3. DeserializeField(type, b) = DeserializeMapping(b)
    BY <1>4 DEF DeserializeField
  <2> QED
    BY <2>1, <2>2, <2>3, RestoreMapping
<1>5. CASE type = "option_word"
  <2>1. value \in Options(Words) /\ Width(type) = 3
    BY <1>5 DEF Values, Width
  <2>2. DeserializeField(type, b) = DeserializeOptionWord(b)
    BY <1>5 DEF DeserializeField
  <2>3. CASE value = None
    <3>1. b = <<0, 0, 0>>
      BY <1>5, <2>3 DEF SerializeField
    <3> QED
      BY <2>1, <2>2, <2>3, <3>1, SmallBytes DEF DeserializeOptionWord
  <2>4. CASE value # None
    <3>1. PICK word \in Words : value = Some(word)
      BY <2>1, <2>4, Zenon DEF Options
    <3>2. value.value = word
      BY <3>1 DEF Some
    <3> DEFINE t == ToLeBytes(word)
    <3>3. b = <<1>> \o t
      BY <1>5, <2>4, <3>2 DEF SerializeField
    <3>4. t \in Seq(Bytes) /\ Len(t) = 2 /\ FromLeBytes(t) = word
      BY RestoreWord, Zenon
    <3> HIDE DEF t, b
    <3>5. b \in Seq(Bytes) /\ Len(b) = 1 + Len(t) /\ b[1] = 1 /\ Tail(b) = t
      BY <3>3, <3>4, Prepend, SmallBytes, Zenon
    <3>6. Len(b) = Width(type)
      BY <2>1, <3>4, <3>5
    <3>7. DeserializeOptionWord(b) = Ok(Some(word))
      BY <3>4, <3>5, Tagged, Zenon
    <3> QED
      BY <2>2, <3>1, <3>5, <3>6, <3>7, Zenon DEF b
  <2> QED
    BY <2>3, <2>4
<1>6. CASE type = "option_mapping"
  <2>1. value \in Options(Mappings) /\ Width(type) = 4
    BY <1>6 DEF Values, Width
  <2>2. DeserializeField(type, b) = DeserializeOptionMapping(b)
    BY <1>6 DEF DeserializeField
  <2>3. CASE value = None
    <3>1. b = <<0, 0, 0, 0>>
      BY <1>6, <2>3 DEF SerializeField
    <3> QED
      BY <2>1, <2>2, <2>3, <3>1, SmallBytes DEF DeserializeOptionMapping
  <2>4. CASE value # None
    <3>1. PICK m \in Mappings : value = Some(m)
      BY <2>1, <2>4, Zenon DEF Options
    <3>2. value.value = m
      BY <3>1 DEF Some
    <3> DEFINE t == SerializeMapping(m)
    <3>3. b = <<1>> \o t
      BY <1>6, <2>4, <3>2 DEF SerializeField
    <3>4. t \in Seq(Bytes)
      BY RestoreMapping, Zenon
    <3>5. Len(t) = 3 /\ DeserializeMapping(t) = Ok(m)
      BY RestoreMapping, Zenon
    <3> HIDE DEF t, b
    <3>6. b \in Seq(Bytes) /\ Len(b) = 1 + Len(t) /\ b[1] = 1 /\ Tail(b) = t
      BY <3>3, <3>4, Prepend, SmallBytes, Zenon
    <3>7. Len(b) = Width(type)
      BY <2>1, <3>5, <3>6
    <3>8. Ok(m).ok /\ Ok(m).value = m
      BY DEF Ok
    <3>9. DeserializeOptionMapping(b) = Ok(Some(m))
      BY <3>5, <3>6, <3>8, Tagged, Zenon
    <3> QED
      BY <2>2, <3>1, <3>6, <3>7, <3>9, Zenon DEF b
  <2> QED
    BY <2>3, <2>4
<1> QED
  BY <1>1, <1>2, <1>3, <1>4, <1>5, <1>6, Zenon DEF Types

-----------------------------------------------------------------------------
(*****************************************************************************)
(* What serialize makes of a field that deserialize has read                 *)
(*****************************************************************************)

\* A section is its first byte and the rest.
LEMMA Uncons ==
  ASSUME NEW b \in Seq(Bytes), Len(b) > 0
  PROVE  /\ b[1] \in Bytes /\ Tail(b) \in Seq(Bytes) /\ Len(Tail(b)) = Len(b) - 1
         /\ b = <<b[1]>> \o Tail(b)
OBVIOUS

\* Three or four zeros, seen as a tag and what follows it.
LEMMA Zeros ==
  ASSUME NEW b \in Seq(Bytes), b[1] = 0
  PROVE  /\ Len(b) = 3 /\ Tail(b) = <<0, 0>> => b = <<0, 0, 0>>
         /\ Len(b) = 4 /\ Tail(b) = <<0, 0, 0>> => b = <<0, 0, 0, 0>>
<1>1. ASSUME NEW i \in 1..(Len(b) - 1) PROVE Tail(b)[i] = b[i + 1]
  OBVIOUS
<1>2. Len(b) = 3 => Tail(b)[1] = b[2] /\ Tail(b)[2] = b[3]
  <2>1. Len(b) = 3 => 1 \in 1..(Len(b) - 1) /\ 2 \in 1..(Len(b) - 1)
    OBVIOUS
  <2>2. 1 + 1 = 2 /\ 2 + 1 = 3
    OBVIOUS
  <2> QED
    BY <1>1, <2>1, <2>2, Zenon
<1>3. Len(b) = 4 => Tail(b)[1] = b[2] /\ Tail(b)[2] = b[3] /\ Tail(b)[3] = b[4]
  <2>1. Len(b) = 4 => 1 \in 1..(Len(b) - 1) /\ 2 \in 1..(Len(b) - 1) /\ 3 \in 1..(Len(b) - 1)
    OBVIOUS
  <2>2. 1 + 1 = 2 /\ 2 + 1 = 3 /\ 3 + 1 = 4
    OBVIOUS
  <2> QED
    BY <1>1, <2>1, <2>2, Zenon
<1>4. /\ <<0, 0>>[1] = 0 /\ <<0, 0>>[2] = 0
      /\ <<0, 0, 0>>[1] = 0 /\ <<0, 0, 0>>[2] = 0 /\ <<0, 0, 0>>[3] = 0
  OBVIOUS
<1>5. Len(b) = 3 /\ Tail(b) = <<0, 0>> => b[2] = 0 /\ b[3] = 0
  BY <1>2, <1>4, Zenon
<1>6. Len(b) = 4 /\ Tail(b) = <<0, 0, 0>> => b[2] = 0 /\ b[3] = 0 /\ b[4] = 0
  BY <1>3, <1>4, Zenon
<1>7. Len(b) = 3 /\ b[2] = 0 /\ b[3] = 0 => b = <<0, 0, 0>>
  OBVIOUS
<1>8. Len(b) = 4 /\ b[2] = 0 /\ b[3] = 0 /\ b[4] = 0 => b = <<0, 0, 0, 0>>
  OBVIOUS
<1> QED
  BY <1>5, <1>6, <1>7, <1>8, Zenon

\* to_le_bytes undoes from_le_bytes.
LEMMA WriteWord ==
  ASSUME NEW b \in Seq(Bytes), Len(b) = 2
  PROVE  FromLeBytes(b) \in Words /\ ToLeBytes(FromLeBytes(b)) = b
<1>1. b[1] \in Bytes /\ b[2] \in Bytes /\ b = <<b[1], b[2]>>
  OBVIOUS
<1> QED
  BY <1>1, WordOfBytes, Zenon DEF FromLeBytes, ToLeBytes

\* What deserialize accepts: all zeros, or a first byte 1.
LEMMA Accepted ==
  ASSUME NEW b
  PROVE  /\ DeserializeMapping(b).ok =>
              \/ b[1] = 0 /\ Tail(b) = <<0, 0>> /\ DeserializeMapping(b) = Ok(Dynamic)
              \/ b[1] = 1
         /\ DeserializeOptionWord(b).ok =>
              \/ b[1] = 0 /\ Tail(b) = <<0, 0>> /\ DeserializeOptionWord(b) = Ok(None)
              \/ b[1] = 1
         /\ DeserializeOptionMapping(b).ok =>
              \/ b[1] = 0 /\ Tail(b) = <<0, 0, 0>> /\ DeserializeOptionMapping(b) = Ok(None)
              \/ b[1] = 1 /\ DeserializeMapping(Tail(b)).ok
<1>1. Error.ok = FALSE
  BY DEF Error
<1>2. 0 # 1
  OBVIOUS
<1> QED
  BY <1>1, <1>2, Zenon DEF DeserializeMapping, DeserializeOptionWord, DeserializeOptionMapping

\* What is some address, value or result is not none.
LEMMA Differ ==
  /\ \A addr : FixedAddress(addr) # Dynamic /\ FixedAddress(addr).addr = addr
  /\ \A value : Some(value) # None /\ Some(value).value = value
  /\ \A value : Ok(value).ok = TRUE /\ Ok(value).value = value
<1>1. "FixedAddress" # "Dynamic" /\ "Some" # "None"
  OBVIOUS
<1>2. \A addr : FixedAddress(addr).type = "FixedAddress" /\ FixedAddress(addr).addr = addr
  BY DEF FixedAddress
<1>3. \A value : Some(value).type = "Some" /\ Some(value).value = value
  BY DEF Some
<1>4. \A value : Ok(value).ok = TRUE /\ Ok(value).value = value
  BY DEF Ok
<1>5. Dynamic.type = "Dynamic" /\ None.type = "None"
  BY DEF Dynamic, None
<1> QED
  BY <1>1, <1>2, <1>3, <1>4, <1>5, Zenon

\* A mapping that is accepted is written as it was read,
LEMMA WriteMapping ==
  ASSUME NEW b \in Seq(Bytes), Len(b) = 3, DeserializeMapping(b).ok
  PROVE  /\ DeserializeMapping(b).value \in Mappings
         /\ SerializeMapping(DeserializeMapping(b).value) = b
<1> DEFINE m == DeserializeMapping(b).value
<1>1. Len(b) > 0 /\ Len(b) - 1 = 2
  OBVIOUS
<1>2. CASE b[1] = 0 /\ Tail(b) = <<0, 0>> /\ DeserializeMapping(b) = Ok(Dynamic)
  <2>1. m = Dynamic
    BY <1>2, Differ, Zenon
  <2>2. b = <<0, 0, 0>>
    BY <1>2, Zeros, Zenon
  <2> QED
    BY <2>1, <2>2, Zenon DEF Mappings, SerializeMapping
<1>3. CASE b[1] = 1
  <2> DEFINE word == FromLeBytes(Tail(b))
  <2>1. m = FixedAddress(word)
    BY <1>3, Tagged, Differ, Zenon
  <2>2. b[1] = 1 /\ Tail(b) \in Seq(Bytes) /\ Len(Tail(b)) = 2 /\ b = <<1>> \o Tail(b)
    BY <1>1, <1>3, Uncons, Zenon
  <2>3. word \in Words /\ ToLeBytes(word) = Tail(b)
    BY <2>2, WriteWord, Zenon
  <2>4. SerializeMapping(m) = <<1>> \o ToLeBytes(word)
    BY <2>1, Differ, Zenon DEF SerializeMapping
  <2> QED
    BY <2>1, <2>2, <2>3, <2>4, Zenon DEF Mappings
<1> QED
  BY <1>2, <1>3, Accepted, Zenon

\* and so is the value of any field.
LEMMA WriteField ==
  ASSUME NEW type \in Types, NEW b \in Seq(Bytes), Len(b) = Width(type),
         DeserializeField(type, b).ok
  PROVE  /\ DeserializeField(type, b).value \in Values(type)
         /\ SerializeField(type, DeserializeField(type, b).value) = b
<1> DEFINE v == DeserializeField(type, b).value
<1>1. CASE type = "uuid"
  <2>1. Error.ok = FALSE
    BY DEF Error
  <2>2. b = <<Uuid>> /\ DeserializeField(type, b) = Ok(Uuid)
    BY <1>1, <2>1 DEF DeserializeField
  <2>3. v = Uuid
    BY <2>2, Differ, Zenon
  <2> QED
    BY <1>1, <2>2, <2>3 DEF SerializeField, Values
<1>2. CASE type = "flag"
  <2>1. Error.ok = FALSE
    BY DEF Error
  <2>2. b[1] \in {0, 1} /\ DeserializeField(type, b) = Ok(b[1] = 1)
    BY <1>2, <2>1 DEF DeserializeField
  <2>3. v = (b[1] = 1)
    BY <2>2, Differ, Zenon
  <2>4. b = <<b[1]>>
    BY <1>2 DEF Width
  <2>5. SerializeField(type, v) = IF v THEN <<1>> ELSE <<0>>
    BY <1>2 DEF SerializeField
  <2>6. Values(type) = BOOLEAN
    BY <1>2 DEF Values
  <2>7. CASE b[1] = 1
    BY <2>3, <2>4, <2>5, <2>6, <2>7, Zenon
  <2>8. CASE b[1] = 0
    <3>1. b[1] # 1
      BY <2>8
    <3> QED
      BY <2>3, <2>4, <2>5, <2>6, <2>8, <3>1, Zenon
  <2> QED
    BY <2>2, <2>7, <2>8, Zenon
<1>3. CASE type = "word"
  <2>1. DeserializeField(type, b) = Ok(FromLeBytes(b)) /\ Len(b) = 2 /\ Values(type) = Words
    BY <1>3 DEF DeserializeField, Width, Values
  <2>2. SerializeField(type, v) = ToLeBytes(v)
    BY <1>3 DEF SerializeField
  <2> QED
    BY <2>1, <2>2, WriteWord, Differ, Zenon
<1>4. CASE type = "mapping"
  <2>1. /\ DeserializeField(type, b) = DeserializeMapping(b) /\ Len(b) = 3
        /\ Values(type) = Mappings
    BY <1>4 DEF DeserializeField, Width, Values
  <2>2. SerializeField(type, v) = SerializeMapping(v)
    BY <1>4 DEF SerializeField
  <2> QED
    BY <2>1, <2>2, WriteMapping, Zenon
<1>5. CASE type = "option_word"
  <2>1. DeserializeField(type, b) = DeserializeOptionWord(b) /\ Values(type) = Options(Words)
    BY <1>5 DEF DeserializeField, Values
  <2>2. Len(b) > 0 /\ Len(b) - 1 = 2
    BY <1>5 DEF Width
  <2>3. SerializeField(type, v) = IF v = None THEN <<0, 0, 0>> ELSE <<1>> \o ToLeBytes(v.value)
    BY <1>5 DEF SerializeField
  <2>4. CASE b[1] = 0 /\ Tail(b) = <<0, 0>> /\ DeserializeOptionWord(b) = Ok(None)
    <3>1. v = None
      BY <2>1, <2>4, Differ, Zenon
    <3>2. Len(b) = 3
      BY <2>2
    <3>3. b = <<0, 0, 0>>
      BY <2>4, <3>2, Zeros, Zenon
    <3> QED
      BY <2>1, <2>3, <3>1, <3>3, Zenon DEF Options
  <2>5. CASE b[1] = 1
    <3> DEFINE word == FromLeBytes(Tail(b))
    <3>1. v = Some(word)
      BY <2>1, <2>5, Tagged, Differ, Zenon
    <3>2. Tail(b) \in Seq(Bytes) /\ Len(Tail(b)) = 2 /\ b = <<1>> \o Tail(b)
      BY <2>2, <2>5, Uncons, Zenon
    <3>3. word \in Words /\ ToLeBytes(word) = Tail(b)
      BY <3>2, WriteWord, Zenon
    <3>4. SerializeField(type, v) = <<1>> \o ToLeBytes(word)
      BY <2>3, <3>1, Differ, Zenon
    <3> QED
      BY <2>1, <3>1, <3>2, <3>3, <3>4, Zenon DEF Options
  <2> QED
    BY <2>1, <2>4, <2>5, Accepted, Zenon
<1>6. CASE type = "option_mapping"
  <2>1. DeserializeField(type, b) = DeserializeOptionMapping(b) /\ Values(type) = Options(Mappings)
    BY <1>6 DEF DeserializeField, Values
  <2>2. Len(b) > 0 /\ Len(b) - 1 = 3
    BY <1>6 DEF Width
  <2>3. SerializeField(type, v) =
          IF v = None THEN <<0, 0, 0, 0>> ELSE <<1>> \o SerializeMapping(v.value)
    BY <1>6 DEF SerializeField
  <2>4. CASE b[1] = 0 /\ Tail(b) = <<0, 0, 0>> /\ DeserializeOptionMapping(b) = Ok(None)
    <3>1. v = None
      BY <2>1, <2>4, Differ, Zenon
    <3>2. Len(b) = 4
      BY <2>2
    <3>3. b = <<0, 0, 0, 0>>
      BY <2>4, <3>2, Zeros, Zenon
    <3> QED
      BY <2>1, <2>3, <3>1, <3>3, Zenon DEF Options
  <2>5. CASE b[1] = 1 /\ DeserializeMapping(Tail(b)).ok
    <3> DEFINE m == DeserializeMapping(Tail(b)).value
    <3>1. v = Some(m)
      BY <2>1, <2>5, Tagged, Differ, Zenon
    <3>2. Tail(b) \in Seq(Bytes) /\ Len(Tail(b)) = 3 /\ b = <<1>> \o Tail(b)
      BY <2>2, <2>5, Uncons, Zenon
    <3>3. m \in Mappings /\ SerializeMapping(m) = Tail(b)
      BY <2>5, <3>2, WriteMapping, Zenon
    <3>4. SerializeField(type, v) = <<1>> \o SerializeMapping(m)
      BY <2>3, <3>1, Differ, Zenon
    <3> QED
      BY <2>1, <3>1, <3>2, <3>3, <3>4, Zenon DEF Options
  <2> QED
    BY <2>1, <2>4, <2>5, Accepted, Zenon
<1> QED
  BY <1>1, <1>2, <1>3, <1>4, <1>5, <1>6, Zenon DEF Types

-----------------------------------------------------------------------------
(*****************************************************************************)
(* The layout of the section                                                 *)
(*****************************************************************************)

\* deserialize takes the fields in the order serialize writes them.
LEMMA ReadShape ==
  /\ Len(Read) = 17 /\ Len(Written) = 17 /\ Written = Read
  /\ \A k \in 1..17 : Read[k][2] \in Types
<1>1. Written = Read
  BY Zenon DEF Written, Read
<1>2. Len(Read) = 17
  BY DEF Read
<1>3. ASSUME NEW k \in 1..17 PROVE Read[k][2] \in Types
  BY DEF Read, Types
<1> QED
  BY <1>1, <1>2, <1>3, Zenon

\* Widths are numbers.
LEMMA WidthType == \A type \in Types : Width(type) \in Nat
BY DEF Types, Width

\* The recursive definition of Before defines a function.
LEMMA BeforeExists ==
  Before = [k \in 1..(Len(Read) + 1) |-> IF k = 1 THEN 0 ELSE Before[k - 1] + Width(Read[k - 1][2])]
<1> DEFINE W(k) == Width(Read[k][2])
           Sums(f, n) == f = [k \in 1..n |-> IF k = 1 THEN 0 ELSE f[k - 1] + W(k - 1)]
           S == {n \in Nat : \E f : Sums(f, n)}
<1> HIDE DEF W
<1>1. 0 \in S
  <2>1. Sums([k \in 1..0 |-> 0], 0)
    OBVIOUS
  <2> QED
    BY <2>1, Zenon
<1>2. ASSUME NEW n \in Nat, n \in S PROVE n + 1 \in S
  <2>1. PICK f : f = [k \in 1..n |-> IF k = 1 THEN 0 ELSE f[k - 1] + W(k - 1)]
    BY <1>2
  <2> DEFINE g == [k \in 1..(n + 1) |-> IF k = 1 THEN 0 ELSE f[k - 1] + W(k - 1)]
  <2>2. ASSUME NEW k \in 1..(n + 1), k # 1 PROVE g[k - 1] = f[k - 1]
    <3>1. k - 1 \in 1..n /\ k - 1 \in 1..(n + 1)
      BY <2>2
    <3> QED
      BY <2>1, <3>1
  <2>3. g = [k \in 1..(n + 1) |-> IF k = 1 THEN 0 ELSE g[k - 1] + W(k - 1)]
    BY <2>2, Zenon
  <2> HIDE DEF g
  <2>4. n + 1 \in Nat
    OBVIOUS
  <2> QED
    BY <2>3, <2>4, Zenon
<1> HIDE DEF S
<1>3. Len(Read) + 1 \in S
  <2>1. Len(Read) + 1 \in Nat
    BY ReadShape
  <2> QED
    BY <1>1, <1>2, <2>1, EveryNumber, Zenon
<1>4. \E f : f = [k \in 1..(Len(Read) + 1) |-> IF k = 1 THEN 0 ELSE f[k - 1] + Width(Read[k - 1][2])]
  BY <1>3, Zenon DEF S, W
<1> QED
  BY <1>4, Zenon DEF Before

\* Each field starts where the one before it ends.
LEMMA BeforeSteps ==
  /\ \A k \in 1..18 : Before[k] \in Nat
  /\ Before[1] = 0
  /\ \A k \in 1..17 : Before[k + 1] = Before[k] + Width(Read[k][2])
<1>1. \A k \in 1..18 : Before[k] = IF k = 1 THEN 0 ELSE Before[k - 1] + Width(Read[k - 1][2])
  <2>1. 1..(Len(Read) + 1) = 1..18
    BY ReadShape
  <2> QED
    BY BeforeExists, <2>1, Zenon
<1>2. ASSUME NEW k \in 1..17 PROVE Before[k + 1] = Before[k] + Width(Read[k][2])
  <2>1. k + 1 \in 1..18 /\ k + 1 # 1 /\ (k + 1) - 1 = k
    OBVIOUS
  <2> QED
    BY <1>1, <2>1, Zenon
<1>3. Before[1] = 0
  <2>1. 1 \in 1..18
    OBVIOUS
  <2> QED
    BY <1>1, <2>1, Zenon
<1>4. \A k \in 1..18 : Before[k] \in Nat
  <2> DEFINE S == {n \in Nat : n \in 1..17 => Before[n] \in Nat /\ Before[n + 1] \in Nat}
  <2>1. 0 \in S
    OBVIOUS
  <2>2. ASSUME NEW n \in Nat, n \in S PROVE n + 1 \in S
    <3> SUFFICES ASSUME n + 1 \in 1..17
                 PROVE  Before[n + 1] \in Nat /\ Before[n + 2] \in Nat
      OBVIOUS
    <3>1. Before[n + 1] \in Nat
      BY <1>3, <2>2
    <3>2. Width(Read[n + 1][2]) \in Nat
      BY ReadShape, WidthType, Zenon
    <3>3. Before[(n + 1) + 1] = Before[n + 1] + Width(Read[n + 1][2])
      BY <1>2
    <3>4. (n + 1) + 1 = n + 2
      OBVIOUS
    <3> QED
      BY <3>1, <3>2, <3>3, <3>4
  <2> HIDE DEF S
  <2>3. \A n \in Nat : n \in S
    BY <2>1, <2>2, EveryNumber, Zenon
  <2>4. ASSUME NEW k \in 1..18 PROVE Before[k] \in Nat
    <3>1. CASE k \in 1..17
      BY <2>3, <3>1 DEF S
    <3>2. CASE k = 18
      <4>1. 17 \in S /\ 17 + 1 = 18
        BY <2>3
      <4> QED
        BY <3>2, <4>1 DEF S
    <3> QED
      BY <3>1, <3>2
  <2> QED
    BY <2>4
<1> QED
  BY <1>2, <1>3, <1>4, Zenon

\* The recursive definition inside Concat defines a function.
LEMMA ConcatExists ==
  ASSUME NEW n \in Nat, n > 0, NEW seqs, Len(seqs) = n
  PROVE  \E f : /\ f = [i \in 1..n |-> IF i = 1 THEN seqs[i] ELSE f[i - 1] \o seqs[i]]
                /\ Concat(seqs) = f[n]
<1> DEFINE Buffers(f, m) == f = [i \in 1..m |-> IF i = 1 THEN seqs[i] ELSE f[i - 1] \o seqs[i]]
           S == {m \in Nat : \E f : Buffers(f, m)}
<1>1. 0 \in S
  <2>1. Buffers([k \in 1..0 |-> 0], 0)
    OBVIOUS
  <2> QED
    BY <2>1, Zenon
<1>2. ASSUME NEW m \in Nat, m \in S PROVE m + 1 \in S
  <2>1. PICK f : f = [i \in 1..m |-> IF i = 1 THEN seqs[i] ELSE f[i - 1] \o seqs[i]]
    BY <1>2, Zenon
  <2> DEFINE g == [i \in 1..(m + 1) |-> IF i = 1 THEN seqs[i] ELSE f[i - 1] \o seqs[i]]
  <2>2. ASSUME NEW i \in 1..(m + 1), i # 1 PROVE g[i - 1] = f[i - 1]
    <3>1. i - 1 \in 1..m /\ i - 1 \in 1..(m + 1)
      BY <2>2
    <3> QED
      BY <2>1, <3>1, Zenon
  <2>3. g = [i \in 1..(m + 1) |-> IF i = 1 THEN seqs[i] ELSE g[i - 1] \o seqs[i]]
    BY <2>2, Zenon
  <2> HIDE DEF g
  <2>4. m + 1 \in Nat
    OBVIOUS
  <2> QED
    BY <2>3, <2>4, Zenon
<1> HIDE DEF S
<1>3. n \in S
  BY <1>1, <1>2, EveryNumber, Zenon
<1> DEFINE F == CHOOSE f : f = [i \in 1..Len(seqs) |-> IF i = 1 THEN seqs[i] ELSE f[i - 1] \o seqs[i]]
<1>4. Buffers(F, n)
  BY <1>3, Zenon DEF S
<1>5. Concat(seqs) = F[n]
  BY Zenon DEF Concat
<1> QED
  BY <1>4, <1>5, Zenon

\* What concatenating two sequences does.
LEMMA Concatenated ==
  ASSUME NEW a \in Seq(Bytes), NEW b \in Seq(Bytes)
  PROVE  /\ a \o b \in Seq(Bytes) /\ Len(a \o b) = Len(a) + Len(b)
         /\ \A p \in 1..Len(a) : p \in 1..(Len(a) + Len(b)) /\ (a \o b)[p] = a[p]
         /\ \A p \in 1..Len(b) :
              Len(a) + p \in 1..(Len(a) + Len(b)) /\ (a \o b)[Len(a) + p] = b[p]
<1>1. a \o b \in Seq(Bytes) /\ Len(a \o b) = Len(a) + Len(b)
  OBVIOUS
<1>2. ASSUME NEW p \in 1..Len(a) PROVE p \in 1..(Len(a) + Len(b)) /\ (a \o b)[p] = a[p]
  OBVIOUS
<1>3. ASSUME NEW p \in 1..Len(b)
      PROVE  Len(a) + p \in 1..(Len(a) + Len(b)) /\ (a \o b)[Len(a) + p] = b[p]
  OBVIOUS
<1> QED
  BY <1>1, <1>2, <1>3, Zenon

\* at[i] is what comes before the i-th of n sequences of bytes.
Starts(at, seqs, n) ==
  /\ Len(seqs) = n
  /\ \A i \in 1..n : seqs[i] \in Seq(Bytes) /\ at[i + 1] = at[i] + Len(seqs[i])
  /\ \A i \in 1..(n + 1) : at[i] \in Nat
  /\ at[1] = 0

\* s consists of the sequences, each at its place.
Fills(s, at, seqs, n) ==
  /\ s \in Seq(Bytes) /\ Len(s) = at[n + 1]
  /\ \A i \in 1..n : \A p \in 1..Len(seqs[i]) :
       at[i] + p \in 1..at[n + 1] /\ s[at[i] + p] = seqs[i][p]

\* Concatenating sequences puts each where those before it end.
LEMMA ConcatFills ==
  ASSUME NEW n \in Nat, n > 0, NEW seqs, NEW at, Starts(at, seqs, n)
  PROVE  Fills(Concat(seqs), at, seqs, n)
<1>1. /\ Len(seqs) = n /\ at[1] = 0
      /\ \A i \in 1..n : seqs[i] \in Seq(Bytes) /\ at[i + 1] = at[i] + Len(seqs[i])
      /\ \A i \in 1..(n + 1) : at[i] \in Nat
  BY Zenon DEF Starts
<1>2. PICK f : /\ f = [i \in 1..n |-> IF i = 1 THEN seqs[i] ELSE f[i - 1] \o seqs[i]]
               /\ Concat(seqs) = f[n]
  BY <1>1, ConcatExists, Zenon
<1> DEFINE Placed(m) ==
             /\ f[m] \in Seq(Bytes) /\ Len(f[m]) = at[m + 1]
             /\ \A i \in 1..m : \A p \in 1..Len(seqs[i]) :
                  at[i] + p \in 1..at[m + 1] /\ f[m][at[i] + p] = seqs[i][p]
           S == {m \in Nat : m + 1 \in 1..n => Placed(m + 1)}
<1>3. \A i \in 1..n : f[i] = IF i = 1 THEN seqs[i] ELSE f[i - 1] \o seqs[i]
  BY <1>2, Zenon
<1>4. 0 \in S
  <2>1. 1 \in 1..n /\ 0 + 1 = 1 /\ 1 + 1 = 2
    OBVIOUS
  <2>2. f[1] = seqs[1] /\ seqs[1] \in Seq(Bytes) /\ at[1 + 1] = at[1] + Len(seqs[1])
    BY <1>3, <1>1, <2>1, Zenon
  <2>3. at[1 + 1] = Len(seqs[1])
    BY <1>1, <2>2
  <2>4. ASSUME NEW p \in 1..Len(seqs[1]) PROVE at[1] + p = p
    BY <1>1, <2>2
  <2>5. Placed(1)
    <3>1. \A i \in 1..1 : i = 1
      OBVIOUS
    <3> QED
      BY <2>2, <2>3, <2>4, <3>1, Zenon
  <2> QED
    BY <2>1, <2>5
<1>5. ASSUME NEW m \in Nat, m \in S PROVE m + 1 \in S
  <2> SUFFICES ASSUME (m + 1) + 1 \in 1..n PROVE Placed((m + 1) + 1)
    OBVIOUS
  <2> DEFINE l == m + 1
             k == (m + 1) + 1
             s == seqs[k]
  <2>1. l \in 1..n /\ k \in 1..n /\ k # 1 /\ k - 1 = l /\ l + 1 = k /\ k \in 1..(n + 1) /\ k + 1 \in 1..(n + 1)
    OBVIOUS
  <2>2. Placed(l)
    BY <1>5, <2>1
  <2> HIDE DEF l, k
  <2>3. f[k] = f[l] \o s /\ s \in Seq(Bytes)
    BY <1>3, <1>1, <2>1, Zenon
  <2>4. f[l] \in Seq(Bytes) /\ Len(f[l]) = at[k]
    BY <2>1, <2>2, Zenon
  <2>5. at[k + 1] = at[k] + Len(s) /\ at[k] \in Nat
    BY <1>1, <2>1, Zenon
  <2> HIDE DEF s
  <2>6. /\ f[k] \in Seq(Bytes) /\ Len(f[k]) = at[k + 1]
        /\ \A p \in 1..at[k] : p \in 1..at[k + 1] /\ f[k][p] = f[l][p]
        /\ \A p \in 1..Len(s) : at[k] + p \in 1..at[k + 1] /\ f[k][at[k] + p] = s[p]
    <3> DEFINE a == f[l]
               t == f[k]
               u == at[k]
               v == at[k + 1]
    <3>1. a \in Seq(Bytes) /\ s \in Seq(Bytes) /\ t = a \o s /\ Len(a) = u /\ v = u + Len(s)
      BY <2>3, <2>4, <2>5, Zenon
    <3> HIDE DEF a, t, u, v
    <3>2. /\ t \in Seq(Bytes) /\ Len(t) = v
          /\ \A p \in 1..u : p \in 1..v /\ t[p] = a[p]
      BY <3>1, Concatenated, Zenon
    <3>3. \A p \in 1..Len(s) : u + p \in 1..v /\ t[u + p] = s[p]
      BY <3>1, Concatenated, Zenon
    <3> QED
      BY <3>2, <3>3, Zenon DEF a, t, u, v
  <2>7. ASSUME NEW i \in 1..k, NEW p \in 1..Len(seqs[i])
        PROVE  at[i] + p \in 1..at[k + 1] /\ f[k][at[i] + p] = seqs[i][p]
    <3>1. CASE i = k
      BY <2>6, <3>1, Zenon DEF s
    <3>2. CASE i # k
      <4>1. i \in 1..l
        BY <2>1, <3>2
      <4>2. at[i] + p \in 1..at[k] /\ f[l][at[i] + p] = seqs[i][p]
        BY <2>1, <2>2, <4>1, Zenon
      <4> QED
        BY <2>6, <4>2, Zenon
    <3> QED
      BY <3>1, <3>2, Zenon
  <2> QED
    BY <2>6, <2>7, Zenon DEF k
<1> HIDE DEF S
<1>6. n - 1 \in Nat /\ (n - 1) + 1 = n /\ n \in 1..n
  OBVIOUS
<1>7. n - 1 \in S
  BY <1>4, <1>5, <1>6, EveryNumber, Zenon
<1>8. Placed((n - 1) + 1)
  <2> HIDE DEF Placed
  <2> QED
    BY <1>6, <1>7, Zenon DEF S
<1>9. Placed(n)
  <2> HIDE DEF Placed
  <2> QED
    BY <1>6, <1>8, Zenon
<1>10. Fills(f[n], at, seqs, n)
  BY <1>9, Zenon DEF Fills
<1> QED
  BY <1>2, <1>10, Zenon

\* No name occurs twice.
LEMMA NamesDistinct ==
  \A j, k \in 1..17 : Read[j][1] = Read[k][1] => j = k
<1> DEFINE place ==
  [uuid |-> 1, version_major |-> 2, version_minor |-> 3, version_patch |-> 4, pre_release |-> 5,
   kernel_stack_size |-> 6, kernel_stack |-> 7, boot_info |-> 8, framebuffer |-> 9,
   physical_memory |-> 10, page_table_recursive |-> 11, aslr |-> 12, dynamic_range_start |-> 13,
   dynamic_range_end |-> 14, ramdisk_memory |-> 15, minimum_framebuffer_height |-> 16,
   minimum_framebuffer_width |-> 17]
<1>1. ASSUME NEW k \in 1..17 PROVE place[Read[k][1]] = k
  BY DEF Read
<1> HIDE DEF place
<1> QED
  BY <1>1, Zenon

\* Every field has at least one byte.
LEMMA WidthPositive == \A type \in Types : Width(type) \in Nat /\ Width(type) >= 1
BY DEF Types, Width

\* No field starts behind the end.
LEMMA BeforeUp == \A k \in 1..18 : Before[k] <= Before[18]
<1> DEFINE S == {n \in Nat : n \in 0..17 => Before[18 - n] <= Before[18]}
<1>1. 0 \in S
  <2>1. Before[18] \in Nat /\ 18 - 0 = 18
    BY BeforeSteps
  <2> QED
    BY <2>1
<1>2. ASSUME NEW n \in Nat, n \in S PROVE n + 1 \in S
  <2> SUFFICES ASSUME n + 1 \in 0..17 PROVE Before[18 - (n + 1)] <= Before[18]
    OBVIOUS
  <2> DEFINE k == 18 - (n + 1)
  <2>1. k \in 1..17 /\ k \in 1..18 /\ k + 1 \in 1..18 /\ k + 1 = 18 - n /\ 18 \in 1..18
    OBVIOUS
  <2>2. Before[18 - n] <= Before[18]
    BY <1>2, <2>1
  <2> HIDE DEF k
  <2>3. Before[k + 1] = Before[k] + Width(Read[k][2]) /\ Width(Read[k][2]) \in Nat
    BY <2>1, BeforeSteps, ReadShape, WidthPositive, Zenon
  <2>4. Before[k] \in Nat /\ Before[18] \in Nat
    BY <2>1, BeforeSteps, Zenon
  <2>5. Before[k + 1] <= Before[18]
    BY <2>1, <2>2, Zenon
  <2>6. Before[k] <= Before[18]
    BY <2>3, <2>4, <2>5
  <2> QED
    BY <2>6 DEF k
<1> HIDE DEF S
<1>3. \A n \in Nat : n \in S
  BY <1>1, <1>2, EveryNumber, Zenon
<1>4. ASSUME NEW k \in 1..18 PROVE Before[k] <= Before[18]
  <2>1. 18 - k \in Nat /\ 18 - k \in 0..17 /\ 18 - (18 - k) = k
    OBVIOUS
  <2> QED
    BY <1>3, <2>1, Zenon DEF S
<1> QED
  BY <1>4

\* Every byte belongs to a field.
LEMMA Locate ==
  ASSUME NEW p \in 1..Before[18]
  PROVE  \E k \in 1..17 : Before[k] < p /\ p <= Before[k + 1]
<1> DEFINE T == {k \in 1..18 : p <= Before[k]}
<1>1. Before[18] \in Nat /\ p \in Nat /\ p >= 1 /\ p <= Before[18]
  BY BeforeSteps
<1>2. T \subseteq Nat /\ T # {}
  <2>1. 18 \in T
    BY <1>1
  <2> QED
    BY <2>1
<1>3. PICK j \in T : \A i \in T : j <= i
  BY <1>2, LeastExists, Zenon
<1>4. j \in 1..18 /\ p <= Before[j]
  BY <1>3
<1>5. j # 1
  BY <1>1, <1>4, BeforeSteps
<1>6. j - 1 \in 1..17 /\ j - 1 \in 1..18 /\ (j - 1) + 1 = j /\ ~(j <= j - 1)
  BY <1>4, <1>5
<1>7. ~(p <= Before[j - 1])
  BY <1>3, <1>6, Zenon
<1>8. Before[j - 1] < p
  BY <1>1, <1>6, <1>7, BeforeSteps
<1> QED
  BY <1>4, <1>6, <1>8, Zenon

\* A slice of a sequence.
LEMMA SliceIs ==
  ASSUME NEW s \in Seq(Bytes), NEW b \in Seq(Bytes), NEW u \in Nat, NEW v \in Nat,
         v = u + Len(b), v <= Len(s), \A p \in 1..Len(b) : s[u + p] = b[p]
  PROVE  SubSeq(s, u + 1, v) = b
<1> DEFINE t == SubSeq(s, u + 1, v)
<1>1. t \in Seq(Bytes) /\ Len(t) = Len(b)
  OBVIOUS
<1>2. ASSUME NEW p \in 1..Len(b) PROVE t[p] = b[p]
  <2>1. t[p] = s[u + p]
    OBVIOUS
  <2> QED
    BY <2>1
<1> HIDE DEF t
<1>3. t = b
  BY <1>1, <1>2
<1> QED
  BY <1>3 DEF t

\* Sections with the same bytes are equal.
LEMMA SameBytes ==
  ASSUME NEW s \in Seq(Bytes), NEW t \in Seq(Bytes), Len(t) = Len(s),
         \A p \in 1..Len(s) : t[p] = s[p]
  PROVE  t = s
OBVIOUS

\* The bytes of a slice.
LEMMA SliceOf ==
  ASSUME NEW s \in Seq(Bytes), NEW u \in Nat, NEW v \in Nat, u <= v, v <= Len(s)
  PROVE  /\ SubSeq(s, u + 1, v) \in Seq(Bytes) /\ Len(SubSeq(s, u + 1, v)) = v - u
         /\ \A p \in 1..(v - u) : SubSeq(s, u + 1, v)[p] = s[u + p]
<1>1. SubSeq(s, u + 1, v) \in Seq(Bytes)
  OBVIOUS
<1>2. Len(SubSeq(s, u + 1, v)) = v - u
  OBVIOUS
<1>3. ASSUME NEW p \in 1..(v - u) PROVE SubSeq(s, u + 1, v)[p] = s[u + p]
  OBVIOUS
<1> QED
  BY <1>1, <1>2, <1>3, Zenon

\* Where serialize puts the fields.
LEMMA Layout ==
  ASSUME NEW c, IsConfig(c)
  PROVE  /\ serialize(c) \in Seq(Bytes) /\ Len(serialize(c)) = Before[18]
         /\ \A k \in 1..17 : SubSeq(serialize(c), Before[k] + 1, Before[k + 1])
                               = SerializeField(Read[k][2], c[Read[k][1]])
<1> DEFINE F(k) == SerializeField(Read[k][2], c[Read[k][1]])
           seqs == [k \in 1..17 |-> F(k)]
           s == serialize(c)
<1>1. s = Concat(seqs)
  BY ReadShape, Zenon DEF serialize
<1>2. ASSUME NEW k \in 1..17 PROVE F(k) \in Seq(Bytes) /\ Len(F(k)) = Width(Read[k][2])
  <2>1. Read[k][2] \in Types /\ c[Read[k][1]] \in Values(Read[k][2])
    BY ReadShape, Zenon DEF IsConfig
  <2> QED
    BY <2>1, RestoreField, Zenon
<1> HIDE DEF F
<1>3. Len(seqs) = 17 /\ \A k \in 1..17 : seqs[k] = F(k)
  OBVIOUS
<1>4. 17 \in Nat /\ 17 > 0 /\ 17 + 1 = 18
  OBVIOUS
<1> HIDE DEF seqs
<1>5. \A k \in 1..17 : seqs[k] \in Seq(Bytes)
  BY <1>2, <1>3, Zenon
<1>6. \A k \in 1..17 : Before[k + 1] = Before[k] + Len(seqs[k])
  BY <1>2, <1>3, BeforeSteps, Zenon
<1>7. \A k \in 1..(17 + 1) : Before[k] \in Nat
  BY <1>4, BeforeSteps, Zenon
<1>8. Before[1] = 0 /\ Len(seqs) = 17
  BY <1>3, BeforeSteps, Zenon
<1>9. /\ s \in Seq(Bytes) /\ Len(s) = Before[17 + 1]
      /\ \A k \in 1..17 : \A p \in 1..Len(seqs[k]) :
           Before[k] + p \in 1..Before[17 + 1] /\ s[Before[k] + p] = seqs[k][p]
  <2> DEFINE n == 17
  <2>1. n \in Nat /\ n > 0 /\ Starts(Before, seqs, n)
    BY <1>4, <1>5, <1>7, <1>6, <1>8, Zenon DEF Starts
  <2> HIDE DEF n
  <2>2. Fills(s, Before, seqs, n)
    BY <1>1, <2>1, ConcatFills, Zenon
  <2> HIDE DEF s
  <2> QED
    BY <2>2, Zenon DEF n, Fills
<1> HIDE DEF s
<1>10. ASSUME NEW k \in 1..17 PROVE SubSeq(s, Before[k] + 1, Before[k + 1]) = F(k)
  <2>1. k \in 1..18 /\ k + 1 \in 1..18
    OBVIOUS
  <2>2. Before[k] \in Nat /\ Before[k + 1] \in Nat /\ Before[k + 1] <= Before[18]
    BY <2>1, BeforeSteps, BeforeUp, Zenon
  <2>3. Before[k + 1] <= Len(s)
    BY <1>4, <1>9, <2>2, Zenon
  <2>4. SubSeq(s, Before[k] + 1, Before[k + 1]) = seqs[k]
    BY <1>5, <1>9, <1>6, <2>2, <2>3, SliceIs, Zenon
  <2> QED
    BY <1>3, <2>4, Zenon
<1> QED
  BY <1>4, <1>9, <1>10, Zenon DEF s, F

\* The result of deserialize when it accepts every field.
Parsed(s) ==
  [name \in {Read[k][1] : k \in 1..Len(Read)} |->
     FieldOf(s, CHOOSE k \in 1..Len(Read) : Read[k][1] = name).value]

\* deserialize returns the fields as they are when each of them is accepted.
LEMMA DeserializeIs ==
  ASSUME NEW s, Len(s) = SerializedLen, \A k \in 1..Len(Read) : FieldOf(s, k).ok
  PROVE  deserialize(s) = Ok(Parsed(s))
BY Zenon DEF deserialize, Parsed

\* deserialize gets back what serialize was given.
LEMMA RoundTrip ==
  ASSUME NEW c, IsConfig(c)
  PROVE  deserialize(serialize(c)) = Ok(c)
<1> DEFINE s == serialize(c)
<1>1. ASSUME NEW k \in 1..17 PROVE FieldOf(s, k) = Ok(c[Read[k][1]])
  <2>1. Read[k][2] \in Types /\ c[Read[k][1]] \in Values(Read[k][2])
    BY ReadShape, Zenon DEF IsConfig
  <2>2. SubSeq(s, Before[k] + 1, Before[k + 1]) = SerializeField(Read[k][2], c[Read[k][1]])
    BY Layout, Zenon
  <2> QED
    BY <2>1, <2>2, RestoreField, Zenon DEF FieldOf
<1>2. Len(s) = SerializedLen
  <2>1. Len(Read) + 1 = 18
    BY ReadShape
  <2> QED
    BY <2>1, Layout, Zenon DEF SerializedLen
<1> HIDE DEF s
<1>3. \A k \in 1..Len(Read) : FieldOf(s, k).ok /\ FieldOf(s, k).value = c[Read[k][1]]
  <2>1. \A k \in 1..17 : FieldOf(s, k).ok /\ FieldOf(s, k).value = c[Read[k][1]]
    BY <1>1, Differ, Zenon
  <2> QED
    BY <2>1, ReadShape, Zenon
<1> DEFINE D == {Read[k][1] : k \in 1..Len(Read)}
           G(name) == FieldOf(s, CHOOSE k \in 1..Len(Read) : Read[k][1] = name).value
<1>4. deserialize(s) = Ok([name \in D |-> G(name)])
  BY <1>2, <1>3, DeserializeIs, Zenon DEF Parsed
<1>5. ASSUME NEW name \in D PROVE G(name) = c[name]
  <2> DEFINE j == CHOOSE k \in 1..Len(Read) : Read[k][1] = name
  <2>1. \E k \in 1..Len(Read) : Read[k][1] = name
    BY Zenon
  <2>2. j \in 1..Len(Read) /\ Read[j][1] = name
    BY <2>1, Zenon
  <2> HIDE DEF j
  <2>3. FieldOf(s, j).value = c[name]
    BY <1>3, <2>2, Zenon
  <2> QED
    BY <2>3, Zenon DEF j
<1>6. c = [name \in D |-> c[name]]
  BY ReadShape, ZenonT(40) DEF IsConfig, Names
<1> HIDE DEF D, G
<1>7. [name \in D |-> G(name)] = [name \in D |-> c[name]]
  BY <1>5, Zenon
<1> QED
  BY <1>4, <1>6, <1>7, Zenon DEF s

\* It accepts a section field by field,
LEMMA AcceptedWhole ==
  ASSUME NEW s, deserialize(s).ok
  PROVE  Len(s) = SerializedLen /\ \A k \in 1..Len(Read) : FieldOf(s, k).ok
<1>1. Error.ok = FALSE
  BY DEF Error
<1>2. Len(s) = SerializedLen
  BY <1>1, Zenon DEF deserialize
<1> QED
  BY <1>1, <1>2, Zenon DEF deserialize

\* and nothing that serialize would not write.
LEMMA Canonical ==
  ASSUME NEW s \in Seq(Bytes), Len(s) = SerializedLen, \A k \in 1..Len(Read) : FieldOf(s, k).ok
  PROVE  IsConfig(deserialize(s).value) /\ serialize(deserialize(s).value) = s
<1> DEFINE c == deserialize(s).value
           b(k) == SubSeq(s, Before[k] + 1, Before[k + 1])
<1> DEFINE D == {Read[k][1] : k \in 1..Len(Read)}
           G(name) == FieldOf(s, CHOOSE k \in 1..Len(Read) : Read[k][1] = name).value
<1>1. deserialize(s) = Ok(Parsed(s))
  BY DeserializeIs, Zenon
<1>2. c = [name \in D |-> G(name)]
  BY <1>1, Differ, Zenon DEF Parsed
<1>3. Len(s) = Before[18]
  <2>1. Len(Read) + 1 = 18
    BY ReadShape
  <2> QED
    BY <2>1, Zenon DEF SerializedLen
<1> HIDE DEF c
<1>4. ASSUME NEW k \in 1..17 PROVE c[Read[k][1]] = FieldOf(s, k).value
  <2> DEFINE j == CHOOSE i \in 1..Len(Read) : Read[i][1] = Read[k][1]
  <2>1. k \in 1..Len(Read)
    BY ReadShape, Zenon
  <2>2. j \in 1..Len(Read) /\ Read[j][1] = Read[k][1]
    BY <2>1, Zenon
  <2>3. j = k
    BY <2>2, NamesDistinct, ReadShape, Zenon
  <2>4. c[Read[k][1]] = G(Read[k][1])
    BY <1>2, <2>1, Zenon
  <2> QED
    BY <2>3, <2>4, Zenon
<1>5. ASSUME NEW k \in 1..17
      PROVE  /\ Before[k] \in Nat /\ Before[k + 1] \in Nat /\ Before[k] <= Before[k + 1]
             /\ Before[k + 1] <= Before[18] /\ Width(Read[k][2]) = Before[k + 1] - Before[k]
  <2>1. k \in 1..18 /\ k + 1 \in 1..18
    OBVIOUS
  <2>2. Before[k] \in Nat /\ Before[k + 1] \in Nat /\ Before[k + 1] <= Before[18]
    BY <2>1, BeforeSteps, BeforeUp, Zenon
  <2>3. Before[k + 1] = Before[k] + Width(Read[k][2]) /\ Width(Read[k][2]) \in Nat
    BY BeforeSteps, ReadShape, WidthType, Zenon
  <2> QED
    BY <2>2, <2>3
<1>6. ASSUME NEW k \in 1..17
      PROVE  /\ b(k) \in Seq(Bytes) /\ Len(b(k)) = Width(Read[k][2])
             /\ \A p \in 1..(Before[k + 1] - Before[k]) : b(k)[p] = s[Before[k] + p]
  <2> DEFINE u == Before[k]
             v == Before[k + 1]
  <2>1. u \in Nat /\ v \in Nat /\ u <= v /\ v <= Len(s) /\ Width(Read[k][2]) = v - u
    BY <1>3, <1>5, Zenon
  <2> HIDE DEF u, v
  <2>2. /\ SubSeq(s, u + 1, v) \in Seq(Bytes) /\ Len(SubSeq(s, u + 1, v)) = v - u
        /\ \A p \in 1..(v - u) : SubSeq(s, u + 1, v)[p] = s[u + p]
    BY <2>1, SliceOf, Zenon
  <2> QED
    BY <2>1, <2>2, Zenon DEF u, v
<1>7. ASSUME NEW k \in 1..17
      PROVE  /\ c[Read[k][1]] \in Values(Read[k][2])
             /\ SerializeField(Read[k][2], c[Read[k][1]]) = b(k)
  <2>1. Read[k][2] \in Types
    BY ReadShape, Zenon
  <2>2. FieldOf(s, k) = DeserializeField(Read[k][2], b(k))
    BY Zenon DEF FieldOf
  <2> HIDE DEF b
  <2>3. /\ b(k) \in Seq(Bytes) /\ Len(b(k)) = Width(Read[k][2])
        /\ DeserializeField(Read[k][2], b(k)).ok
    BY <1>6, <2>2, ReadShape, Zenon
  <2>4. /\ DeserializeField(Read[k][2], b(k)).value \in Values(Read[k][2])
        /\ SerializeField(Read[k][2], DeserializeField(Read[k][2], b(k)).value) = b(k)
    BY <2>1, <2>3, WriteField, Zenon
  <2> QED
    BY <1>4, <2>2, <2>4, Zenon
<1>8. IsConfig(c)
  <2>1. Names = D
    BY ReadShape, Zenon DEF Names
  <2> HIDE DEF D, G
  <2>2. c = [name \in D |-> c[name]]
    BY <1>2
  <2>3. \A k \in 1..Len(Written) : c[Written[k][1]] \in Values(Written[k][2])
    BY <1>7, ReadShape, Zenon
  <2> QED
    BY <2>1, <2>2, <2>3, Zenon DEF IsConfig
<1> DEFINE t == serialize(c)
<1>9. /\ t \in Seq(Bytes) /\ Len(t) = Before[18]
       /\ \A k \in 1..17 : SubSeq(t, Before[k] + 1, Before[k + 1]) = b(k)
  BY <1>7, <1>8, Layout, Zenon
<1> HIDE DEF t
<1>10. ASSUME NEW p \in 1..Before[18] PROVE t[p] = s[p]
  <2>1. PICK k \in 1..17 : Before[k] < p /\ p <= Before[k + 1]
    BY Locate, Zenon
  <2> DEFINE q == p - Before[k]
  <2>2. ASSUME NEW u \in Nat, NEW v \in Nat, NEW i \in Int, u < i, i <= v
        PROVE  i - u \in 1..(v - u) /\ u + (i - u) = i
    BY <2>2
  <2>3. p \in Int
    OBVIOUS
  <2>4. q \in 1..(Before[k + 1] - Before[k]) /\ Before[k] + q = p
    BY <1>5, <2>1, <2>2, <2>3, Zenon
  <2> HIDE DEF q
  <2>5. b(k)[q] = s[p]
    BY <1>6, <2>4, Zenon
  <2> DEFINE u == Before[k]
             v == Before[k + 1]
  <2>6. /\ t \in Seq(Bytes) /\ u \in Nat /\ v \in Nat /\ u <= v /\ v <= Len(t)
        /\ q \in 1..(v - u)
    BY <1>5, <1>9, <2>4, Zenon
  <2> HIDE DEF u, v
  <2>7. SubSeq(t, u + 1, v)[q] = t[u + q]
    BY <2>6, SliceOf, Zenon
  <2> QED
    BY <1>9, <2>4, <2>5, <2>7, Zenon DEF u, v
<1>11. t = s
  <2>1. t \in Seq(Bytes) /\ Len(t) = Len(s)
    BY <1>3, <1>9, Zenon
  <2>2. \A p \in 1..Len(s) : t[p] = s[p]
    BY <1>3, <1>10, Zenon
  <2> QED
    BY <2>1, <2>2, SameBytes, Zenon
<1> QED
  BY <1>8, <1>11, Zenon DEF c, t

-----------------------------------------------------------------------------
(*****************************************************************************)
(* The configuration of the kernel                                           *)
(*****************************************************************************)

\* Once there is a configuration, it is the one that was read from the section,
\* and the boot mode is settled.
KernelInv ==
  /\ firmware \in Firmwares
  /\ boot_mode \in {"Disk", "Tftp"}
  /\ kernel_config # NoConfig =>
       /\ pc # "kernel"
       /\ deserialize(Section).ok
       /\ kernel_config = deserialize(Section).value

\* Before the kernel is loaded there is no configuration.
LEMMA InitKernel == Init => KernelInv
BY DEF Init, KernelInv

\* Only LoadKernel sets the configuration, from the section of the source
\* it takes the kernel from; the source does not change afterwards.
LEMMA NextKernel == KernelInv /\ [Next]_vars => KernelInv'
<1> SUFFICES ASSUME KernelInv, [Next]_vars PROVE KernelInv'
  OBVIOUS
<1>1. CASE LoadKernel
  <2>1. firmware' = firmware /\ boot_mode' = boot_mode
    BY <1>1 DEF LoadKernel
  <2>2. Section' = Section
    BY <2>1, Zenon DEF Section
  <2>3. deserialize(Section)' = deserialize(Section)
    BY <2>2, Zenon
  <2> QED
    BY <1>1, <2>1, <2>3 DEF LoadKernel, KernelInv
<1>2. CASE TryTftp
  BY <1>2 DEF TryTftp, KernelInv
<1>3. ASSUME UNCHANGED <<firmware, boot_mode, kernel_config>>, pc # "kernel" => pc' # "kernel"
      PROVE  KernelInv'
  <2>1. Section' = Section
    BY <1>3, Zenon DEF Section
  <2>2. deserialize(Section)' = deserialize(Section)
    BY <2>1, Zenon
  <2> QED
    BY <1>3, <2>2 DEF KernelInv
<1>4. CASE KernelFails \/ FileFails \/ ModeFails \/ NoFrame
  BY <1>3, <1>4 DEF KernelFails, FileFails, ModeFails, NoFrame, Panic
<1>5. CASE LoadConfig \/ InitLogger \/ LoadRamdisk
  BY <1>3, <1>5 DEF LoadConfig, InitLogger, LoadRamdisk
<1>6. CASE ExitBootServices \/ AllocateTable \/ FindRsdp
  BY <1>3, <1>6 DEF ExitBootServices, AllocateTable, FindRsdp
<1>7. CASE UNCHANGED vars
  BY <1>3, <1>7 DEF vars
<1> QED
  BY <1>1, <1>2, <1>4, <1>5, <1>6, <1>7, Zenon DEF Next

\* What deserialize accepts is what serialize writes for the configuration read,
\* whatever the bytes of a section are and however many values a byte has.
THEOREM SectionIsCanonical == Spec => []SectionCanonical
<1>1. Init => KernelInv
  BY InitKernel
<1>2. KernelInv /\ [Next]_vars => KernelInv'
  BY NextKernel
<1>3. KernelInv => SectionCanonical
  <2> SUFFICES ASSUME KernelInv, kernel_config # NoConfig PROVE serialize(kernel_config) = Section
    BY Zenon DEF SectionCanonical
  <2>1. deserialize(Section).ok /\ kernel_config = deserialize(Section).value
    BY Zenon DEF KernelInv
  <2>2. Section \in Seq(Bytes)
    BY FirmwareAssumption, Zenon DEF KernelInv, Section
  <2>3. Len(Section) = SerializedLen /\ \A k \in 1..Len(Read) : FieldOf(Section, k).ok
    BY <2>1, AcceptedWhole, Zenon
  <2> QED
    BY <2>1, <2>2, <2>3, Canonical, Zenon
<1> QED
  BY <1>1, <1>2, <1>3, PTL DEF Spec

\* Every configuration a kernel can be compiled with arrives in the bootloader
\* as it was, field by field.
THEOREM ConfigIsRestored == Spec => []ConfigRestored
<1>1. Init => KernelInv
  BY InitKernel
<1>2. KernelInv /\ [Next]_vars => KernelInv'
  BY NextKernel
<1>3. KernelInv => ConfigRestored
  <2> DEFINE built == firmware.built[boot_mode]
  <2> SUFFICES ASSUME KernelInv, kernel_config # NoConfig, built # NoConfig
               PROVE  [name \in DOMAIN kernel_config \ {"uuid"} |-> kernel_config[name]] = built
    BY Zenon DEF ConfigRestored
  <2>1. /\ built = [name \in Names \ {"uuid"} |-> built[name]]
        /\ IsConfig(WithUuid(built))
        /\ Section = serialize(WithUuid(built))
    BY FirmwareAssumption, Zenon DEF KernelInv, Section
  <2>2. kernel_config = deserialize(Section).value
    BY Zenon DEF KernelInv
  <2> HIDE DEF built
  <2>3. kernel_config = WithUuid(built)
    BY <2>1, <2>2, RoundTrip, Differ, Zenon
  <2>4. /\ DOMAIN built = Names \ {"uuid"}
        /\ DOMAIN kernel_config = DOMAIN built \cup {"uuid"}
        /\ \A name \in DOMAIN built : kernel_config[name] = IF name = "uuid" THEN Uuid ELSE built[name]
    BY <2>1, <2>3, Zenon DEF WithUuid
  <2>5. DOMAIN kernel_config \ {"uuid"} = Names \ {"uuid"}
    BY <2>4
  <2>6. \A name \in Names \ {"uuid"} : kernel_config[name] = built[name]
    BY <2>4
  <2>7. [name \in Names \ {"uuid"} |-> kernel_config[name]] = [name \in Names \ {"uuid"} |-> built[name]]
    BY <2>6, Zenon
  <2> QED
    BY <2>1, <2>5, <2>7, Zenon
<1> QED
  BY <1>1, <1>2, <1>3, PTL DEF Spec

-----------------------------------------------------------------------------
(***************************************************************************)
(* The source of the files                                                 *)
(***************************************************************************)

\* Nothing is loaded before the kernel; the boot mode is settled by then, and
\* what the disk answered when it was asked for the kernel with it.
SourceInv ==
  /\ boot_mode \in {"Disk", "Tftp"}
  /\ boot_mode = "Tftp" => Attempt("kernel", "Disk") = "none"
  /\ \A f \in DOMAIN loaded : loaded[f] = boot_mode
  /\ pc = "kernel" => loaded = << >>
  /\ (pc \notin {"kernel", "panic"} \/ loaded # << >>) /\ boot_mode = "Disk" =>
       Attempt("kernel", "Disk") = "loaded"

\* Nothing is loaded when main_inner starts, and the first source is the disk.
LEMMA InitSource == Init => SourceInv
BY DEF Init, SourceInv

\* The answer of the disk depends on the machine only.
LEMMA SameAnswer ==
  ASSUME firmware' = firmware
  PROVE  Attempt("kernel", "Disk")' = Attempt("kernel", "Disk")
BY DEF Attempt, FromDisk

\* Loading a file leaves the source alone.
LEMMA LoadKeepsMode ==
  ASSUME NEW file, Load(file, boot_mode), boot_mode' = boot_mode,
         \A f \in DOMAIN loaded : loaded[f] = boot_mode
  PROVE  \A f \in DOMAIN loaded' : loaded'[f] = boot_mode'
BY DEF Load

\* Every file is loaded from the source that is current, and the source changes
\* only before anything is loaded.
LEMMA NextSource == SourceInv /\ [Next]_vars => SourceInv'
<1> SUFFICES ASSUME SourceInv, [Next]_vars PROVE SourceInv'
  OBVIOUS
<1>1. CASE LoadKernel
  <2>1. \A f \in DOMAIN loaded' : loaded'[f] = boot_mode'
    BY <1>1, LoadKeepsMode DEF LoadKernel, SourceInv
  <2>2. Attempt("kernel", "Disk")' = Attempt("kernel", "Disk")
    BY <1>1, SameAnswer DEF LoadKernel
  <2> QED
    BY <1>1, <2>1, <2>2 DEF LoadKernel, SourceInv
<1>2. CASE TryTftp
  <2>1. Attempt("kernel", "Disk")' = Attempt("kernel", "Disk")
    BY <1>2, SameAnswer DEF TryTftp
  <2>2. DOMAIN loaded' = {}
    BY <1>2 DEF TryTftp, SourceInv
  <2> QED
    BY <1>2, <2>1, <2>2 DEF TryTftp, SourceInv
<1>3. CASE KernelFails \/ FileFails \/ ModeFails \/ NoFrame
  <2>1. Panic /\ (pc = "kernel" \/ pc \notin {"kernel", "panic"})
    BY <1>3 DEF KernelFails, FileFails, ModeFails, NoFrame
  <2>2. Attempt("kernel", "Disk")' = Attempt("kernel", "Disk")
    BY <2>1, SameAnswer DEF Panic
  <2> QED
    BY <2>1, <2>2 DEF Panic, SourceInv
<1>4. CASE LoadConfig \/ LoadRamdisk
  <2>1. /\ firmware' = firmware /\ boot_mode' = boot_mode
        /\ pc \notin {"kernel", "panic"} /\ pc' # "kernel"
        /\ (\E file \in {"config", "ramdisk"} : Load(file, boot_mode)) \/ loaded' = loaded
    BY <1>4 DEF LoadConfig, LoadRamdisk
  <2>2. \A f \in DOMAIN loaded' : loaded'[f] = boot_mode'
    BY <2>1, LoadKeepsMode DEF SourceInv
  <2>3. Attempt("kernel", "Disk")' = Attempt("kernel", "Disk")
    BY <2>1, SameAnswer
  <2> QED
    BY <2>1, <2>2, <2>3 DEF SourceInv
<1>5. CASE InitLogger \/ ExitBootServices \/ AllocateTable \/ FindRsdp
  <2>1. /\ firmware' = firmware /\ boot_mode' = boot_mode /\ loaded' = loaded
        /\ pc \notin {"kernel", "panic"} /\ pc' # "kernel"
    BY <1>5 DEF InitLogger, ExitBootServices, AllocateTable, FindRsdp
  <2>2. Attempt("kernel", "Disk")' = Attempt("kernel", "Disk")
    BY <2>1, SameAnswer
  <2> QED
    BY <2>1, <2>2 DEF SourceInv
<1>6. CASE UNCHANGED vars
  <2>1. Attempt("kernel", "Disk")' = Attempt("kernel", "Disk")
    BY <1>6, SameAnswer DEF vars
  <2> QED
    BY <1>6, <2>1 DEF vars, SourceInv
<1> QED
  BY <1>1, <1>2, <1>3, <1>4, <1>5, <1>6, Zenon DEF Next

\* Whatever the machine offers, all files come from the source of the kernel,
\* and TFTP is that source only if the disk has no kernel.
THEOREM OneSource == Spec => []SameSource
<1>1. Init => SourceInv
  BY InitSource
<1>2. SourceInv /\ [Next]_vars => SourceInv'
  BY NextSource
<1>3. SourceInv => SameSource
  BY DEF SourceInv, SameSource
<1> QED
  BY <1>1, <1>2, <1>3, PTL DEF Spec

-----------------------------------------------------------------------------
(***************************************************************************)
(* Who reports a panic                                                     *)
(***************************************************************************)

\* The console is there until init_logger is through, the boot services with
\* it; from then on a machine with a display has the logger.
ReportInv ==
  /\ pc \in {"kernel", "config", "logger"} => console /\ services
  /\ pc \notin {"kernel", "config", "logger", "panic"} => ~console /\ (Modes # << >> => logger)
  /\ pc = "panic" => (Modes # << >> => console \/ logger) /\ (console => services)

\* The console is set up before anything can panic.
LEMMA InitReport == Init => ReportInv
BY DEF Init, ReportInv

\* The console is dropped when the logger takes over, or without a display, and
\* before the boot services are exited.
LEMMA NextReport == ReportInv /\ [Next]_vars => ReportInv'
<1> SUFFICES ASSUME ReportInv, [Next]_vars PROVE ReportInv'
  OBVIOUS
<1> USE DEF ReportInv, Modes
<1>1. CASE LoadKernel \/ TryTftp \/ LoadConfig
  BY <1>1 DEF LoadKernel, TryTftp, LoadConfig
<1>2. CASE KernelFails \/ FileFails \/ ModeFails \/ NoFrame
  BY <1>2 DEF KernelFails, FileFails, ModeFails, NoFrame, Panic
<1>3. CASE InitLogger
  BY <1>3 DEF InitLogger
<1>4. CASE LoadRamdisk \/ ExitBootServices \/ AllocateTable \/ FindRsdp
  BY <1>4 DEF LoadRamdisk, ExitBootServices, AllocateTable, FindRsdp
<1>5. CASE UNCHANGED vars
  BY <1>5 DEF vars
<1> QED
  BY <1>1, <1>2, <1>3, <1>4, <1>5, Zenon DEF Next

\* On every machine with a display a panic is reported wherever the boot fails,
\* and the console never outlives the boot services.
THEOREM PanicIsReported == Spec => []PanicReported
<1>1. Init => ReportInv
  BY InitReport
<1>2. ReportInv /\ [Next]_vars => ReportInv'
  BY NextReport
<1>3. ReportInv => PanicReported
  BY DEF ReportInv, PanicReported
<1> QED
  BY <1>1, <1>2, <1>3, PTL DEF Spec

-----------------------------------------------------------------------------
(***************************************************************************)
(* The video mode                                                          *)
(***************************************************************************)

\* The backwards search of init_logger finds a mode if there is one to find.
LEMMA LastAcceptable ==
  ASSUME NEW n \in Nat, NEW S, S \subseteq 1..n, S # {}
  PROVE  \E k \in S : \A j \in (k + 1)..n : j \notin S
<1> DEFINE T == {n - k : k \in S}
<1>1. T \subseteq Nat /\ T # {}
  <2>1. \A k \in S : n - k \in Nat
    OBVIOUS
  <2> QED
    BY <2>1, Zenon
<1>2. PICK x \in T : \A y \in T : x <= y
  BY <1>1, LeastExists, Zenon
<1>3. PICK k \in S : x = n - k
  BY <1>2
<1>4. ASSUME NEW j \in S PROVE j <= k
  <2>1. n - j \in T
    OBVIOUS
  <2>2. x <= n - j
    BY <1>2, <2>1, Zenon
  <2> QED
    BY <1>3, <2>2
<1> QED
  BY <1>3, <1>4

\* The mode in use is the one init_logger has chosen with the configuration
\* that is still in force.
DisplayInv ==
  /\ firmware \in Firmwares
  /\ boot_mode \in {"Disk", "Tftp"}
  /\ pc \in {"kernel", "config", "logger"} => framebuffer = 0
  /\ pc = "logger" \/ framebuffer # 0 => config = Merged(FileConfig, kernel_config)
  /\ framebuffer # 0 => framebuffer = NewMode

\* There is no framebuffer when main_inner starts.
LEMMA InitDisplay == Init => DisplayInv
BY DEF Init, DisplayInv

\* What the configuration file says depends on the machine and the source.
LEMMA SameFile ==
  ASSUME firmware' = firmware, boot_mode' = boot_mode
  PROVE  FileConfig' = FileConfig
BY DEF FileConfig, Attempt, FromDisk, FromTftp

\* The mode init_logger chooses depends on the machine and the configuration.
LEMMA SameMode ==
  ASSUME firmware' = firmware, config' = config
  PROVE  NewMode' = NewMode
<1>1. Modes' = Modes
  BY DEF Modes
<1>2. \A k : Acceptable(k)' <=> Acceptable(k)
  BY <1>1 DEF Acceptable
<1>3. Wanted' = Wanted
  BY <1>1, <1>2, Zenon DEF Wanted
<1> QED
  BY <1>1, <1>3 DEF NewMode

\* InitLogger selects a mode by the merged minima, which stay what they were.
LEMMA NextDisplay == DisplayInv /\ [Next]_vars => DisplayInv'
<1> SUFFICES ASSUME DisplayInv, [Next]_vars PROVE DisplayInv'
  OBVIOUS
<1>1. CASE LoadKernel \/ TryTftp
  BY <1>1 DEF LoadKernel, TryTftp, DisplayInv
<1>2. CASE LoadConfig
  <2>1. FileConfig' = FileConfig
    BY <1>2, SameFile DEF LoadConfig
  <2> QED
    BY <1>2, <2>1 DEF LoadConfig, DisplayInv, Merged
<1>3. CASE InitLogger
  <2>1. FileConfig' = FileConfig /\ NewMode' = NewMode
    BY <1>3, SameFile, SameMode DEF InitLogger
  <2> QED
    BY <1>3, <2>1 DEF InitLogger, DisplayInv, Merged
<1>4. CASE KernelFails \/ FileFails \/ ModeFails \/ NoFrame
  <2>1. FileConfig' = FileConfig /\ NewMode' = NewMode
    BY <1>4, SameFile, SameMode DEF KernelFails, FileFails, ModeFails, NoFrame, Panic
  <2> QED
    BY <1>4, <2>1 DEF KernelFails, FileFails, ModeFails, NoFrame, Panic, DisplayInv, Merged
<1>5. CASE LoadRamdisk \/ ExitBootServices \/ AllocateTable \/ FindRsdp \/ UNCHANGED vars
  <2>1. FileConfig' = FileConfig /\ NewMode' = NewMode
    BY <1>5, SameFile, SameMode DEF LoadRamdisk, ExitBootServices, AllocateTable, FindRsdp, vars
  <2> QED
    BY <1>5, <2>1
    DEF LoadRamdisk, ExitBootServices, AllocateTable, FindRsdp, vars, DisplayInv, Merged
<1> QED
  BY <1>1, <1>2, <1>3, <1>4, <1>5, Zenon DEF Next

\* The chosen mode is acceptable if any is: either there is no minimum at all,
\* or the search has found one.
LEMMA ChosenAcceptable ==
  ASSUME firmware \in Firmwares, NEW k \in 1..Len(Modes), Acceptable(k)
  PROVE  Acceptable(NewMode)
<1>1. CASE DefaultConfig = config
  BY <1>1 DEF Acceptable, AtLeast, DefaultConfig
<1>2. CASE DefaultConfig # config
  <2> DEFINE S == {j \in 1..Len(Modes) : Acceptable(j)}
  <2>1. Len(Modes) \in Nat
    BY FirmwareAssumption DEF Modes
  <2>2. S \subseteq 1..Len(Modes) /\ S # {}
    OBVIOUS
  <2> HIDE DEF S
  <2>3. PICK l \in S : \A j \in (l + 1)..Len(Modes) : j \notin S
    BY <2>1, <2>2, LastAcceptable, Zenon
  <2>4. l \in 1..Len(Modes) /\ Acceptable(l)
    BY <2>3 DEF S
  <2>5. \A j \in (l + 1)..Len(Modes) : j \in 1..Len(Modes)
    BY <2>1, <2>4
  <2>6. \A j \in (l + 1)..Len(Modes) : ~Acceptable(j)
    BY <2>3, <2>5, Zenon DEF S
  <2>7. l \in Wanted
    BY <1>2, <2>4, <2>6, Zenon DEF Wanted
  <2>8. NewMode \in Wanted
    BY <2>7, Zenon DEF NewMode
  <2> QED
    BY <1>2, <2>8, Zenon DEF Wanted
<1> QED
  BY <1>1, <1>2

\* Whatever the modes and the minima, a machine that has a mode of the wanted
\* size runs in one.
THEOREM MinimumIsMet == Spec => []FramebufferMeetsMinimum
<1>1. Init => DisplayInv
  BY InitDisplay
<1>2. DisplayInv /\ [Next]_vars => DisplayInv'
  BY NextDisplay
<1>3. DisplayInv => FramebufferMeetsMinimum
  <2> SUFFICES ASSUME DisplayInv, framebuffer # 0 PROVE FramebufferMeetsMinimum
    BY DEF FramebufferMeetsMinimum
  <2> DEFINE minimum == [f \in DOMAIN DefaultConfig |->
                           IF FileConfig[f] # None THEN FileConfig[f] ELSE kernel_config[f]]
  <2>1. DOMAIN FileConfig = DOMAIN DefaultConfig
    BY FirmwareAssumption, Zenon DEF DisplayInv, FileConfig
  <2>2. config = minimum
    BY <2>1 DEF DisplayInv, Merged
  <2> HIDE DEF minimum
  <2>3. framebuffer = NewMode /\ firmware \in Firmwares
    BY DEF DisplayInv
  <2>4. ASSUME NEW k \in 1..Len(Modes), Acceptable(k) PROVE Acceptable(framebuffer)
    BY <2>3, <2>4, ChosenAcceptable, Zenon
  <2>5. (\E k \in 1..Len(Modes) :
           /\ AtLeast(Modes[k].height, minimum.minimum_framebuffer_height)
           /\ AtLeast(Modes[k].width, minimum.minimum_framebuffer_width)) =>
           /\ AtLeast(Modes[framebuffer].height, minimum.minimum_framebuffer_height)
           /\ AtLeast(Modes[framebuffer].width, minimum.minimum_framebuffer_width)
    BY <2>2, <2>4, Zenon DEF Acceptable
  <2> QED
    BY <2>5, Zenon DEF FramebufferMeetsMinimum, minimum
<1> QED
  BY <1>1, <1>2, <1>3, PTL DEF Spec

=============================================================================
