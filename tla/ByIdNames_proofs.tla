-------------------------- MODULE ByIdNames_proofs --------------------------
(***************************************************************************)
(* The arithmetic of the key ranges, for any base and any number of digits,    *)
(* and the facts about natural numbers that it rests on: Min, which           *)
(* FiniteSetsExt defines by CHOOSE, and division.                            *)
(***************************************************************************)
EXTENDS ByIdNames, FiniteSetsExt, WellFoundedInduction, TLAPS

(* Min of a nonempty set of natural numbers is its least element.          *)
LEMMA MinOfNats ==
  ASSUME NEW S \in SUBSET Nat, S # {}
  PROVE  /\ Min(S) \in S
         /\ \A n \in S : Min(S) <= n
<1>1. PICK m \in S : \A n \in S : <<n, m>> \notin OpToRel(<, Nat)
  BY NatLessThanWellFounded, WFMin, Zenon
<1>2. \A n \in S : ~(n < m)
  BY <1>1, Zenon DEF OpToRel
<1>3. \A n \in S : m <= n
  BY <1>2
<1> QED
  BY <1>3 DEF Min

LEMMA DivMod ==
  ASSUME NEW a \in Nat, NEW s \in Nat \ {0}
  PROVE  a = (a \div s) * s + (a % s) /\ a % s \in 0 .. s - 1 /\ a \div s \in Nat
  OBVIOUS

LEMMA DivUnique ==
  ASSUME NEW q \in Nat, NEW s \in Nat \ {0}, NEW r \in 0 .. s - 1
  PROVE  (q * s + r) \div s = q
  OBVIOUS

LEMMA ModUnique ==
  ASSUME NEW q \in Nat, NEW s \in Nat \ {0}, NEW r \in 0 .. s - 1
  PROVE  (q * s + r) % s = r
  OBVIOUS

LEMMA MultipleTypes ==
  ASSUME NEW a \in Nat, NEW s \in Nat
  PROVE  a * s \in Nat
  OBVIOUS

LEMMA MultiplesAreOrdered ==
  ASSUME NEW a \in Nat, NEW b \in Nat, NEW s \in Nat
  PROVE  /\ a <= b => a * s <= b * s
         /\ a < b => a * s + s <= b * s
<1>1. a <= b => a * s <= b * s
  OBVIOUS
<1>2. a + 1 <= b => (a + 1) * s <= b * s
  OBVIOUS
<1>3. (a + 1) * s = a * s + s
  OBVIOUS
<1> QED
  BY <1>1, <1>2, <1>3

LEMMA Distribute ==
  ASSUME NEW a \in Int, NEW b \in Int, NEW s \in Int
  PROVE  (a + b) * s = a * s + b * s /\ (a - b) * s = a * s - b * s
  OBVIOUS

LEMMA MultipleOfMultiple ==
  ASSUME NEW a \in Int, NEW b \in Int, NEW s \in Int
  PROVE  a * (b * s) = (a * b) * s
  OBVIOUS

-----------------------------------------------------------------------------

LEMMA BaseTypes == Base \in Nat \ {0} /\ Base > 1 /\ Digits \in Nat \ {0}
  BY BaseAssumption, DigitsAssumption

LEMMA SpanTypes ==
  /\ \A k \in 0 .. Digits : Span[k] \in Nat \ {0}
  /\ \A k \in 0 .. Digits - 1 : Span[k + 1] = Base * Span[k]
  /\ KeySpace \in Nat \ {0}
  BY SpanAssumption, DigitsAssumption DEF KeySpace

(* The masks and shifts replace digit k of a key and nothing else.           *)
LEMMA PutByteReplacesDigit ==
  ASSUME NEW k \in 0 .. Digits - 1, NEW m \in Nat, NEW d \in Bytes, NEW b \in Bytes,
         NEW r \in 0 .. Span[k] - 1, NEW id, id = (m * Base + d) * Span[k] + r
  PROVE  /\ Byte(id, k) = d
         /\ PutByte(id, k, b) = (m * Base + b) * Span[k] + r
<1>1. Span[k] \in Nat \ {0}
  BY SpanTypes, BaseTypes
<1>2. d \in 0 .. Base - 1 /\ b \in 0 .. Base - 1 /\ m * Base \in Nat
  BY BaseTypes, MultipleTypes DEF Bytes
<1>3. m * Base + d \in Nat
  BY <1>2
<1>4. id \div Span[k] = m * Base + d
  BY <1>1, <1>3, DivUnique
<1>5. (m * Base + d) % Base = d
  BY <1>2, BaseTypes, ModUnique
<1>6. Byte(id, k) = d
  BY <1>4, <1>5 DEF Byte
<1>7. /\ (m * Base + d) * Span[k] = (m * Base) * Span[k] + d * Span[k]
      /\ (m * Base + b) * Span[k] = (m * Base) * Span[k] + b * Span[k]
  BY <1>1, <1>2, Distribute
<1>8. (m * Base) * Span[k] \in Nat /\ d * Span[k] \in Nat /\ b * Span[k] \in Nat
  BY <1>1, <1>2, MultipleTypes
<1>9. PutByte(id, k, b) = id - d * Span[k] + b * Span[k]
  BY <1>6 DEF PutByte
<1> QED
  BY <1>1, <1>6, <1>7, <1>8, <1>9

-----------------------------------------------------------------------------
(* The keys with the same digits from digit k on: what a path of \by-id selects. *)
IsBlock(k, first, last) ==
  \E m \in Nat : /\ first = m * Span[k]
                 /\ last = m * Span[k] + Span[k] - 1
                 /\ last < KeySpace

LEMMA SomeInterval ==
  ASSUME NEW x \in Nat, NEW s \in Nat \ {0}, NEW end \in Nat, x + s - 1 < end
  PROVE  /\ x \in 0 .. end - 1 /\ x + s - 1 \in 0 .. end - 1
         /\ x <= x + s - 1 /\ (x + s - 1) - x + 1 = s
  OBVIOUS

LEMMA BlockOfKeys ==
  ASSUME NEW k \in 0 .. Digits, NEW first, NEW last, IsBlock(k, first, last)
  PROVE  /\ first \in Keys /\ last \in Keys /\ first <= last
         /\ last - first + 1 = Span[k]
<1>1. PICK m \in Nat : /\ first = m * Span[k]
                       /\ last = m * Span[k] + Span[k] - 1
                       /\ last < KeySpace
  BY DEF IsBlock
<1>2. Span[k] \in Nat \ {0} /\ m * Span[k] \in Nat /\ KeySpace \in Nat
  BY SpanTypes, MultipleTypes
<1> QED
  BY <1>1, <1>2, SomeInterval DEF Keys

(* The ends of a block, written with one digit more.                         *)
LEMMA BlockEnds ==
  ASSUME NEW k \in 0 .. Digits - 1, NEW m \in Nat
  PROVE  /\ m * Span[k + 1] = (m * Base + 0) * Span[k] + 0
         /\ m * Span[k + 1] + Span[k + 1] - 1
              = (m * Base + (Base - 1)) * Span[k] + (Span[k] - 1)
<1>1. Span[k] \in Nat \ {0} /\ Span[k + 1] = Base * Span[k] /\ Base \in Nat
  BY SpanTypes, BaseTypes
<1>2. m * Base \in Nat /\ (m * Base) * Span[k] \in Nat /\ Base * Span[k] \in Nat
  BY <1>1, MultipleTypes
<1>3. m * Span[k + 1] = (m * Base) * Span[k]
  BY <1>1, MultipleOfMultiple
<1>4. /\ (m * Base + (Base - 1)) * Span[k] = (m * Base) * Span[k] + (Base - 1) * Span[k]
      /\ (Base - 1) * Span[k] = Base * Span[k] - 1 * Span[k]
  BY <1>1, <1>2, Distribute
<1> QED
  BY <1>1, <1>2, <1>3, <1>4

(* Writing one digit into both ends of a block selects one of its children.   *)
LEMMA PutByteNarrowsBlock ==
  ASSUME NEW k \in 0 .. Digits - 1, NEW first, NEW last, IsBlock(k + 1, first, last),
         NEW b \in Bytes
  PROVE  IsBlock(k, PutByte(first, k, b), PutByte(last, k, b))
<1>1. PICK m \in Nat : /\ first = m * Span[k + 1]
                       /\ last = m * Span[k + 1] + Span[k + 1] - 1
                       /\ last < KeySpace
  BY DEF IsBlock
<1>2. /\ first = (m * Base + 0) * Span[k] + 0
      /\ last = (m * Base + (Base - 1)) * Span[k] + (Span[k] - 1)
  BY <1>1, BlockEnds
<1>3. /\ Span[k] \in Nat \ {0} /\ 0 \in 0 .. Span[k] - 1 /\ Span[k] - 1 \in 0 .. Span[k] - 1
      /\ 0 \in Bytes /\ Base - 1 \in Bytes
  BY SpanTypes, BaseTypes DEF Bytes
<1>4. PutByte(first, k, b) = (m * Base + b) * Span[k] + 0
  BY <1>2, <1>3, PutByteReplacesDigit
<1>5. PutByte(last, k, b) = (m * Base + b) * Span[k] + (Span[k] - 1)
  BY <1>2, <1>3, PutByteReplacesDigit
<1>6. m * Base \in Nat
  BY BaseTypes, MultipleTypes
<1>7. /\ m * Base + b \in Nat /\ m * Base + (Base - 1) \in Nat
      /\ m * Base + b <= m * Base + (Base - 1)
  BY <1>6, BaseTypes DEF Bytes
<1>8. /\ (m * Base + b) * Span[k] \in Nat
      /\ (m * Base + (Base - 1)) * Span[k] \in Nat
      /\ (m * Base + b) * Span[k] <= (m * Base + (Base - 1)) * Span[k]
  BY <1>3, <1>7, MultipleTypes, MultiplesAreOrdered
<1>9. PutByte(last, k, b) < KeySpace
  BY <1>1, <1>2, <1>3, <1>5, <1>8, SpanTypes
<1> QED
  BY <1>3, <1>4, <1>5, <1>7, <1>8, <1>9 DEF IsBlock

(* A number lies in the block of a quotient.                                 *)
LEMMA BlockOfQuotient ==
  ASSUME NEW key \in Nat, NEW s \in Nat \ {0}, NEW q \in Nat
  PROVE  q * s <= key /\ key <= q * s + s - 1 <=> key \div s = q
<1>0. q * s \in Nat
  BY MultipleTypes
<1>1. ASSUME q * s <= key, key <= q * s + s - 1 PROVE key \div s = q
  <2>1. key - q * s \in 0 .. s - 1 /\ key = q * s + (key - q * s)
    BY <1>0, <1>1
  <2> QED
    BY <2>1, DivUnique
<1>2. ASSUME key \div s = q PROVE q * s <= key /\ key <= q * s + s - 1
  BY <1>0, <1>2, DivMod
<1> QED
  BY <1>1, <1>2

(* Dividing by two numbers is dividing by their product.                      *)
LEMMA QuotientOfQuotient ==
  ASSUME NEW key \in Nat, NEW s \in Nat \ {0}, NEW b \in Nat \ {0}
  PROVE  (key \div s) \div b = key \div (b * s)
<1> DEFINE q == key \div s
           r == key % s
           p == q \div b
           t == q % b
<1>1. key = q * s + r /\ r \in 0 .. s - 1 /\ q \in Nat
  BY DivMod
<1>2. q = p * b + t /\ t \in 0 .. b - 1 /\ p \in Nat
  BY <1>1, DivMod
<1> HIDE DEF q, r, p, t
<1>3. q * s = (p * b) * s + t * s
  <2>1. p * b \in Nat /\ t \in Nat
    BY <1>2, MultipleTypes
  <2> QED
    BY <1>2, <2>1, Distribute
<1>4. (p * b) * s = p * (b * s)
  BY <1>2, MultipleOfMultiple
<1>5. t * s + r \in 0 .. b * s - 1
  <2>1. t \in Nat /\ t < b /\ t * s \in Nat
    BY <1>2, MultipleTypes
  <2>2. t * s + s <= b * s
    BY <2>1, MultiplesAreOrdered
  <2>3. b * s \in Nat
    BY MultipleTypes
  <2> QED
    BY <1>1, <2>1, <2>2, <2>3
<1>6. b * s \in Nat \ {0} /\ p * (b * s) \in Nat
  <2>1. b * s \in Nat
    BY MultipleTypes
  <2>2. b * s # 0
    BY <1>5, <2>1
  <2> QED
    BY <1>2, <2>1, <2>2, MultipleTypes
<1>7. key = p * (b * s) + (t * s + r)
  <2> DEFINE ps == p * (b * s)
             ts == t * s
  <2>1. ps \in Nat /\ ts \in Nat /\ r \in Nat
    <3>1. t \in Nat
      BY <1>2
    <3> QED
      BY <1>1, <1>6, <3>1, MultipleTypes
  <2>2. key = (ps + ts) + r
    BY <1>1, <1>3, <1>4
  <2> HIDE DEF ps, ts
  <2>3. key = ps + (ts + r)
    BY <2>1, <2>2
  <2> QED
    BY <2>3 DEF ps, ts
<1>8. key \div (b * s) = p
  BY <1>2, <1>5, <1>6, <1>7, DivUnique
<1> QED
  BY <1>8 DEF p, q

(* Of the keys of a block, a child holds those that have its digit.            *)
LEMMA PutByteSelects ==
  ASSUME NEW k \in 0 .. Digits - 1, NEW first, NEW last, IsBlock(k + 1, first, last),
         NEW b \in Bytes, NEW key \in Nat
  PROVE  PutByte(first, k, b) <= key /\ key <= PutByte(last, k, b)
           <=> first <= key /\ key <= last /\ Byte(key, k) = b
<1>1. PICK m \in Nat : /\ first = m * Span[k + 1]
                       /\ last = m * Span[k + 1] + Span[k + 1] - 1
                       /\ last < KeySpace
  BY DEF IsBlock
<1>2. /\ Span[k] \in Nat \ {0} /\ 0 \in 0 .. Span[k] - 1 /\ Span[k] - 1 \in 0 .. Span[k] - 1
      /\ 0 \in Bytes /\ Base - 1 \in Bytes
  BY SpanTypes, BaseTypes DEF Bytes
<1>3. /\ PutByte(first, k, b) = (m * Base + b) * Span[k]
      /\ PutByte(last, k, b) = (m * Base + b) * Span[k] + Span[k] - 1
      /\ m * Base + b \in Nat
  <2>1. /\ first = (m * Base + 0) * Span[k] + 0
        /\ last = (m * Base + (Base - 1)) * Span[k] + (Span[k] - 1)
    BY <1>1, BlockEnds
  <2>2. m * Base + b \in Nat
    BY BaseTypes, MultipleTypes DEF Bytes
  <2>3. (m * Base + b) * Span[k] \in Nat
    BY <1>2, <2>2, MultipleTypes
  <2>4. PutByte(first, k, b) = (m * Base + b) * Span[k] + 0
    BY <1>2, <2>1, PutByteReplacesDigit
  <2>5. PutByte(last, k, b) = (m * Base + b) * Span[k] + (Span[k] - 1)
    BY <1>2, <2>1, PutByteReplacesDigit
  <2> QED
    BY <1>2, <2>2, <2>3, <2>4, <2>5
<1> DEFINE q == key \div Span[k]
<1>4. q \in Nat /\ Byte(key, k) = q % Base
  BY <1>2, DivMod DEF Byte
<1>5. first <= key /\ key <= last <=> q \div Base = m
  <2>1. Span[k + 1] \in Nat \ {0}
    BY SpanTypes, BaseTypes
  <2>2. first <= key /\ key <= last <=> key \div Span[k + 1] = m
    BY <1>1, <2>1, BlockOfQuotient
  <2>3. q \div Base = key \div (Base * Span[k])
    BY <1>2, BaseTypes, QuotientOfQuotient
  <2>4. Span[k + 1] = Base * Span[k]
    BY SpanTypes
  <2> QED
    BY <2>2, <2>3, <2>4
<1>6. PutByte(first, k, b) <= key /\ key <= PutByte(last, k, b) <=> q = m * Base + b
  BY <1>2, <1>3, BlockOfQuotient
<1> HIDE DEF q
<1>7. q = m * Base + b <=> q \div Base = m /\ q % Base = b
  <2>1. b \in 0 .. Base - 1 /\ Base \in Nat \ {0}
    BY BaseTypes DEF Bytes
  <2>2. ASSUME q = m * Base + b PROVE q \div Base = m /\ q % Base = b
    BY <2>1, <2>2, DivUnique, ModUnique
  <2>3. q = (q \div Base) * Base + (q % Base)
    BY <1>4, <2>1, DivMod
  <2> QED
    BY <2>2, <2>3
<1> QED
  BY <1>4, <1>5, <1>6, <1>7

-----------------------------------------------------------------------------
(* parseByIDName: after "by-id" and n bytes the cursor selects a block of all    *)
(* but the n most significant digits.                                        *)
FreeDigits(next) == IF next = 1 THEN Digits ELSE Digits + 2 - next

ParsedBlock(cursor) ==
  /\ cursor.next \in 1 .. Digits + 2
  /\ IsBlock(FreeDigits(cursor.next), cursor.firstID, cursor.lastID)

LEMMA ParseBeginBlock == ParseBegin \in Cursor /\ ParsedBlock(ParseBegin)
<1>1. /\ 0 = 0 * Span[Digits] /\ KeySpace - 1 = 0 * Span[Digits] + Span[Digits] - 1
      /\ KeySpace - 1 < KeySpace /\ 0 \in Keys /\ KeySpace - 1 \in Keys
  BY SpanTypes, BaseTypes DEF KeySpace, Keys
<1>2. IsBlock(Digits, 0, KeySpace - 1)
  BY <1>1 DEF IsBlock
<1> QED
  BY <1>1, <1>2, BaseTypes DEF ParseBegin, Cursor, ParsedBlock, FreeDigits

LEMMA ParseNextBlock ==
  ASSUME NEW path \in Path, NEW cursor \in Cursor, ParsedBlock(cursor),
         ~ParseDone(path, cursor), ~ParseRejects(path, cursor)
  PROVE  ParseNext(path, cursor) \in Cursor /\ ParsedBlock(ParseNext(path, cursor))
<1> DEFINE next == ParseNext(path, cursor)
           k == Digits + 1 - cursor.next
<1>1. cursor.next \in 1 .. Digits + 2 /\ Digits \in Nat /\ next.next = cursor.next + 1
  BY BaseTypes DEF ParsedBlock, ParseNext
<1>2. CASE cursor.next = 1
  <2>1. next.firstID = cursor.firstID /\ next.lastID = cursor.lastID
    BY <1>2 DEF ParseNext
  <2>2. FreeDigits(next.next) = Digits /\ FreeDigits(cursor.next) = Digits
    BY <1>1, <1>2 DEF FreeDigits
  <2> QED
    BY <1>1, <1>2, <2>1, <2>2, BaseTypes DEF ParsedBlock, Cursor, ParseNext
<1>3. CASE cursor.next # 1
  <2>1. cursor.next # Digits + 2 /\ path[cursor.next] \in Bytes
    BY <1>3 DEF ParseRejects
  <2>2. k \in 0 .. Digits - 1 /\ FreeDigits(cursor.next) = k + 1 /\ FreeDigits(next.next) = k
    BY <1>1, <1>3, <2>1 DEF FreeDigits
  <2>3. /\ next.firstID = PutByte(cursor.firstID, k, path[cursor.next])
        /\ next.lastID = PutByte(cursor.lastID, k, path[cursor.next])
    BY <1>3 DEF ParseNext
  <2>4. IsBlock(k + 1, cursor.firstID, cursor.lastID)
    BY <2>2 DEF ParsedBlock
  <2>5. IsBlock(k, next.firstID, next.lastID)
    BY <2>1, <2>2, <2>3, <2>4, PutByteNarrowsBlock
  <2>6. next.firstID \in Keys /\ next.lastID \in Keys
    <3>1. k \in 0 .. Digits
      BY <1>1, <2>2
    <3> HIDE DEF k, next
    <3> QED
      BY <2>5, <3>1, BlockOfKeys
  <2>7. next.next \in 1 .. Digits + 2
    BY <1>1, <2>1
  <2>8. next = [next |-> next.next, firstID |-> next.firstID, lastID |-> next.lastID]
    BY DEF ParseNext
  <2> QED
    BY <2>2, <2>5, <2>6, <2>7, <2>8 DEF ParsedBlock, Cursor
<1> QED
  BY <1>2, <1>3

-----------------------------------------------------------------------------
(* byIdSplit of a block that is larger than one key: SplitDigit finds the digit  *)
(* by which the children differ.                                             *)
LEMMA SplitDigitOfBlock ==
  ASSUME NEW k \in 1 .. Digits, NEW first, NEW last, IsBlock(k, first, last)
  PROVE  /\ SplitDigit(first, last) \in 0 .. Digits - 1
         /\ Span[SplitDigit(first, last) + 1] = Span[k]
         /\ Base * Span[SplitDigit(first, last)] = Span[k]
<1>1. k - 1 \in 0 .. Digits - 1 /\ (k - 1) + 1 = k /\ k \in 0 .. Digits
  BY BaseTypes
<1>2. last - first + 1 = Span[k]
  BY <1>1, BlockOfKeys
<1>3. \E j \in 0 .. Digits - 1 : Span[j + 1] = last - first + 1
  BY <1>1, <1>2
<1>4. /\ SplitDigit(first, last) \in 0 .. Digits - 1
      /\ Span[SplitDigit(first, last) + 1] = last - first + 1
  BY <1>3 DEF SplitDigit
<1> QED
  BY <1>2, <1>4, SpanTypes

(* The position after a child is the next multiple of its span, unless it is    *)
(* the last of all keys: then it wraps to 0.                                 *)
LEMMA NextMultiple ==
  ASSUME NEW end \in Nat, NEW span \in Nat \ {0}, NEW pos \in 0 .. end - 1,
         NEW sum, sum = (pos + span) % end, span <= end
  PROVE  \/ pos + span < end /\ sum - (sum % span) = (pos \div span) * span + span
         \/ pos + span >= end /\ sum - (sum % span) = 0
<1> pos \in Nat
  OBVIOUS
<1>1. /\ pos = (pos \div span) * span + (pos % span)
      /\ pos % span \in 0 .. span - 1 /\ pos \div span \in Nat
  BY DivMod
<1>2. CASE pos + span < end
  <2>1. 0 * end + (pos + span) = pos + span /\ pos + span \in 0 .. end - 1
    BY <1>2
  <2>2. sum = pos + span
    BY <1>2, <2>1, ModUnique
  <2>3. (pos \div span + 1) * span = (pos \div span) * span + span
    BY <1>1, Distribute
  <2>4. pos + span = (pos \div span + 1) * span + (pos % span)
    <3>1. (pos \div span) * span \in Nat
      BY <1>1, MultipleTypes
    <3> QED
      BY <1>1, <2>3, <3>1
  <2>5. (pos + span) % span = pos % span
    <3>1. pos \div span + 1 \in Nat
      BY <1>1
    <3> QED
      BY <1>1, <2>4, <3>1, ModUnique
  <2> QED
    BY <1>1, <1>2, <2>2, <2>3, <2>4, <2>5
<1>3. CASE pos + span >= end
  <2>1. /\ pos + span = 1 * end + (pos + span - end)
        /\ pos + span - end \in 0 .. end - 1
        /\ end \in Nat \ {0} /\ pos + span - end \in 0 .. span - 1
    BY <1>3
  <2>2. sum = pos + span - end
    BY <2>1, ModUnique
  <2>3. 0 * span + sum = sum
    BY <2>1, <2>2
  <2>4. sum % span = sum
    BY <2>1, <2>2, <2>3, ModUnique
  <2> QED
    BY <1>3, <2>1, <2>2, <2>4
<1> QED
  BY <1>2, <1>3

LEMMA BlockEnd ==
  ASSUME NEW k \in 0 .. Digits, NEW first, NEW last, IsBlock(k, first, last)
  PROVE  /\ \E m \in Nat : last + 1 = (m + 1) * Span[k]
         /\ Span[k] <= last + 1 /\ last + 1 <= KeySpace
<1>1. PICK m \in Nat : last = m * Span[k] + Span[k] - 1 /\ last < KeySpace
  BY DEF IsBlock
<1>2. Span[k] \in Nat \ {0} /\ KeySpace \in Nat
  BY SpanTypes
<1>3. m * Span[k] \in Nat /\ (m + 1) * Span[k] = m * Span[k] + 1 * Span[k]
  BY <1>2, MultipleTypes, Distribute
<1>4. last + 1 = m * Span[k] + Span[k]
  BY <1>1, <1>2, <1>3
<1>5. last + 1 = (m + 1) * Span[k]
  BY <1>2, <1>3, <1>4
<1> QED
  BY <1>1, <1>2, <1>3, <1>4, <1>5

(* A child of a block lies in the block, and so does the position after it,     *)
(* except that it may be the first key past the block.                       *)
LEMMA SplitInBlock ==
  ASSUME NEW k \in 1 .. Digits, NEW first, NEW last, IsBlock(k, first, last),
         NEW pos \in 0 .. last
  PROVE  /\ ByIdSplit(pos, first, last).byte \in Bytes
         /\ ByIdSplit(pos, first, last).next \in Keys
         /\ ByIdSplit(pos, first, last).next <= last + 1
<1> DEFINE span == Span[SplitDigit(first, last)]
           sum == (pos + span) % KeySpace
           next == sum - (sum % span)
<1>1. k \in 0 .. Digits
  BY BaseTypes
<1>2. SplitDigit(first, last) \in 0 .. Digits - 1 /\ Base * span = Span[k]
  BY SplitDigitOfBlock
<1>3. span \in Nat \ {0} /\ KeySpace \in Nat \ {0} /\ last \in Keys
  BY <1>1, <1>2, SpanTypes, BaseTypes, BlockOfKeys
<1>4. PICK m \in Nat : last + 1 = (m + 1) * Span[k]
  BY <1>1, BlockEnd
<1>5. Span[k] <= last + 1 /\ last + 1 <= KeySpace
  BY <1>1, BlockEnd
<1>6. last + 1 = ((m + 1) * Base) * span /\ (m + 1) * Base \in Nat
  BY <1>2, <1>3, <1>4, BaseTypes, MultipleOfMultiple, MultipleTypes
<1>7. span <= Span[k]
  <2>1. 1 * span <= Base * span
    BY <1>3, BaseTypes, MultiplesAreOrdered
  <2> QED
    BY <1>2, <1>3, <2>1
<1> HIDE DEF span
<1>8. pos \in 0 .. KeySpace - 1 /\ pos \in Nat /\ pos < last + 1 /\ span <= KeySpace
  <2>1. Span[k] \in Nat /\ last \in Nat
    BY <1>1, <1>3, SpanTypes DEF Keys
  <2> QED
    BY <1>3, <1>5, <1>7, <2>1
<1>9. \/ pos + span < KeySpace /\ next = (pos \div span) * span + span
      \/ next = 0
  BY <1>3, <1>8, NextMultiple
<1>10. /\ pos = (pos \div span) * span + (pos % span)
       /\ pos % span \in 0 .. span - 1 /\ pos \div span \in Nat
  BY <1>3, <1>8, DivMod
<1>11. (pos \div span) * span \in Nat
  BY <1>3, <1>10, MultipleTypes
<1>12. (pos \div span) * span + span <= last + 1
  <2> DEFINE q == pos \div span
             n == (m + 1) * Base
  <2>1. q \in Nat /\ n \in Nat /\ q * span <= pos /\ pos < n * span
    BY <1>3, <1>6, <1>8, <1>10, <1>11
  <2> HIDE DEF q, n
  <2>2. q < n
    <3>1. n <= q => n * span <= q * span
      BY <1>3, <2>1, MultiplesAreOrdered
    <3>2. q * span \in Nat /\ n * span \in Nat
      BY <1>3, <2>1, MultipleTypes
    <3> QED
      BY <1>8, <2>1, <3>1, <3>2
  <2>3. q * span + span <= n * span
    BY <1>3, <2>1, <2>2, MultiplesAreOrdered
  <2> QED
    BY <1>6, <2>3 DEF q, n
<1>13. next \in Keys /\ next <= last + 1
  <2>1. CASE next = 0
    BY <1>3, <1>8, <2>1 DEF Keys
  <2>2. CASE pos + span < KeySpace /\ next = (pos \div span) * span + span
    BY <1>3, <1>8, <1>10, <1>11, <1>12, <2>2 DEF Keys
  <2> QED
    BY <1>9, <2>1, <2>2
<1>14. ByIdSplit(pos, first, last) = [byte |-> (pos \div span) % Base, next |-> next]
  BY DEF ByIdSplit, span
<1>15. (pos \div span) % Base \in Bytes
  BY <1>10, BaseTypes, DivMod DEF Bytes
<1> QED
  BY <1>13, <1>14, <1>15

-----------------------------------------------------------------------------
(* What has been parsed of a path, and which keys that selects.                 *)

Selects(path, cursor) ==
  \A key \in Keys :
    cursor.firstID <= key /\ key <= cursor.lastID
      <=> \A i \in 2 .. cursor.next - 1 : Byte(key, Digits + 1 - i) = path[i]

Parsed(path, cursor) ==
  /\ cursor \in Cursor /\ ParsedBlock(cursor)
  /\ cursor.next <= Len(path) + 1
  /\ cursor.next > 1 => path[1] = ByIdName
  /\ \A i \in 2 .. cursor.next - 1 : path[i] \in Bytes
  /\ Selects(path, cursor)

LEMMA ParsedAtFirst ==
  ASSUME NEW path \in Path
  PROVE  Parsed(path, ParseBegin)
<1>1. ParseBegin \in Cursor /\ ParsedBlock(ParseBegin)
  BY ParseBeginBlock
<1>2. Selects(path, ParseBegin)
  BY SpanTypes DEF Selects, ParseBegin, Keys
<1>3. Len(path) \in Nat
  BY DEF Path
<1> QED
  BY <1>1, <1>2, <1>3 DEF Parsed, ParseBegin

LEMMA ParsedFurther ==
  ASSUME NEW path \in Path, NEW cursor, Parsed(path, cursor),
         ~ParseDone(path, cursor), ~ParseRejects(path, cursor)
  PROVE  Parsed(path, ParseNext(path, cursor))
<1> DEFINE next == ParseNext(path, cursor)
           k == Digits + 1 - cursor.next
<1>1. /\ next \in Cursor /\ ParsedBlock(next) /\ next.next = cursor.next + 1
      /\ cursor.next \in 1 .. Digits + 2 /\ Digits \in Nat
      /\ cursor.next <= Len(path) /\ Len(path) \in Nat
  BY ParseNextBlock, BaseTypes DEF Parsed, ParseNext, ParsedBlock, ParseDone, Path
<1>2. CASE cursor.next = 1
  <2>1. next.firstID = cursor.firstID /\ next.lastID = cursor.lastID /\ next.next = 2
    BY <1>2 DEF ParseNext
  <2>2. Selects(path, next)
    BY <1>2, <2>1 DEF Parsed, Selects
  <2>3. path[1] = ByIdName
    BY <1>2 DEF ParseRejects
  <2> QED
    BY <1>1, <2>1, <2>2, <2>3 DEF Parsed
<1>3. CASE cursor.next # 1
  <2>1. cursor.next # Digits + 2 /\ path[cursor.next] \in Bytes
    BY <1>3 DEF ParseRejects
  <2>2. k \in 0 .. Digits - 1 /\ FreeDigits(cursor.next) = k + 1
    BY <1>1, <1>3, <2>1 DEF FreeDigits
  <2>3. /\ next.firstID = PutByte(cursor.firstID, k, path[cursor.next])
        /\ next.lastID = PutByte(cursor.lastID, k, path[cursor.next])
    BY <1>3 DEF ParseNext
  <2>4. IsBlock(k + 1, cursor.firstID, cursor.lastID)
    BY <2>2 DEF Parsed, ParsedBlock
  <2>5. ASSUME NEW key \in Keys
        PROVE  next.firstID <= key /\ key <= next.lastID
                 <=> \A i \in 2 .. next.next - 1 : Byte(key, Digits + 1 - i) = path[i]
    <3>1. key \in Nat
      BY SpanTypes DEF Keys
    <3>2. next.firstID <= key /\ key <= next.lastID
            <=> /\ cursor.firstID <= key /\ key <= cursor.lastID
                /\ Byte(key, k) = path[cursor.next]
      BY <2>1, <2>2, <2>3, <2>4, <3>1, PutByteSelects
    <3>3. cursor.firstID <= key /\ key <= cursor.lastID
            <=> \A i \in 2 .. cursor.next - 1 : Byte(key, Digits + 1 - i) = path[i]
      BY DEF Parsed, Selects
    <3>4. 2 .. next.next - 1 = (2 .. cursor.next - 1) \cup {cursor.next}
      BY <1>1, <1>3
    <3> QED
      BY <3>2, <3>3, <3>4
  <2>6. \A i \in 2 .. next.next - 1 : path[i] \in Bytes
    BY <1>1, <1>3, <2>1 DEF Parsed
  <2>7. path[1] = ByIdName
    BY <1>1, <1>3 DEF Parsed
  <2> HIDE DEF next
  <2>8. Parsed(path, next)
    BY <1>1, <2>5, <2>6, <2>7 DEF Parsed, Selects
  <2> QED
    BY <2>8 DEF next
<1> QED
  BY <1>2, <1>3

(* The loop ends at the end of the path if it is in \by-id, and only then.        *)
LEMMA ParsedToTheEnd ==
  ASSUME NEW path \in Path, NEW cursor, Parsed(path, cursor),
         ParseDone(path, cursor) \/ ParseRejects(path, cursor)
  PROVE  /\ ParseDone(path, cursor) /\ Len(path) > 0 <=> IsByIDPath(path)
         /\ IsByIDPath(path) => cursor.next = Len(path) + 1
<1>1. /\ cursor.next \in 1 .. Digits + 2 /\ Digits \in Nat
      /\ cursor.next <= Len(path) + 1 /\ Len(path) \in Nat
  BY BaseTypes DEF Parsed, ParsedBlock, Path
<1>2. CASE ParseDone(path, cursor)
  <2>1. cursor.next = Len(path) + 1
    BY <1>1, <1>2 DEF ParseDone
  <2> QED
    BY <1>1, <1>2, <2>1 DEF Parsed, IsByIDPath
<1>3. CASE ~ParseDone(path, cursor)
  <2>1. cursor.next <= Len(path) /\ ParseRejects(path, cursor)
    BY <1>1, <1>3 DEF ParseDone
  <2>2. ~IsByIDPath(path)
    <3>1. CASE cursor.next = 1
      BY <2>1, <3>1 DEF ParseRejects, IsByIDPath
    <3>2. CASE cursor.next = Digits + 2
      BY <1>1, <2>1, <3>2 DEF IsByIDPath
    <3>3. CASE cursor.next # 1 /\ path[cursor.next] \notin Bytes
      BY <1>1, <2>1, <3>3 DEF IsByIDPath
    <3> QED
      BY <2>1, <3>1, <3>2, <3>3 DEF ParseRejects
  <2> QED
    BY <1>3, <2>2
<1> QED
  BY <1>2, <1>3

-----------------------------------------------------------------------------
(* The children of a block.                                                  *)

LEMMA SpansDivide ==
  ASSUME NEW k \in 0 .. Digits
  PROVE  \E c \in Nat : KeySpace = c * Span[k]
<1> DEFINE Whole(j) == \E c \in Nat : Span[j] = c * Span[k]
           S == {j \in k .. Digits : ~Whole(j)}
<1>1. /\ Digits \in Nat /\ k \in Nat /\ Base \in Nat /\ Span[k] \in Nat \ {0}
      /\ S \in SUBSET Nat
  BY BaseTypes, SpanTypes
<1>2. SUFFICES ASSUME S # {} PROVE FALSE
  BY <1>1 DEF KeySpace
<1>3. PICK j \in S : \A i \in S : j <= i
  BY <1>1, <1>2, MinOfNats
<1>4. j # k
  <2>1. Span[k] = 1 * Span[k]
    BY <1>1
  <2> QED
    BY <1>3, <2>1
<1>5. j - 1 \in k .. Digits /\ j - 1 \in 0 .. Digits - 1 /\ (j - 1) + 1 = j /\ j - 1 \notin S
  BY <1>1, <1>3, <1>4
<1>6. PICK c \in Nat : Span[j - 1] = c * Span[k]
  BY <1>5
<1>7. Span[j] = Base * (c * Span[k])
  BY <1>5, <1>6, SpanTypes
<1>8. Span[j] = (Base * c) * Span[k] /\ Base * c \in Nat
  BY <1>1, <1>7, MultipleOfMultiple, MultipleTypes
<1> QED
  BY <1>3, <1>8

(* A child is the keys of its block that have its digit.                        *)
LEMMA ChildRange ==
  ASSUME NEW k \in 0 .. Digits - 1, NEW first, NEW last, IsBlock(k + 1, first, last),
         NEW b \in Bytes, NEW key \in Nat
  PROVE  /\ first + b * Span[k] \in Nat
         /\ first + b * Span[k] <= key /\ key <= first + b * Span[k] + Span[k] - 1
              <=> first <= key /\ key <= last /\ Byte(key, k) = b
<1>1. PICK m \in Nat : /\ first = m * Span[k + 1]
                       /\ last = m * Span[k + 1] + Span[k + 1] - 1
                       /\ last < KeySpace
  BY DEF IsBlock
<1>2. /\ Span[k] \in Nat \ {0} /\ 0 \in 0 .. Span[k] - 1 /\ Span[k] - 1 \in 0 .. Span[k] - 1
      /\ 0 \in Bytes /\ Base - 1 \in Bytes
  BY SpanTypes, BaseTypes DEF Bytes
<1>3. /\ first = (m * Base + 0) * Span[k] + 0
      /\ last = (m * Base + (Base - 1)) * Span[k] + (Span[k] - 1)
  BY <1>1, BlockEnds
<1>4. PutByte(first, k, b) = (m * Base + b) * Span[k] + 0
  BY <1>2, <1>3, PutByteReplacesDigit
<1>5. PutByte(last, k, b) = (m * Base + b) * Span[k] + (Span[k] - 1)
  BY <1>2, <1>3, PutByteReplacesDigit
<1>6. (m * Base + b) * Span[k] = (m * Base) * Span[k] + b * Span[k]
  BY <1>2, BaseTypes, MultipleTypes, Distribute DEF Bytes
<1>7. (m * Base) * Span[k] \in Nat /\ b * Span[k] \in Nat /\ m * Base \in Nat
  BY <1>2, BaseTypes, MultipleTypes DEF Bytes
<1>8. first = (m * Base) * Span[k]
  BY <1>2, <1>3, <1>7
<1>9. /\ PutByte(first, k, b) = first + b * Span[k]
      /\ PutByte(last, k, b) = first + b * Span[k] + Span[k] - 1
  BY <1>2, <1>4, <1>5, <1>6, <1>7, <1>8
<1> QED
  BY <1>7, <1>8, <1>9, PutByteSelects

LEMMA ChildrenFillBlock ==
  ASSUME NEW k \in 0 .. Digits - 1, NEW first, NEW last, IsBlock(k + 1, first, last)
  PROVE  /\ first \in Nat /\ last \in Nat /\ first <= last /\ last < KeySpace
         /\ last + 1 = first + Base * Span[k]
         /\ last - first = Base - 1 <=> k = 0
<1>1. k + 1 \in 0 .. Digits /\ k \in Nat
  BY BaseTypes
<1>2. first \in Keys /\ last \in Keys /\ first <= last /\ last - first + 1 = Span[k + 1]
  BY <1>1, BlockOfKeys
<1>3. /\ first \in Nat /\ last \in Nat /\ last < KeySpace
      /\ Span[k + 1] = Base * Span[k] /\ Span[k] \in Nat \ {0} /\ Base * Span[k] \in Nat
  BY <1>2, SpanTypes, BaseTypes, MultipleTypes DEF Keys
<1>4. last + 1 = first + Base * Span[k]
  BY <1>2, <1>3
<1>5. Base * Span[k] = Base <=> k = 0
  <2>1. k = 0 => Span[k] = 1
    BY SpanAssumption
  <2>2. ASSUME k # 0 PROVE Span[k] > 1
    <3>1. k - 1 \in 0 .. Digits - 1 /\ k - 1 \in 0 .. Digits /\ (k - 1) + 1 = k
      BY <1>1, <2>2, BaseTypes
    <3>2. Span[k - 1] \in Nat \ {0} /\ Span[k] = Base * Span[k - 1]
      BY <3>1, SpanTypes
    <3>3. 1 * Base <= Span[k - 1] * Base
      BY <3>2, BaseTypes, MultiplesAreOrdered
    <3> QED
      BY <3>2, <3>3, BaseTypes
  <2>3. ASSUME Span[k] > 1 PROVE Base * Span[k] # Base
    <3>1. 1 * Base + Base <= Span[k] * Base
      BY <1>3, <2>3, BaseTypes, MultiplesAreOrdered
    <3> QED
      BY <1>3, <3>1, BaseTypes
  <2> QED
    BY <2>1, <2>2, <2>3, BaseTypes
<1> QED
  BY <1>2, <1>3, <1>4, <1>5, BaseTypes

(* byIdSplit of a key gives its digit, and the first key past the child it is in,  *)
(* or 0 if that is past the last key of all.                                  *)
LEMMA SplitOfChild ==
  ASSUME NEW k \in 0 .. Digits - 1, NEW first, NEW last, IsBlock(k + 1, first, last),
         NEW key \in first .. last
  PROVE  LET n == Byte(key, k)
             split == ByIdSplit(key, first, last)
         IN  /\ n \in Bytes /\ split.byte = n
             /\ \/ split.next = first + (n + 1) * Span[k]
                \/ split.next = 0 /\ first + (n + 1) * Span[k] = KeySpace
<1> DEFINE n == Byte(key, k)
           span == Span[k]
           q == key \div span
           sum == (key + span) % KeySpace
<1>1. /\ first \in Nat /\ last \in Nat /\ last < KeySpace /\ key \in Nat
      /\ span \in Nat \ {0} /\ KeySpace \in Nat \ {0} /\ key \in 0 .. KeySpace - 1
  <2>1. first \in Nat /\ last \in Nat /\ last < KeySpace
    BY ChildrenFillBlock
  <2>2. k \in 0 .. Digits
    BY BaseTypes
  <2> QED
    BY <2>1, <2>2, SpanTypes
<1>2. Span[SplitDigit(first, last)] = span
  <2>1. k + 1 \in 1 .. Digits
    BY BaseTypes
  <2>2. /\ SplitDigit(first, last) \in 0 .. Digits - 1
        /\ Base * Span[SplitDigit(first, last)] = Span[k + 1]
    BY <2>1, SplitDigitOfBlock
  <2> DEFINE other == Span[SplitDigit(first, last)]
  <2>3. other \in Nat /\ Base * other = Base * span
    <3>1. \A j \in 0 .. Digits - 1 : j \in 0 .. Digits
      BY BaseTypes
    <3>2. Span[k + 1] = Base * span
      BY SpanTypes
    <3> HIDE DEF span
    <3> QED
      BY <2>2, <3>1, <3>2, SpanTypes
  <2> HIDE DEF other, span
  <2>4. other * Base + 0 = span * Base + 0 /\ 0 \in 0 .. Base - 1
    BY <1>1, <2>3, BaseTypes
  <2>5. other = span
    BY <1>1, <2>3, <2>4, BaseTypes, DivUnique
  <2> QED
    BY <2>5 DEF other
<1>3. ByIdSplit(key, first, last) = [byte |-> q % Base, next |-> sum - (sum % span)]
  BY <1>2 DEF ByIdSplit
<1>4. n = q % Base /\ n \in Bytes /\ q \in Nat
  BY <1>1, BaseTypes, DivMod DEF Byte, Bytes
<1>5. span <= KeySpace
  <2>1. Span[k + 1] <= last + 1
    <3>1. k + 1 \in 0 .. Digits
      BY BaseTypes
    <3> QED
      BY <3>1, BlockEnd
  <2>2. 1 * span <= Base * span /\ Span[k + 1] = Base * span
    BY <1>1, BaseTypes, SpanTypes, MultiplesAreOrdered
  <2>3. Base * span \in Nat
    BY <1>1, BaseTypes, MultipleTypes
  <2> QED
    BY <1>1, <2>1, <2>2, <2>3
<1>6. first + n * span <= key /\ key <= first + n * span + span - 1 /\ n * span \in Nat
  <2>1. n \in Nat
    BY <1>4, BaseTypes DEF Bytes
  <2> QED
    BY <1>1, <1>4, <2>1, ChildRange, MultipleTypes
<1>7. q * span = first + n * span
  <2>1. PICK m \in Nat : first = m * Span[k + 1]
    BY DEF IsBlock
  <2>2. first = (m * Base) * span /\ m * Base \in Nat /\ n \in Nat
    BY <1>1, <1>4, <2>1, BaseTypes, SpanTypes, MultipleOfMultiple, MultipleTypes DEF Bytes
  <2>3. (m * Base + n) * span = first + n * span
    BY <1>1, <2>2, Distribute
  <2> DEFINE p == m * Base + n
  <2>4. p \in Nat /\ p * span <= key /\ key <= p * span + span - 1
    BY <1>1, <1>6, <2>2, <2>3
  <2> HIDE DEF p
  <2>5. q = p
    BY <1>1, <2>4, BlockOfQuotient
  <2> QED
    BY <2>3, <2>5 DEF p
<1>8. (n + 1) * span = n * span + span
  BY <1>1, <1>4, BaseTypes, Distribute DEF Bytes
<1>9. \/ key + span < KeySpace /\ sum - (sum % span) = q * span + span
      \/ key + span >= KeySpace /\ sum - (sum % span) = 0
  BY <1>1, <1>5, NextMultiple
<1> HIDE DEF n, q, sum
<1>10. ASSUME key + span >= KeySpace PROVE first + (n + 1) * span = KeySpace
  <2>1. PICK c \in Nat : KeySpace = c * span
    BY BaseTypes, SpansDivide
  <2>2. q * span <= key /\ key <= q * span + span - 1 /\ q * span \in Nat
    BY <1>1, <1>4, <1>6, <1>7, MultipleTypes
  <2>3. q < c
    <3>1. c <= q => c * span <= q * span
      BY <1>1, <1>4, <2>1, MultiplesAreOrdered
    <3> QED
      BY <1>1, <1>4, <2>1, <2>2, <3>1
  <2>4. ~(q + 1 < c)
    <3>1. q + 1 < c => (q + 1) * span + span <= c * span
      BY <1>1, <1>4, <2>1, MultiplesAreOrdered
    <3>2. (q + 1) * span = q * span + span
      BY <1>1, <1>4, Distribute
    <3> QED
      BY <1>1, <1>10, <2>1, <2>2, <3>1, <3>2
  <2>5. q + 1 = c
    BY <1>4, <2>1, <2>3, <2>4
  <2>6. (q + 1) * span = q * span + span
    BY <1>1, <1>4, Distribute
  <2> QED
    BY <1>1, <1>6, <1>7, <1>8, <2>1, <2>2, <2>5, <2>6
<1> QED
  BY <1>1, <1>3, <1>4, <1>6, <1>7, <1>8, <1>9, <1>10 DEF n

(* The keys under a child of a directory.                                     *)
LEMMA KeysOfChild ==
  ASSUME NEW path \in Path, IsByIDDirectory(path), NEW b \in Bytes
  PROVE  /\ Len(path) \in 1 .. Digits /\ Digits - Len(path) \in 0 .. Digits - 1
         /\ Append(path, b) \in Path /\ Len(Append(path, b)) = Len(path) + 1
         /\ KeysUnder(Append(path, b)) =
              {key \in KeysUnder(path) : Byte(key, Digits - Len(path)) = b}
<1>1. Len(path) \in 1 .. Digits /\ Digits \in Nat \ {0} /\ path \in Seq(Name)
  BY BaseTypes DEF IsByIDDirectory, IsByIDPath, Path
<1>2. /\ Append(path, b) \in Path /\ Len(Append(path, b)) = Len(path) + 1
      /\ \A i \in 1 .. Len(path) : Append(path, b)[i] = path[i]
      /\ Append(path, b)[Len(path) + 1] = b
  BY <1>1, NameAssumption DEF Path
<1>3. 2 .. Len(path) + 1 = (2 .. Len(path)) \cup {Len(path) + 1}
  BY <1>1
<1>4. Digits + 1 - (Len(path) + 1) = Digits - Len(path)
  BY <1>1
<1> HIDE DEF Path
<1> QED
  BY <1>1, <1>2, <1>3, <1>4 DEF KeysUnder
=============================================================================
