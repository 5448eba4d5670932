------------------------------ MODULE ByIdNames ------------------------------
(***************************************************************************)
(* The arithmetic behind the \by-id directory of the mounted filesystem:   *)
(* a 64-bit file key is published as eight nested directories, one per     *)
(* byte, most significant first (\by-id\00\12\...).  The code works on      *)
(* ranges of keys, firstID..lastID, with shifts and masks; here a key has   *)
(* Digits digits in base Base (8 and 256 in the code), Span[k] is the      *)
(* weight 1ULL << (8 * k) of digit k, and arithmetic is modulo KeySpace    *)
(* (2^64 in the code).                                                     *)
(*                                                                         *)
(* A path is the sequence of its components.  A component is a number:     *)
(* 0..Base-1 are the two-digit hexadecimal names, ByIdName is "by-id", any  *)
(* other number in Name another name.  Names that differ by case only are   *)
(* the same number, as they are the same to PrjFileNameCompare, and numbers *)
(* compare as PrjFileNameCompare orders the names of one directory.         *)
(***************************************************************************)
EXTENDS Integers, Sequences

CONSTANTS Base, Digits, Span, Name, ByIdName

ASSUME BaseAssumption == Base \in Nat /\ Base > 1
ASSUME DigitsAssumption == Digits \in Nat \ {0}
ASSUME SpanAssumption ==
  /\ Span \in [0..Digits -> Nat \ {0}]
  /\ Span[0] = 1
  /\ \A k \in 0 .. Digits - 1 : Span[k + 1] = Base * Span[k]

Bytes == 0 .. Base - 1
KeySpace == Span[Digits]
Keys == 0 .. KeySpace - 1

ASSUME NameAssumption ==
  /\ Name \subseteq Nat
  /\ Bytes \subseteq Name
  /\ ByIdName \in Name \ Bytes

Path == Seq(Name)

(* Digit k of a key, the least significant digit being digit 0.            *)
Byte(key, k) == (key \div Span[k]) % Base

(* Mutant of PutByte: the old byte is not masked out.                      *)
PutByteUnmasked(id, k, byte) == id + byte * Span[k]

(* (id & ~(0xFF << 8k)) | (byte << 8k)                                     *)
PutByte(id, k, byte) == id - Byte(id, k) * Span[k] + byte * Span[k]

-----------------------------------------------------------------------------
(* parseByIDName, one component at a time: a cursor holds the index of the  *)
(* next component and the range of keys the components so far select.      *)

Cursor == [next : Nat \ {0}, firstID : Keys, lastID : Keys]

ParseBegin == [next |-> 1, firstID |-> 0, lastID |-> KeySpace - 1]

ParseDone(path, cursor) == cursor.next > Len(path)

(* The component makes parseByIDName return false.                         *)
ParseRejects(path, cursor) ==
  LET name == path[cursor.next]
  IN  IF cursor.next = 1
      THEN name # ByIdName
      ELSE cursor.next = Digits + 2 \/ name \notin Bytes

ParseNext(path, cursor) ==
  LET k == Digits + 1 - cursor.next
      put(id) == IF cursor.next = 1 THEN id ELSE PutByte(id, k, path[cursor.next])
  IN  [next |-> cursor.next + 1,
       firstID |-> put(cursor.firstID),
       lastID |-> put(cursor.lastID)]

-----------------------------------------------------------------------------
(* byIdSplit: the name of the child of firstID..lastID that holds pos, and  *)
(* the first key past that child, both as 64-bit unsigned values.          *)

SplitDigit(first, last) ==
  CHOOSE k \in 0 .. Digits - 1 : Span[k + 1] = last - first + 1

ByIdSplit(pos, first, last) ==
  LET span == Span[SplitDigit(first, last)]
      sum == (pos + span) % KeySpace
  IN  [byte |-> (pos \div span) % Base, next |-> sum - (sum % span)]

-----------------------------------------------------------------------------
(* What the ranges are for: the keys published under a path, digit by digit *)
(* and without any range.  The callbacks never compute this.               *)

IsByIDPath(path) ==
  /\ Len(path) \in 1 .. Digits + 1
  /\ path[1] = ByIdName
  /\ \A i \in 2 .. Len(path) : path[i] \in Bytes

IsByIDDirectory(path) == IsByIDPath(path) /\ Len(path) <= Digits

KeysUnder(path) ==
  {key \in Keys : \A i \in 2 .. Len(path) : Byte(key, Digits + 1 - i) = path[i]}

=============================================================================
