-------------------------- MODULE Directives_proofs ---------------------------
(***************************************************************************)
(* Proofs about definition files: how they are compiled, and how they are parsed.  *)
(*                                                                         *)
(* DefCompiler, for any directives, of any names and uses, and any depth of the    *)
(* stack: types are nested where their names say (NestedExactly), a type is         *)
(* written after what its bases and its fields need (DefinedFirst), and the names   *)
(* written are taken for the types that were meant (NamesFound).  Until the types    *)
(* are nested, the invariant says which have been moved (DOMAIN renames), and        *)
(* where each is.  While they are written, the stack is a depth first search: over   *)
(* a type in its body there are only types within it (Beneath), so that a type that  *)
(* is met again is not one that is being written but one that is complete            *)
(* (MetAgain); each call knows which of its callees are done (Pending), the types    *)
(* around a type that is written have been met (Visits), and a type that is complete *)
(* is so with all that is in it (Completed).                                      *)
(*                                                                         *)
(* DirectiveFiles, for any texts and numbers: the records of a database are the      *)
(* blocks of its text (RecordsStandForBlocks).  The invariant, Blocks, says it of    *)
(* the lines so far, and which block is open: the last one of its kind, in which     *)
(* there is no END yet (OneIsOpen), so that a line goes to the last record of a       *)
(* kind and that record is the block's.                                           *)
(***************************************************************************)
EXTENDS DefCompiler, DirectiveFiles, FiniteSetTheorems, WellFoundedInduction, TLAPS

Path == Seq(Name)

-----------------------------------------------------------------------------
(* The invariant.                                                           *)

Early == {"insert", "nest", "depend", "declare"}
Late == {"depend", "declare", "generate", "done"}

(* Nothing is written before the types are declared.                            *)
Shape ==
  /\ input \in Inputs
  /\ pc \in Early \cup {"generate", "done", "failed", "crashed"}
  /\ pc \in Early => stack = <<>> /\ visited = {} /\ written = <<>>

Inserted ==
  pc = "insert" =>
    /\ unread \subseteq input
    /\ DOMAIN renames = {}
    /\ DOMAIN types = {<<d.name>> : d \in input \ unread}
    /\ \A d \in input \ unread : types[<<d.name>>] = d

(* Where each type is when those named in renames have been moved.               *)
UniqueNames == \A d, e \in input : d.name = e.name => d = e

Placed ==
  /\ UniqueNames
  /\ DOMAIN renames \subseteq {n \in Names : Len(n) > 1}
  /\ \A n \in DOMAIN renames :
       /\ renames[n] = Nested(n)
       /\ \A k \in 1 .. Len(n) : SubSeq(n, 1, k) \in Names
  /\ DOMAIN types = {<<n>> : n \in Names \ DOMAIN renames}
                      \cup {Nested(n) : n \in DOMAIN renames}
  /\ \A n \in Names : types[PathOf(n)] \in input /\ types[PathOf(n)].name = n

Nesting == pc \in Late \cup {"nest"} => Placed

EachMoved == \A n \in Names : Len(n) > 1 => n \in DOMAIN renames

AllNested == pc \in Late => EachMoved

(* An edge joins two types of one scope, and each dependency of a type is on the    *)
(* type itself, on one nested in it, or follows an edge.                          *)
Leads(p, q) == \E n \in 0 .. Len(p) - 1 :
  /\ n < Len(q)
  /\ [scope |-> SubSeq(p, 1, n), from |-> SubSeq(p, 1, n + 1), to |-> SubSeq(q, 1, n + 1)] \in edges

Joins(e) == /\ e.from \in DOMAIN types /\ e.to \in DOMAIN types
            /\ Front(e.from) = Front(e.to)

Needs(p, name) == /\ Found(name)
                  /\ IsPrefix(p, PathOf(name)) \/ Leads(p, PathOf(name))

Edged ==
  pc \in {"declare", "generate", "done"} =>
    /\ \A e \in edges : Joins(e)
    /\ \A p \in DOMAIN types : \A name \in Dependencies(types[p]) : Needs(p, name)

-----------------------------------------------------------------------------
(* While types are written.                                                  *)

Closed(p) == \E i \in Positions : Is(i, "close", p)
Calling(k) == stack[k].part = "dependencies"
Writing(k) == stack[k].part = "body"

Frame == [type : Path, part : {"dependencies", "body"}, left : SUBSET Path]

(* What a call has to write: the types nested in its own, or those it depends on.  *)
Targets(k) ==
  IF Writing(k) THEN Children(stack[k].type)
  ELSE {e.to : e \in {f \in edges : f.from = stack[k].type}}

Frames ==
  /\ stack \in Seq(Frame) /\ stack # <<>>
  /\ stack[1].type = <<>> /\ Writing(1)
  /\ \A k \in 2 .. Len(stack) : stack[k].type \in DOMAIN types
  /\ \A k \in 1 .. Len(stack) : stack[k].left \subseteq Targets(k)

(* Over a type in its body are types within it.                               *)
Beneath ==
  \A j, k \in 1 .. Len(stack) :
    j < k /\ Writing(j) => IsStrictPrefix(stack[j].type, stack[k].type)

(* A call has done what it has left, except for what it waits for.               *)
Done(k, p) ==
  \/ p \in stack[k].left
  \/ Closed(p)
  \/ k < Len(stack) /\ stack[k + 1].type = p

Pending == \A k \in 1 .. Len(stack) : \A p \in Targets(k) : Done(k, p)

(* The types met so far are complete, or in their bodies; those around them have   *)
(* been met, and those they depend on are complete.                              *)
Above(p) == {SubSeq(p, 1, n) : n \in 1 .. Len(p) - 1}

Met(p) == Closed(p) \/ \E k \in 1 .. Len(stack) : Writing(k) /\ stack[k].type = p
Opened(p) == \E i \in Positions : Is(i, "open", p)
Provided(p) == \A e \in edges : e.from = p => Closed(e.to)

Visits ==
  /\ visited \subseteq DOMAIN types
  /\ \A p \in visited : Met(p) /\ Opened(p) /\ Provided(p) /\ Above(p) \subseteq visited
  /\ \A k \in 2 .. Len(stack) : /\ Writing(k) => stack[k].type \in visited
                                /\ Above(stack[k].type) \subseteq visited

Completed ==
  \A p \in DOMAIN types : Closed(p) =>
    p \in visited /\ \A q \in DOMAIN types : IsPrefix(p, q) => Closed(q)

(* What is written: of types, the defs and aliases of the root among them.        *)
Entry == [do : {"declare", "open", "close"}, type : Path,
          says : SUBSET [by : Uses, type : Name, as : Path]]

Entries ==
  /\ written \in Seq(Entry)
  /\ \A i \in Positions : written[i].type \in DOMAIN types
  /\ \A n \in Names : Len(n) = 1 /\ Declares(types[Nested(n)]) =>
       \E i \in Positions : written[i].type = Nested(n)

Search ==
  pc = "generate" => Frames /\ Beneath /\ Pending /\ Visits /\ Completed /\ Entries

(* A type in its body is not complete.                                          *)
Incomplete ==
  pc = "generate" => \A k \in 2 .. Len(stack) : \A p :
                       Writing(k) /\ stack[k].type = p => ~Closed(p)

IInv ==
  /\ Shape /\ Inserted /\ Nesting /\ AllNested /\ Edged /\ Search /\ Incomplete
  /\ DefinedBeforeUse /\ NamesResolve

-----------------------------------------------------------------------------
(* Sequences and their prefixes.                                              *)

LEMMA SameSequences ==
  ASSUME NEW S, NEW s \in Seq(S), NEW t \in Seq(S), Len(s) = Len(t),
         \A i \in 1 .. Len(s) : s[i] = t[i]
  PROVE  s = t
  OBVIOUS

LEMMA One ==
  /\ \A n \in Nat \ {0} : ~(n > 1) => n = 1
  /\ \A n \in Nat : n - 1 = 0 => n = 1
  /\ \A n \in Nat : n = 1 => ~(n > 1)
<1>1. \A n \in Nat \ {0} : ~(n > 1) => n = 1
  OBVIOUS
<1>2. \A n \in Nat : n - 1 = 0 => n = 1
  OBVIOUS
<1>3. \A n \in Nat : n = 1 => ~(n > 1)
  OBVIOUS
<1> QED
  BY <1>1, <1>2, <1>3

LEMMA Starts ==
  ASSUME NEW S, NEW s \in Seq(S), NEW n \in 0 .. Len(s)
  PROVE  /\ SubSeq(s, 1, n) \in Seq(S)
         /\ Len(SubSeq(s, 1, n)) = n
         /\ \A i \in 1 .. n : SubSeq(s, 1, n)[i] = s[i]
<1>1. n \in Nat /\ n <= Len(s) /\ Len(s) \in Nat
  OBVIOUS
<1>2. SubSeq(s, 1, n) \in Seq(S)
  BY <1>1
<1>3. Len(SubSeq(s, 1, n)) = n
  BY <1>1
<1>4. \A i \in 1 .. n : SubSeq(s, 1, n)[i] = s[i]
  BY <1>1
<1> QED
  BY <1>2, <1>3, <1>4

LEMMA WholeIsStart ==
  ASSUME NEW S, NEW s \in Seq(S)
  PROVE  SubSeq(s, 1, Len(s)) = s /\ SubSeq(s, 1, 0) = <<>>
<1>1. Len(s) \in 0 .. Len(s) /\ 0 \in 0 .. Len(s)
  OBVIOUS
<1>2. SubSeq(s, 1, Len(s)) = s
  BY <1>1, Starts, SameSequences
<1>3. SubSeq(s, 1, 0) = <<>>
  OBVIOUS
<1> QED
  BY <1>2, <1>3

(* The start of a start is a start.                                           *)
LEMMA StartOfStart ==
  ASSUME NEW S, NEW s \in Seq(S), NEW n \in 0 .. Len(s), NEW m \in 0 .. n
  PROVE  SubSeq(SubSeq(s, 1, n), 1, m) = SubSeq(s, 1, m)
<1> DEFINE t == SubSeq(s, 1, n)
<1>1. Len(s) \in Nat /\ n \in Nat /\ m \in 0 .. Len(s)
  OBVIOUS
<1>2. t \in Seq(S) /\ Len(t) = n /\ \A i \in 1 .. n : t[i] = s[i]
  BY Starts
<1> HIDE DEF t
<1>3. /\ SubSeq(t, 1, m) \in Seq(S) /\ Len(SubSeq(t, 1, m)) = m
      /\ \A i \in 1 .. m : SubSeq(t, 1, m)[i] = t[i]
  BY <1>2, Starts
<1>4. /\ SubSeq(s, 1, m) \in Seq(S) /\ Len(SubSeq(s, 1, m)) = m
      /\ \A i \in 1 .. m : SubSeq(s, 1, m)[i] = s[i]
  BY <1>1, Starts
<1>5. SubSeq(t, 1, m) = SubSeq(s, 1, m)
  <2>1. \A i \in 1 .. m : i \in 1 .. n
    BY <1>1
  <2> QED
    BY <1>2, <1>3, <1>4, <2>1, SameSequences
<1> QED
  BY <1>5 DEF t

LEMMA PrefixIsStart ==
  ASSUME NEW S, NEW s \in Seq(S), NEW t \in Seq(S)
  PROVE  /\ IsPrefix(s, t) <=> Len(s) <= Len(t) /\ s = SubSeq(t, 1, Len(s))
         /\ IsPrefix(s, t) <=> Len(s) <= Len(t) /\ \A i \in 1 .. Len(s) : s[i] = t[i]
<1>1. Len(s) \in Nat /\ Len(t) \in Nat
  OBVIOUS
<1>2. IsPrefix(s, t) <=> Len(s) <= Len(t) /\ s = SubSeq(t, 1, Len(s))
  BY WholeIsStart DEF IsPrefix
<1>3. ASSUME Len(s) <= Len(t)
      PROVE  s = SubSeq(t, 1, Len(s)) <=> \A i \in 1 .. Len(s) : s[i] = t[i]
  <2>1. Len(s) \in 0 .. Len(t)
    BY <1>1, <1>3
  <2> DEFINE u == SubSeq(t, 1, Len(s))
  <2>2. u \in Seq(S) /\ Len(u) = Len(s) /\ \A i \in 1 .. Len(s) : u[i] = t[i]
    BY <2>1, Starts
  <2> HIDE DEF u
  <2>3. s = u <=> \A i \in 1 .. Len(s) : s[i] = t[i]
    BY <2>2, SameSequences
  <2> QED
    BY <2>3 DEF u
<1> QED
  BY <1>2, <1>3

LEMMA StartIsPrefix ==
  ASSUME NEW S, NEW s \in Seq(S), NEW n \in 0 .. Len(s)
  PROVE  IsPrefix(SubSeq(s, 1, n), s)
<1>1. SubSeq(s, 1, n) \in Seq(S) /\ Len(SubSeq(s, 1, n)) = n /\ n <= Len(s)
  BY Starts
<1> QED
  BY <1>1, PrefixIsStart

LEMMA PrefixOfPrefix ==
  ASSUME NEW S, NEW s \in Seq(S), NEW t \in Seq(S), NEW u \in Seq(S),
         IsPrefix(s, t), IsPrefix(t, u)
  PROVE  IsPrefix(s, u)
<1>1. /\ Len(s) <= Len(t) /\ \A i \in 1 .. Len(s) : s[i] = t[i]
      /\ Len(t) <= Len(u) /\ \A i \in 1 .. Len(t) : t[i] = u[i]
  BY PrefixIsStart
<1>2. Len(s) \in Nat /\ Len(t) \in Nat /\ Len(u) \in Nat
  OBVIOUS
<1>3. Len(s) <= Len(u) /\ \A i \in 1 .. Len(s) : s[i] = u[i]
  BY <1>1, <1>2
<1> QED
  BY <1>3, PrefixIsStart

(* A prefix is strict exactly if it is shorter.                                 *)
LEMMA StrictIsShorter ==
  ASSUME NEW S, NEW s \in Seq(S), NEW t \in Seq(S)
  PROVE  IsStrictPrefix(s, t) <=> IsPrefix(s, t) /\ Len(s) < Len(t)
<1>1. Len(s) \in Nat /\ Len(t) \in Nat
  OBVIOUS
<1>2. ASSUME IsPrefix(s, t), Len(s) = Len(t) PROVE s = t
  BY <1>2, PrefixIsStart, SameSequences
<1>3. ASSUME IsPrefix(s, t) PROVE Len(s) <= Len(t)
  BY <1>3 DEF IsPrefix
<1> QED
  BY <1>1, <1>2, <1>3 DEF IsStrictPrefix

LEMMA FrontIsStart ==
  ASSUME NEW S, NEW s \in Seq(S), s # <<>>
  PROVE  /\ Len(s) \in Nat \ {0} /\ Len(s) - 1 \in 0 .. Len(s)
         /\ Front(s) = SubSeq(s, 1, Len(s) - 1)
         /\ Front(s) \in Seq(S) /\ Len(Front(s)) = Len(s) - 1
         /\ \A i \in 1 .. Len(s) - 1 : Front(s)[i] = s[i]
         /\ Last(s) = s[Len(s)] /\ Last(s) \in S
         /\ IsStrictPrefix(Front(s), s)
<1>1. Len(s) \in Nat \ {0}
  OBVIOUS
<1>2. Len(s) - 1 \in 0 .. Len(s)
  BY <1>1
<1>3. Front(s) = SubSeq(s, 1, Len(s) - 1)
  BY DEF Front
<1>4. /\ Front(s) \in Seq(S) /\ Len(Front(s)) = Len(s) - 1
      /\ \A i \in 1 .. Len(s) - 1 : Front(s)[i] = s[i]
  BY <1>2, <1>3, Starts
<1>5. IsPrefix(Front(s), s)
  BY <1>2, <1>3, StartIsPrefix
<1>6. IsStrictPrefix(Front(s), s)
  BY <1>1, <1>4, <1>5, StrictIsShorter
<1>7. Last(s) = s[Len(s)] /\ Last(s) \in S
  BY <1>1 DEF Last
<1> QED
  BY <1>1, <1>2, <1>3, <1>4, <1>6, <1>7

LEMMA FrontOfStart ==
  ASSUME NEW s \in Path, NEW n \in Nat, n + 1 \in 1 .. Len(s)
  PROVE  Front(SubSeq(s, 1, n + 1)) = SubSeq(s, 1, n)
<1>1. /\ s \in Seq(Name) /\ n + 1 \in 0 .. Len(s) /\ n \in 0 .. n + 1 /\ (n + 1) - 1 = n
  BY DEF Path
<1>2. Len(SubSeq(s, 1, n + 1)) = n + 1
  BY <1>1, Starts
<1>3. Front(SubSeq(s, 1, n + 1)) = SubSeq(SubSeq(s, 1, n + 1), 1, n)
  BY <1>1, <1>2 DEF Front
<1> QED
  BY <1>1, <1>3, StartOfStart

(* Two prefixes of one sequence are prefixes of one another.                     *)
LEMMA PrefixesAreOrdered ==
  ASSUME NEW S, NEW s \in Seq(S), NEW t \in Seq(S), NEW u \in Seq(S),
         IsPrefix(s, u), IsPrefix(t, u), Len(s) <= Len(t)
  PROVE  IsPrefix(s, t)
<1>1. /\ Len(s) <= Len(u) /\ \A i \in 1 .. Len(s) : s[i] = u[i]
      /\ Len(t) <= Len(u) /\ \A i \in 1 .. Len(t) : t[i] = u[i]
  BY PrefixIsStart
<1>2. Len(s) \in Nat /\ Len(t) \in Nat /\ Len(u) \in Nat
  OBVIOUS
<1>3. \A i \in 1 .. Len(s) : s[i] = t[i]
  BY <1>1, <1>2
<1> QED
  BY <1>3, PrefixIsStart

-----------------------------------------------------------------------------
(* The prefix that addDependencyToType finds two paths to share.                  *)

(* A nonempty set of naturals below a bound has a greatest element.               *)
LEMMA GreatestOf ==
  ASSUME NEW bound \in Nat, NEW S \in SUBSET (0 .. bound), S # {}
  PROVE  \E n \in S : \A m \in S : m <= n
<1> DEFINE rest == {bound - n : n \in S}
<1>1. rest \subseteq Nat /\ rest # {}
  <2>1. \A n \in 0 .. bound : bound - n \in Nat
    OBVIOUS
  <2> QED
    BY <2>1
<1>2. IsWellFoundedOn(OpToRel(<, Nat), Nat)
  BY NatLessThanWellFounded
<1>3. PICK least \in rest : \A r \in rest : ~(r < least)
  <2>1. PICK least \in rest : \A r \in rest : <<r, least>> \notin OpToRel(<, Nat)
    BY <1>1, <1>2, WFMin
  <2> QED
    BY <1>1, <2>1 DEF OpToRel
<1>4. PICK n \in S : least = bound - n
  BY DEF rest
<1>5. ASSUME NEW m \in S PROVE m <= n
  <2>1. bound - m \in rest /\ bound \in Nat /\ m \in Nat /\ n \in Nat
    BY DEF rest
  <2>2. ~(bound - m < bound - n)
    BY <1>3, <1>4, <2>1
  <2> QED
    BY <2>1, <2>2
<1> QED
  BY <1>5

LEMMA CommonIsShared ==
  ASSUME NEW p \in Path, NEW q \in Path
  PROVE  /\ Common(p, q) \in 0 .. Len(p) /\ Common(p, q) <= Len(q)
         /\ SubSeq(p, 1, Common(p, q)) = SubSeq(q, 1, Common(p, q))
<1> DEFINE shared == CommonPrefixes({p, q})
           lengths == {Len(s) : s \in shared}
<1>1. Len(p) \in Nat /\ Len(q) \in Nat
  BY DEF Path
<1>2. ASSUME NEW s \in shared
      PROVE  s \in Path /\ IsPrefix(s, p) /\ IsPrefix(s, q)
  <2>1. IsPrefix(s, p) /\ IsPrefix(s, q)
    BY <1>2 DEF CommonPrefixes
  <2>2. PICK t \in {p, q} : s \in Prefixes(t)
    BY <1>2 DEF CommonPrefixes
  <2>3. PICK n \in 0 .. Len(t) : s = SubSeq(t, 1, n)
    BY <2>2 DEF Prefixes
  <2>4. s \in Path
    BY <2>3, Starts DEF Path
  <2> QED
    BY <2>1, <2>4
<1>3. <<>> \in shared
  <2>1. <<>> \in Prefixes(p)
    BY <1>1, WholeIsStart DEF Prefixes, Path
  <2>2. \A t \in {p, q} : IsPrefix(<<>>, t)
    BY <1>1, WholeIsStart DEF IsPrefix, Path
  <2> QED
    BY <2>1, <2>2 DEF CommonPrefixes
<1>4. lengths \in SUBSET (0 .. Len(p)) /\ lengths # {}
  <2>1. ASSUME NEW s \in shared PROVE Len(s) \in 0 .. Len(p)
    <3>1. s \in Path /\ IsPrefix(s, p)
      BY <1>2
    <3> QED
      BY <1>1, <3>1 DEF IsPrefix, Path
  <2> QED
    BY <1>3, <2>1
<1>5. PICK n \in lengths : \A m \in lengths : m <= n
  BY <1>1, <1>4, GreatestOf
<1>6. PICK longest \in shared : \A other \in shared : Len(other) <= Len(longest)
  BY <1>5
<1> DEFINE common == LongestCommonPrefix({p, q})
<1>7. common \in shared
  BY <1>6 DEF LongestCommonPrefix
<1>8. common \in Path /\ IsPrefix(common, p) /\ IsPrefix(common, q)
  BY <1>2, <1>7
<1>9. Common(p, q) = Len(common)
  BY DEF Common
<1> HIDE DEF common
<1>10. /\ Len(common) \in Nat /\ Len(common) <= Len(p) /\ Len(common) <= Len(q)
       /\ common = SubSeq(p, 1, Len(common)) /\ common = SubSeq(q, 1, Len(common))
  BY <1>8, PrefixIsStart DEF Path
<1> QED
  BY <1>1, <1>9, <1>10

-----------------------------------------------------------------------------
(* Where a name leads when all types are nested.                                *)

LEMMA NestedPath ==
  ASSUME NEW n \in Name
  PROVE  /\ Len(n) \in Nat \ {0}
         /\ Nested(n) \in Path /\ Len(Nested(n)) = Len(n)
         /\ \A i \in 1 .. Len(n) : Nested(n)[i] = <<n[i]>>
         /\ Nested(n) # <<>>
<1>1. Len(n) \in Nat \ {0} /\ n \in Seq(Part)
  BY DEF Name
<1>2. \A i \in 1 .. Len(n) : <<n[i]>> \in Name
  BY <1>1 DEF Name
<1>3. Nested(n) \in Path
  BY <1>1, <1>2 DEF Nested, Path
<1>4. Len(Nested(n)) = Len(n)
  BY <1>1 DEF Nested
<1>5. \A i \in 1 .. Len(n) : Nested(n)[i] = <<n[i]>>
  BY DEF Nested
<1>6. Nested(n) # <<>>
  BY <1>1, <1>4
<1> QED
  BY <1>1, <1>3, <1>4, <1>5, <1>6

LEMMA NestedInjective ==
  ASSUME NEW n \in Name, NEW m \in Name, Nested(n) = Nested(m)
  PROVE  n = m
<1>1. /\ Len(n) = Len(m) /\ Len(n) \in Nat
      /\ \A i \in 1 .. Len(n) : <<n[i]>> = <<m[i]>>
  BY NestedPath
<1>2. \A i \in 1 .. Len(n) : n[i] = m[i]
  BY <1>1
<1> QED
  BY <1>1, <1>2, SameSequences DEF Name

(* The path of the start of a name is the start of its path.                      *)
LEMMA NestedStart ==
  ASSUME NEW n \in Name, NEW k \in 1 .. Len(n)
  PROVE  /\ SubSeq(n, 1, k) \in Name /\ Len(SubSeq(n, 1, k)) = k
         /\ Nested(SubSeq(n, 1, k)) = SubSeq(Nested(n), 1, k)
<1> DEFINE m == SubSeq(n, 1, k)
           s == SubSeq(Nested(n), 1, k)
<1>1. Len(n) \in Nat /\ n \in Seq(Part) /\ k \in 0 .. Len(n) /\ k \in Nat \ {0}
  BY NestedPath DEF Name
<1>2. m \in Seq(Part) /\ Len(m) = k /\ \A i \in 1 .. k : m[i] = n[i]
  BY <1>1, Starts
<1>3. s \in Path /\ Len(s) = k /\ \A i \in 1 .. k : s[i] = <<n[i]>>
  <2>1. Nested(n) \in Seq(Name) /\ Len(Nested(n)) = Len(n)
    BY NestedPath DEF Path
  <2>2. s \in Seq(Name) /\ Len(s) = k /\ \A i \in 1 .. k : s[i] = Nested(n)[i]
    BY <1>1, <2>1, Starts
  <2>3. \A i \in 1 .. k : i \in 1 .. Len(n)
    BY <1>1
  <2>4. \A i \in 1 .. k : s[i] = <<n[i]>>
    BY <2>2, <2>3, NestedPath
  <2> QED
    BY <2>2, <2>4 DEF Path
<1> HIDE DEF m, s
<1>4. m \in Name
  BY <1>1, <1>2 DEF Name
<1>5. Nested(m) \in Path /\ Len(Nested(m)) = k /\ \A i \in 1 .. k : Nested(m)[i] = <<m[i]>>
  BY <1>2, <1>4, NestedPath
<1>6. Nested(m) = s
  BY <1>2, <1>3, <1>5, SameSequences DEF Path
<1> QED
  BY <1>2, <1>4, <1>6 DEF m, s

(* A name of one part is its own path.                                          *)
LEMMA NestedShort ==
  ASSUME NEW n \in Name
  PROVE  Len(n) = 1 <=> Nested(n) = <<n>>
<1>1. Nested(n) \in Path /\ Len(Nested(n)) = Len(n) /\ \A i \in 1 .. Len(n) : Nested(n)[i] = <<n[i]>>
  BY NestedPath
<1>2. ASSUME Len(n) = 1 PROVE Nested(n) = <<n>>
  <2>1. n = <<n[1]>>
    BY <1>2 DEF Name
  <2>2. <<n>> \in Path /\ Len(<<n>>) = 1 /\ <<n>>[1] = n
    BY DEF Path
  <2>3. Nested(n)[1] = n
    BY <1>1, <1>2, <2>1
  <2> QED
    BY <1>1, <1>2, <2>2, <2>3, SameSequences DEF Path
<1>3. ASSUME Nested(n) = <<n>> PROVE Len(n) = 1
  BY <1>1, <1>3
<1> QED
  BY <1>2, <1>3

(* nestTypes files a type under its last part below the type named before it.      *)
LEMMA NestedLast ==
  ASSUME NEW n \in Name, Len(n) > 1
  PROVE  /\ Front(n) \in Name /\ Len(Front(n)) = Len(n) - 1
         /\ Front(n) = SubSeq(n, 1, Len(n) - 1)
         /\ IsStrictPrefix(Front(n), n)
         /\ Nested(n) = Append(Nested(Front(n)), <<Last(n)>>)
<1>1. Len(n) \in Nat \ {0} /\ n \in Seq(Part) /\ n # <<>>
  BY NestedPath DEF Name
<1>2. /\ Front(n) \in Seq(Part) /\ Len(Front(n)) = Len(n) - 1
      /\ Front(n) = SubSeq(n, 1, Len(n) - 1)
      /\ \A i \in 1 .. Len(n) - 1 : Front(n)[i] = n[i]
      /\ Last(n) = n[Len(n)] /\ Last(n) \in Part
      /\ IsStrictPrefix(Front(n), n)
  BY <1>1, FrontIsStart
<1>3. Front(n) \in Name
  <2>1. Len(Front(n)) # 0
    BY <1>1, <1>2
  <2>2. Front(n) # <<>>
    BY <2>1
  <2> QED
    BY <1>2, <2>2 DEF Name
<1> DEFINE above == Nested(Front(n))
           path == Append(above, <<Last(n)>>)
<1>4. above \in Seq(Name) /\ Len(above) = Len(n) - 1
      /\ \A i \in 1 .. Len(n) - 1 : above[i] = <<n[i]>>
  BY <1>2, <1>3, NestedPath DEF Path
<1>5. <<Last(n)>> \in Name
  BY <1>2 DEF Name
<1> HIDE DEF above
<1>6. path \in Seq(Name) /\ Len(path) = Len(n) /\ \A i \in 1 .. Len(n) : path[i] = <<n[i]>>
  <2>1. path \in Seq(Name) /\ Len(path) = Len(n)
    BY <1>1, <1>4, <1>5
  <2>2. \A i \in 1 .. Len(n) - 1 : path[i] = <<n[i]>>
    BY <1>1, <1>4, <1>5
  <2>3. path[Len(n)] = <<n[Len(n)]>>
    BY <1>1, <1>2, <1>4, <1>5
  <2> QED
    BY <1>1, <2>1, <2>2, <2>3
<1> HIDE DEF path
<1>7. Nested(n) \in Seq(Name) /\ Len(Nested(n)) = Len(n)
      /\ \A i \in 1 .. Len(n) : Nested(n)[i] = <<n[i]>>
  BY NestedPath DEF Path
<1>8. \A i \in 1 .. Len(n) : Nested(n)[i] = path[i]
  BY <1>6, <1>7
<1>9. Nested(n) = path
  BY <1>6, <1>7, <1>8, SameSequences
<1> QED
  BY <1>2, <1>3, <1>9 DEF path, above

-----------------------------------------------------------------------------
(* Types are inserted and nested.                                             *)

LEMMA InputTypes ==
  ASSUME Shape
  PROVE  /\ IsFiniteSet(input) /\ Names \subseteq Name
         /\ \A d \in input : /\ d.name \in Names /\ d.kind \in Kinds
                             /\ \A u \in d.uses : u.by \in Uses /\ u.type \in Name
                             /\ Dependencies(d) \subseteq Name
<1>1. input \in Inputs
  BY DEF Shape
<1>2. \A d \in input : /\ d.name \in Name /\ d.kind \in Kinds
                       /\ \A u \in d.uses : u.by \in Uses /\ u.type \in Name
  BY <1>1, DefCompilerAssumption
<1>3. \A d \in input : Dependencies(d) \subseteq Name
  BY <1>2, DefCompilerAssumption DEF Dependencies
<1> QED
  BY <1>1, <1>2, <1>3, DefCompilerAssumption DEF Names

LEMMA InsertKeeps ==
  ASSUME Shape, Inserted, Insert
  PROVE  Inserted'
<1>1. PICK d \in unread : /\ <<d.name>> \notin DOMAIN types
                          /\ types' = Emplaced(types, <<d.name>>, d)
                          /\ unread' = unread \ {d}
  BY DEF Insert
<1>2. /\ unread \subseteq input /\ DOMAIN renames = {}
      /\ DOMAIN types = {<<e.name>> : e \in input \ unread}
      /\ \A e \in input \ unread : types[<<e.name>>] = e
      /\ renames' = renames /\ input' = input
  BY DEF Insert, Inserted, output
<1>3. /\ DOMAIN types' = DOMAIN types \cup {<<d.name>>}
      /\ \A k \in DOMAIN types : types'[k] = types[k]
      /\ types'[<<d.name>>] = d
  BY <1>1 DEF Emplaced
<1>4. input' \ unread' = (input \ unread) \cup {d} /\ unread' \subseteq input'
  BY <1>1, <1>2
<1>5. DOMAIN types' = {<<e.name>> : e \in input' \ unread'}
  BY <1>2, <1>3, <1>4
<1>6. \A e \in input' \ unread' : types'[<<e.name>>] = e
  BY <1>2, <1>3, <1>4
<1> QED
  BY <1>2, <1>4, <1>5, <1>6 DEF Inserted

LEMMA InsertsDonePlaces ==
  ASSUME Shape, Inserted, InsertsDone
  PROVE  Placed'
<1>1. /\ DOMAIN renames = {} /\ DOMAIN types = {<<e.name>> : e \in input}
      /\ \A e \in input : types[<<e.name>>] = e
      /\ types' = types /\ renames' = renames /\ input' = input
  BY DEF InsertsDone, Inserted, tree
<1>2. UniqueNames
  <2>1. ASSUME NEW d \in input, NEW e \in input, d.name = e.name PROVE d = e
    <3>1. types[<<d.name>>] = d /\ types[<<e.name>>] = e
      BY <1>1
    <3> QED
      BY <2>1, <3>1
  <2> QED
    BY <2>1 DEF UniqueNames
<1>3. DOMAIN types = {<<n>> : n \in Names}
  BY <1>1 DEF Names
<1>4. \A n \in Names : PathOf(n) = <<n>>
  BY <1>1 DEF PathOf
<1>5. \A n \in Names : types[PathOf(n)] \in input /\ types[PathOf(n)].name = n
  BY <1>1, <1>4 DEF Names
<1>6. Placed
  BY <1>1, <1>2, <1>3, <1>5 DEF Placed
<1> QED
  BY <1>1, <1>6 DEF Placed, UniqueNames, Names, PathOf

(* A type is at the root under its whole name, or nested.                         *)
LEMMA PlacedPaths ==
  ASSUME Shape, Placed, NEW p \in DOMAIN types
  PROVE  /\ p \in Path /\ p # <<>>
         /\ \/ \E n \in Names \ DOMAIN renames : p = <<n>>
            \/ \E n \in DOMAIN renames : n \in Names /\ p = Nested(n) /\ Len(p) > 1
<1>1. Names \subseteq Name
  BY InputTypes
<1>2. ASSUME NEW n \in Names \ DOMAIN renames, p = <<n>>
      PROVE  p \in Path /\ p # <<>>
  BY <1>1, <1>2 DEF Path
<1>3. ASSUME NEW n \in DOMAIN renames, p = Nested(n)
      PROVE  p \in Path /\ p # <<>> /\ n \in Names /\ Len(p) > 1
  <2>1. n \in Names /\ Len(n) > 1 /\ n \in Name
    BY <1>1 DEF Placed
  <2> QED
    BY <1>3, <2>1, NestedPath
<1>4. (\E n \in Names \ DOMAIN renames : p = <<n>>) \/ (\E n \in DOMAIN renames : p = Nested(n))
  BY DEF Placed
<1> QED
  BY <1>2, <1>3, <1>4

(* A name that is found is at the root, whole, or at the path that it spells.       *)
LEMMA FoundPath ==
  ASSUME Shape, Placed, NEW name \in Name, Found(name)
  PROVE  /\ name \in Names
         /\ \/ name \in DOMAIN renames /\ PathOf(name) = Nested(name)
            \/ name \notin DOMAIN renames /\ PathOf(name) = <<name>>
<1>1. CASE name \in DOMAIN renames
  BY <1>1 DEF PathOf, Placed
<1>2. CASE name \notin DOMAIN renames
  <2>1. PathOf(name) = <<name>> /\ <<name>> \in DOMAIN types
    BY <1>2 DEF PathOf, Found
  <2>2. PICK p : p = <<name>>
    OBVIOUS
  <2>3. p \in DOMAIN types /\ Len(p) = 1 /\ p[1] = name
    BY <2>1, <2>2
  <2>4. PICK n \in Names \ DOMAIN renames : p = <<n>>
    <3>1. \/ \E n \in Names \ DOMAIN renames : p = <<n>>
          \/ \E n \in DOMAIN renames : n \in Names /\ p = Nested(n) /\ Len(p) > 1
      BY <2>3, PlacedPaths
    <3>2. ~(Len(p) > 1)
      BY <2>3
    <3> QED
      BY <3>1, <3>2
  <2>5. name = n
    BY <2>3, <2>4
  <2> QED
    BY <1>2, <2>1, <2>5
<1> QED
  BY <1>1, <1>2

(* A type that is moved, with no type nested in it, leaves the others in place.     *)
LEMMA MovedAlone ==
  ASSUME NEW p \in DOMAIN types, NEW path \in Path, Len(p) = 1, p \in Path,
         \A q \in DOMAIN types : IsPrefix(p, q) => q = p,
         path \notin DOMAIN types
  PROVE  /\ DOMAIN Moved(p, path) = (DOMAIN types \ {p}) \cup {path}
         /\ \A q \in DOMAIN types \ {p} : Moved(p, path)[q] = types[q]
         /\ Moved(p, path)[path] = types[p]
<1> DEFINE Target(q) ==
             IF IsPrefix(p, q) THEN path \o SubSeq(q, Len(p) + 1, Len(q)) ELSE q
           Old(q) == CHOOSE r \in DOMAIN types : Target(r) = q
           moved == Moved(p, path)
<1>1. moved = [q \in {Target(r) : r \in DOMAIN types} |-> types[Old(q)]]
  BY DEF Moved
<1>2. IsPrefix(p, p)
  BY DEF IsPrefix
<1>3. Target(p) = path
  <2>1. SubSeq(p, Len(p) + 1, Len(p)) = <<>>
    OBVIOUS
  <2>2. path \o <<>> = path
    BY DEF Path
  <2> QED
    BY <1>2, <2>1, <2>2
<1>4. \A q \in DOMAIN types \ {p} : Target(q) = q
  OBVIOUS
<1> HIDE DEF Target
<1>5. {Target(r) : r \in DOMAIN types} = (DOMAIN types \ {p}) \cup {path}
  BY <1>3, <1>4
<1>6. Old(path) = p
  <2>1. \A r \in DOMAIN types : Target(r) = path <=> r = p
    BY <1>3, <1>4
  <2> QED
    BY <2>1
<1>7. ASSUME NEW q \in DOMAIN types \ {p} PROVE Old(q) = q
  <2>1. \A r \in DOMAIN types : Target(r) = q <=> r = q
    BY <1>3, <1>4
  <2> QED
    BY <2>1
<1> HIDE DEF Old
<1>8. DOMAIN moved = (DOMAIN types \ {p}) \cup {path}
  BY <1>1, <1>5
<1>9. \A q \in DOMAIN moved : moved[q] = types[Old(q)]
  BY <1>1
<1> QED
  BY <1>6, <1>7, <1>8, <1>9

LEMMA NestPlaces ==
  ASSUME Shape, Placed, Nest
  PROVE  Placed'
<1>1. PICK p \in ToNest :
        /\ NextToNest(p) /\ Found(Front(p[1]))
        /\ renames' = Emplaced(renames, p[1], Append(PathOf(Front(p[1])), <<Last(p[1])>>))
        /\ types' = Moved(p, Append(PathOf(Front(p[1])), <<Last(p[1])>>))
  BY DEF Nest
<1>2. /\ p \in DOMAIN types /\ p \in Path /\ p # <<>> /\ Front(p) = <<>> /\ Len(p[1]) > 1
  BY <1>1, PlacedPaths DEF ToNest, Children
<1>3. PICK n \in Names \ DOMAIN renames : p = <<n>>
  <2>1. Len(Front(p)) = Len(p) - 1 /\ Len(p) \in Nat
    BY <1>2, FrontIsStart DEF Path
  <2>2. ~(Len(p) > 1)
    <3>1. Len(p) - 1 = 0
      BY <1>2, <2>1
    <3>2. Len(p) = 1 /\ Len(p) \in Nat
      BY <2>1, <3>1, One, Zenon
    <3> QED
      BY <3>2, One, Zenon
  <2>3. \/ \E n \in Names \ DOMAIN renames : p = <<n>>
        \/ \E n \in DOMAIN renames : n \in Names /\ p = Nested(n) /\ Len(p) > 1
    BY <1>2, PlacedPaths
  <2> QED
    BY <2>2, <2>3
<1>4. /\ p[1] = n /\ Len(p) = 1 /\ n \in Name /\ Len(n) > 1 /\ Len(n) \in Nat
  BY <1>2, <1>3, InputTypes, NestedPath
<1> DEFINE above == Front(n)
           path == Append(PathOf(above), <<Last(n)>>)
<1>5. /\ above \in Name /\ Len(above) = Len(n) - 1 /\ above = SubSeq(n, 1, Len(n) - 1)
      /\ IsStrictPrefix(above, n)
      /\ Nested(n) = Append(Nested(above), <<Last(n)>>)
  BY <1>4, NestedLast
<1>6. /\ NextToNest(p) /\ Found(above)
      /\ renames' = Emplaced(renames, n, path) /\ types' = Moved(p, path)
  BY <1>1, <1>4
<1> HIDE DEF above
<1>7. /\ PathOf(above) = Nested(above) /\ above \in Names
      /\ \A k \in 1 .. Len(above) : SubSeq(above, 1, k) \in Names
  <2>1. above \in Names
    BY <1>5, <1>6, FoundPath
  <2>2. CASE above \in DOMAIN renames
    BY <2>1, <2>2 DEF Placed, PathOf
  <2>3. CASE above \notin DOMAIN renames
    <3>1. PathOf(above) = <<above>> /\ <<above>> \in DOMAIN types
      BY <1>6, <2>3 DEF PathOf, Found
    <3>2. Len(above) = 1
      <4>0. Len(above) \in Nat \ {0}
        BY <1>5, NestedPath
      <4>1. SUFFICES ~(Len(above) > 1)
        BY <4>0, One, Zenon
      <4> SUFFICES ASSUME Len(above) > 1 PROVE FALSE
        OBVIOUS
      <4>2. PICK q : q = <<above>>
        OBVIOUS
      <4>3. q \in DOMAIN types /\ q # <<>> /\ q[1] = above /\ Front(q) = <<>>
        <5>1. Front(q) = <<>>
          BY <4>2 DEF Front
        <5> QED
          BY <3>1, <4>2, <5>1
      <4>4. q \in ToNest
        BY <4>3 DEF ToNest, Children
      <4> QED
        BY <1>4, <1>5, <1>6, <4>3, <4>4 DEF NextToNest
    <3>3. Nested(above) = <<above>>
      BY <1>5, <3>2, NestedShort
    <3>4. SubSeq(above, 1, 1) = above
      BY <1>5, <3>2, WholeIsStart DEF Name
    <3>5. \A k \in 1 .. Len(above) : k = 1
      BY <3>2
    <3> QED
      BY <2>1, <3>1, <3>3, <3>4, <3>5
  <2> QED
    BY <2>2, <2>3
<1>8. path = Nested(n) /\ path \in Path /\ Len(path) > 1
  <2>1. path = Nested(n)
    BY <1>5, <1>7
  <2> HIDE DEF path
  <2>2. Nested(n) \in Path /\ Len(Nested(n)) = Len(n)
    BY <1>4, NestedPath
  <2> QED
    BY <1>4, <2>1, <2>2
<1> HIDE DEF path
<1>9. \A k \in 1 .. Len(n) : SubSeq(n, 1, k) \in Names
  <2>1. ASSUME NEW k \in 1 .. Len(n) PROVE SubSeq(n, 1, k) \in Names
    <3>1. CASE k = Len(n)
      BY <1>3, <1>4, <3>1, WholeIsStart DEF Name
    <3>2. CASE k # Len(n)
      <4>1. k \in 1 .. Len(above) /\ k \in 0 .. Len(n) - 1 /\ Len(n) - 1 \in 0 .. Len(n)
        BY <1>4, <1>5, <3>2
      <4>2. SubSeq(above, 1, k) = SubSeq(n, 1, k)
        BY <1>4, <1>5, <4>1, StartOfStart DEF Name
      <4> QED
        BY <1>7, <4>1, <4>2
    <3> QED
      BY <3>1, <3>2
  <2> QED
    BY <2>1
<1>10. path \notin DOMAIN types
  <2>1. SUFFICES ASSUME path \in DOMAIN types PROVE FALSE
    OBVIOUS
  <2>2. \A m \in Names : path # <<m>>
    <3>1. ASSUME NEW m \in Names, path = <<m>> PROVE FALSE
      <4>1. Len(path) = 1
        BY <3>1
      <4> QED
        BY <1>8, <4>1
    <3> QED
      BY <3>1
  <2>3. PICK m \in DOMAIN renames : m \in Names /\ path = Nested(m)
    BY <2>1, <2>2, PlacedPaths
  <2>4. m = n
    BY <1>4, <1>8, <2>3, InputTypes, NestedInjective
  <2> QED
    BY <1>3, <2>3, <2>4
<1>11. ASSUME NEW q \in DOMAIN types, IsPrefix(p, q) PROVE q = p
  <2>1. q \in Path /\ q[1] = n
    <3>1. q \in Path
      BY PlacedPaths
    <3>2. \A i \in 1 .. Len(p) : p[i] = q[i]
      BY <1>2, <1>11, <3>1, PrefixIsStart DEF Path
    <3> QED
      BY <1>4, <3>1, <3>2
  <2>2. ASSUME NEW m \in DOMAIN renames, m \in Names, q = Nested(m) PROVE FALSE
    <3>1. m \in Name
      BY <2>2, InputTypes
    <3>2. q[1] = <<m[1]>>
      BY <2>2, <3>1, NestedPath
    <3>3. Len(n) = 1
      BY <2>1, <3>2
    <3> QED
      BY <1>4, <3>3
  <2>3. PICK m \in Names \ DOMAIN renames : q = <<m>>
    BY <2>2, PlacedPaths
  <2> QED
    BY <1>3, <2>1, <2>3
<1>12. /\ DOMAIN types' = (DOMAIN types \ {p}) \cup {path}
       /\ \A q \in DOMAIN types \ {p} : types'[q] = types[q]
       /\ types'[path] = types[p]
  BY <1>2, <1>4, <1>6, <1>8, <1>10, <1>11, MovedAlone
<1>13. /\ DOMAIN renames' = DOMAIN renames \cup {n} /\ renames'[n] = path
       /\ \A m \in DOMAIN renames : renames'[m] = renames[m]
  BY <1>3, <1>6 DEF Emplaced
<1>14. input' = input /\ Names' = Names
  BY DEF Nest, output, Names
<1>15. UniqueNames'
  BY <1>14 DEF Placed, UniqueNames
<1>16. DOMAIN renames' \subseteq {m \in Names : Len(m) > 1}
  BY <1>3, <1>4, <1>13 DEF Placed
<1>17. \A m \in DOMAIN renames' :
         renames'[m] = Nested(m) /\ \A k \in 1 .. Len(m) : SubSeq(m, 1, k) \in Names
  BY <1>8, <1>9, <1>13 DEF Placed
<1>18. DOMAIN types' = {<<m>> : m \in Names \ DOMAIN renames'} \cup {Nested(m) : m \in DOMAIN renames'}
  <2>1. DOMAIN types = {<<m>> : m \in Names \ DOMAIN renames} \cup {Nested(m) : m \in DOMAIN renames}
    BY DEF Placed
  <2>2. \A m \in DOMAIN renames : Nested(m) # p
    <3>1. ASSUME NEW m \in DOMAIN renames, Nested(m) = p PROVE FALSE
      <4>1. m \in Name /\ Len(m) > 1
        BY InputTypes DEF Placed
      <4> QED
        BY <1>4, <3>1, <4>1, NestedPath
    <3> QED
      BY <3>1
  <2>3. \A m \in Names : <<m>> = p <=> m = n
    BY <1>3
  <2> QED
    BY <1>8, <1>12, <1>13, <2>1, <2>2, <2>3
<1>19. ASSUME NEW m \in Names
       PROVE  types'[PathOf(m)'] \in input /\ types'[PathOf(m)'].name = m
  <2>1. types[PathOf(m)] \in input /\ types[PathOf(m)].name = m
    BY DEF Placed
  <2>2. CASE m = n
    <3>1. PathOf(m) = p
      BY <1>3, <2>2 DEF PathOf
    <3>2. PathOf(m)' = path
      BY <1>13, <2>2 DEF PathOf
    <3> QED
      BY <1>12, <2>1, <3>1, <3>2
  <2>3. CASE m # n
    <3>1. PathOf(m)' = PathOf(m)
      BY <1>13, <2>3 DEF PathOf
    <3>2. PathOf(m) \in DOMAIN types \ {p}
      <4>1. CASE m \in DOMAIN renames
        <5>1. m \in Name /\ Len(m) > 1 /\ PathOf(m) = Nested(m) /\ Nested(m) \in DOMAIN types
          BY <4>1, InputTypes DEF Placed, PathOf
        <5> QED
          BY <1>4, <5>1, NestedPath
      <4>2. CASE m \notin DOMAIN renames
        <5>1. PathOf(m) = <<m>> /\ <<m>> \in DOMAIN types
          BY <4>2 DEF Placed, PathOf
        <5> QED
          BY <1>3, <2>3, <5>1
      <4> QED
        BY <4>1, <4>2
    <3> QED
      BY <1>12, <2>1, <3>1, <3>2
  <2> QED
    BY <2>2, <2>3
<1> QED
  BY <1>14, <1>15, <1>16, <1>17, <1>18, <1>19 DEF Placed

LEMMA NestsDoneMoves ==
  ASSUME Shape, Placed, ToNest = {}
  PROVE  EachMoved
<1>1. SUFFICES ASSUME NEW n \in Names, Len(n) > 1, n \notin DOMAIN renames PROVE FALSE
  BY DEF EachMoved
<1>2. PICK p : p = <<n>>
  OBVIOUS
<1>3. p \in DOMAIN types
  BY <1>1, <1>2 DEF Placed
<1>4. p # <<>> /\ p[1] = n /\ Front(p) = <<>>
  BY <1>2 DEF Front
<1> QED
  BY <1>1, <1>3, <1>4 DEF ToNest, Children

(* When all types are nested, they are where their names say.                      *)
LEMMA NestedPaths ==
  ASSUME Shape, Placed, EachMoved
  PROVE  /\ DOMAIN types = {Nested(n) : n \in Names}
         /\ \A n \in Names : /\ n \in Name /\ PathOf(n) = Nested(n) /\ Found(n)
                             /\ types[Nested(n)] \in input /\ types[Nested(n)].name = n
         /\ \A name \in Name : Found(name) => name \in Names
<1>1. \A n \in Names : PathOf(n) = Nested(n) /\ n \in Name
  <2>1. ASSUME NEW n \in Names PROVE PathOf(n) = Nested(n) /\ n \in Name
    <3>1. n \in Name /\ Len(n) \in Nat \ {0}
      BY InputTypes, NestedPath
    <3>2. CASE n \in DOMAIN renames
      BY <3>1, <3>2 DEF Placed, PathOf
    <3>3. CASE n \notin DOMAIN renames
      <4>1. ~(Len(n) > 1)
        BY <3>3 DEF EachMoved
      <4>2. Len(n) = 1
        BY <3>1, <4>1, One, Zenon
      <4>3. Nested(n) = <<n>>
        BY <3>1, <4>2, NestedShort
      <4> QED
        BY <3>1, <3>3, <4>3 DEF PathOf
    <3> QED
      BY <3>2, <3>3
  <2> QED
    BY <2>1
<1>2. \A n \in Names : IF n \in DOMAIN renames THEN PathOf(n) = renames[n] ELSE PathOf(n) = <<n>>
  BY DEF PathOf
<1>3. /\ DOMAIN types = {<<n>> : n \in Names \ DOMAIN renames} \cup {Nested(n) : n \in DOMAIN renames}
      /\ DOMAIN renames \subseteq Names
  BY DEF Placed
<1>4. DOMAIN types = {Nested(n) : n \in Names}
  <2>1. \A n \in Names \ DOMAIN renames : <<n>> = Nested(n)
    BY <1>1, <1>2
  <2> QED
    BY <1>3, <2>1
<1>5. \A n \in Names : types[Nested(n)] \in input /\ types[Nested(n)].name = n
  BY <1>1 DEF Placed
<1>6. \A n \in Names : Found(n)
  BY <1>1, <1>4 DEF Found
<1>7. \A name \in Name : Found(name) => name \in Names
  BY FoundPath
<1> QED
  BY <1>1, <1>4, <1>5, <1>6, <1>7

(* The types around a type are there, too.                                        *)
LEMMA TypesAround ==
  ASSUME Shape, Placed, EachMoved, NEW p \in DOMAIN types
  PROVE  /\ p \in Path /\ p # <<>> /\ Len(p) \in Nat \ {0}
         /\ \A k \in 1 .. Len(p) : SubSeq(p, 1, k) \in DOMAIN types
<1>1. PICK n \in Names : p = Nested(n)
  BY NestedPaths
<1>2. n \in Name
  BY <1>1, InputTypes
<1>3. p \in Path /\ p # <<>> /\ Len(p) = Len(n) /\ Len(n) \in Nat \ {0}
  BY <1>1, <1>2, NestedPath
<1>4. ASSUME NEW k \in 1 .. Len(p) PROVE SubSeq(p, 1, k) \in DOMAIN types
  <2>1. SubSeq(n, 1, k) \in Names
    <3>1. CASE Len(n) > 1
      <4>1. n \in DOMAIN renames
        BY <1>1, <3>1 DEF EachMoved
      <4> QED
        BY <1>3, <1>4, <4>1 DEF Placed
    <3>2. CASE ~(Len(n) > 1)
      <4>1. Len(n) = 1
        BY <1>3, <3>2, One, Zenon
      <4>2. k = 1
        BY <1>3, <1>4, <4>1
      <4>3. SubSeq(n, 1, Len(n)) = n
        BY <1>2, WholeIsStart DEF Name
      <4> QED
        BY <1>1, <4>1, <4>2, <4>3
    <3> QED
      BY <3>1, <3>2
  <2>2. Nested(SubSeq(n, 1, k)) = SubSeq(p, 1, k)
    BY <1>1, <1>2, <1>3, NestedStart
  <2> QED
    BY <2>1, <2>2, NestedPaths
<1> QED
  BY <1>3, <1>4

-----------------------------------------------------------------------------
(* Dependencies become edges.                                                 *)

LEMMA EdgeOfDependency ==
  ASSUME Shape, Placed, EachMoved, NEW p \in DOMAIN types, NEW q \in DOMAIN types,
         ~UsesOuter(p, q)
  PROVE  \/ IsPrefix(p, q) /\ Edge(p, q) = {}
         \/ \E n \in 0 .. Len(p) - 1 :
              /\ n < Len(q)
              /\ Edge(p, q) = {[scope |-> SubSeq(p, 1, n), from |-> SubSeq(p, 1, n + 1),
                                to |-> SubSeq(q, 1, n + 1)]}
              /\ SubSeq(p, 1, n) = SubSeq(q, 1, n)
<1> DEFINE n == Common(p, q)
<1>1. /\ p \in Path /\ q \in Path /\ Len(p) \in Nat \ {0} /\ Len(q) \in Nat \ {0}
  BY TypesAround
<1>2. n \in 0 .. Len(p) /\ n <= Len(q) /\ SubSeq(p, 1, n) = SubSeq(q, 1, n)
  BY <1>1, CommonIsShared
<1>3. Edge(p, q) = IF n = Len(p) THEN {}
                   ELSE {[scope |-> SubSeq(p, 1, n), from |-> SubSeq(p, 1, n + 1),
                          to |-> SubSeq(q, 1, n + 1)]}
  BY DEF Edge
<1>4. n # Len(q) \/ q = p
  BY DEF UsesOuter
<1> HIDE DEF n
<1>5. CASE n = Len(p)
  <2>1. p = SubSeq(q, 1, Len(p)) /\ Len(p) <= Len(q)
    BY <1>1, <1>2, <1>5, WholeIsStart DEF Path
  <2>2. IsPrefix(p, q)
    BY <1>1, <2>1, PrefixIsStart DEF Path
  <2> QED
    BY <1>3, <1>5, <2>2
<1>6. CASE n # Len(p)
  <2>1. n \in 0 .. Len(p) - 1
    BY <1>1, <1>2, <1>6
  <2>2. n < Len(q)
    BY <1>1, <1>2, <1>4, <1>6
  <2> QED
    BY <1>2, <1>3, <1>6, <2>1, <2>2
<1> QED
  BY <1>5, <1>6

LEMMA AddDependenciesEdges ==
  ASSUME Shape, Placed, EachMoved, AddDependencies
  PROVE  Edged'
<1>1. /\ \A p \in DOMAIN types : \A name \in Dependencies(types[p]) :
           Found(name) /\ ~UsesOuter(p, PathOf(name))
      /\ edges' = UNION {UNION {Edge(p, PathOf(name)) : name \in Dependencies(types[p])} :
                           p \in DOMAIN types}
      /\ types' = types /\ renames' = renames
  BY DEF AddDependencies
<1>2. ASSUME NEW e \in edges'
      PROVE  /\ e.from \in DOMAIN types /\ e.to \in DOMAIN types
             /\ Front(e.from) = Front(e.to)
  <2>1. PICK p \in DOMAIN types :
          e \in UNION {Edge(p, PathOf(name)) : name \in Dependencies(types[p])}
    BY <1>1, <1>2
  <2>2. PICK name \in Dependencies(types[p]) : e \in Edge(p, PathOf(name))
    BY <2>1
  <2>3. PICK q \in DOMAIN types : q = PathOf(name) /\ ~UsesOuter(p, q)
    BY <1>1 DEF Found
  <2>4. PICK n \in 0 .. Len(p) - 1 :
          /\ n < Len(q) /\ e.from = SubSeq(p, 1, n + 1) /\ e.to = SubSeq(q, 1, n + 1)
          /\ SubSeq(p, 1, n) = SubSeq(q, 1, n)
    <3>1. \E n \in 0 .. Len(p) - 1 :
              /\ n < Len(q)
              /\ Edge(p, q) = {[scope |-> SubSeq(p, 1, n), from |-> SubSeq(p, 1, n + 1),
                                to |-> SubSeq(q, 1, n + 1)]}
              /\ SubSeq(p, 1, n) = SubSeq(q, 1, n)
      BY <2>2, <2>3, EdgeOfDependency
    <3> QED
      BY <2>2, <2>3, <3>1
  <2>5. /\ p \in Path /\ q \in Path /\ Len(p) \in Nat /\ Len(q) \in Nat
        /\ \A k \in 1 .. Len(p) : SubSeq(p, 1, k) \in DOMAIN types
        /\ \A k \in 1 .. Len(q) : SubSeq(q, 1, k) \in DOMAIN types
    BY TypesAround
  <2>6. n + 1 \in 1 .. Len(p) /\ n + 1 \in 1 .. Len(q)
    BY <2>4, <2>5
  <2>7. e.from \in DOMAIN types /\ e.to \in DOMAIN types
    BY <2>4, <2>5, <2>6
  <2>8. \A s \in Path : n + 1 \in 1 .. Len(s) => Front(SubSeq(s, 1, n + 1)) = SubSeq(s, 1, n)
    BY <2>4, FrontOfStart
  <2> QED
    BY <2>4, <2>5, <2>6, <2>7, <2>8
<1>3. ASSUME NEW p \in DOMAIN types, NEW name \in Dependencies(types[p])
      PROVE  Needs(p, name)'
  <2>1. PICK q \in DOMAIN types : q = PathOf(name) /\ ~UsesOuter(p, q)
    BY <1>1 DEF Found
  <2>2. Found(name)' /\ PathOf(name)' = q
    BY <1>1, <2>1 DEF Found, PathOf
  <2>3. Edge(p, q) \subseteq edges'
    BY <1>1, <2>1
  <2>4. \/ IsPrefix(p, q)
        \/ \E n \in 0 .. Len(p) - 1 :
              /\ n < Len(q)
              /\ Edge(p, q) = {[scope |-> SubSeq(p, 1, n), from |-> SubSeq(p, 1, n + 1),
                                to |-> SubSeq(q, 1, n + 1)]}
    BY <2>1, EdgeOfDependency
  <2>5. IsPrefix(p, q) \/ Leads(p, q)'
    BY <2>3, <2>4 DEF Leads
  <2> QED
    BY <2>2, <2>5 DEF Needs
<1>4. \A p \in DOMAIN types : Dependencies(types[p])' = Dependencies(types[p])
  BY <1>1
<1> QED
  BY <1>1, <1>2, <1>3 DEF Edged, Joins

-----------------------------------------------------------------------------
(* The header grows.                                                           *)

Longer == /\ Len(written) <= Len(written') /\ Len(written) \in Nat /\ Len(written') \in Nat
          /\ \A i \in Positions : written'[i] = written[i]

LEMMA Later ==
  ASSUME Longer
  PROVE  \A p : (Closed(p) => Closed(p)') /\ (Opened(p) => Opened(p)')
<1>1. \A i \in Positions : i \in Positions' /\ written'[i] = written[i]
  BY DEF Longer, Positions
<1>2. ASSUME NEW p, Closed(p) PROVE Closed(p)'
  <2>1. PICK i \in Positions : Is(i, "close", p)
    BY <1>2 DEF Closed
  <2>2. i \in Positions' /\ Is(i, "close", p)'
    BY <1>1, <2>1 DEF Is
  <2> QED
    BY <2>2 DEF Closed
<1>3. ASSUME NEW p, Opened(p) PROVE Opened(p)'
  <2>1. PICK i \in Positions : Is(i, "open", p)
    BY <1>3 DEF Opened
  <2>2. i \in Positions' /\ Is(i, "open", p)'
    BY <1>1, <2>1 DEF Is
  <2> QED
    BY <2>2 DEF Opened
<1> QED
  BY <1>2, <1>3

LEMMA Appended ==
  ASSUME written \in Seq(Entry), NEW e \in Entry, written' = Append(written, e)
  PROVE  /\ written' \in Seq(Entry) /\ Longer
         /\ Len(written') = Len(written) + 1 /\ Len(written) \in Nat
         /\ written'[Len(written)'] = e /\ Len(written)' \in Positions'
         /\ \A i \in Positions' : i \in Positions \/ i = Len(written)'
         /\ \A p : Closed(p)' => Closed(p) \/ (e.do = "close" /\ e.type = p)
<1>1. written' \in Seq(Entry) /\ Len(written') = Len(written) + 1 /\ Len(written) \in Nat
  OBVIOUS
<1>2. \A i \in 1 .. Len(written) : written'[i] = written[i]
  OBVIOUS
<1>3. written'[Len(written) + 1] = e
  OBVIOUS
<1>4. Longer
  BY <1>1, <1>2 DEF Longer, Positions
<1>5. /\ Len(written)' \in Positions'
      /\ \A i \in Positions' : i \in Positions \/ i = Len(written)'
  BY <1>1 DEF Positions
<1>6. ASSUME NEW p, Closed(p)' PROVE Closed(p) \/ (e.do = "close" /\ e.type = p)
  <2>1. PICK i \in Positions' : Is(i, "close", p)'
    BY <1>6 DEF Closed
  <2>2. CASE i \in Positions
    <3>1. Is(i, "close", p)
      BY <1>2, <2>1, <2>2 DEF Is, Positions
    <3> QED
      BY <2>2, <3>1 DEF Closed
  <2>3. CASE i = Len(written)'
    <3>1. written'[i] = e
      BY <1>1, <1>3, <2>3
    <3> QED
      BY <2>1, <3>1 DEF Is
  <2> QED
    BY <1>5, <2>2, <2>3
<1> QED
  BY <1>1, <1>3, <1>4, <1>5, <1>6

-----------------------------------------------------------------------------
(* The types around a type.                                                    *)

LEMMA AroundFront ==
  ASSUME NEW p \in Path, p # <<>>
  PROVE  /\ Front(p) \in Path
         /\ Above(p) = {SubSeq(Front(p), 1, n) : n \in 1 .. Len(Front(p))}
<1>1. /\ Len(p) \in Nat \ {0} /\ Len(p) - 1 \in 0 .. Len(p)
      /\ Front(p) = SubSeq(p, 1, Len(p) - 1) /\ Front(p) \in Seq(Name) /\ Len(Front(p)) = Len(p) - 1
  BY FrontIsStart DEF Path
<1>2. \A n \in 1 .. Len(p) - 1 : n \in 0 .. Len(p) - 1
  BY <1>1
<1>3. \A n \in 1 .. Len(p) - 1 : SubSeq(Front(p), 1, n) = SubSeq(p, 1, n)
  BY <1>1, <1>2, StartOfStart DEF Path
<1> QED
  BY <1>1, <1>3 DEF Above, Path

(* Those around a type of the body of t are t and those around t.                  *)
LEMMA AroundChild ==
  ASSUME NEW p \in Path, p # <<>>, NEW s \in Above(p)
  PROVE  s = Front(p) \/ s \in Above(Front(p))
<1>1. Front(p) \in Path /\ Len(Front(p)) \in Nat
  BY AroundFront DEF Path
<1>2. PICK n \in 1 .. Len(Front(p)) : s = SubSeq(Front(p), 1, n)
  BY AroundFront
<1>3. CASE n = Len(Front(p))
  BY <1>1, <1>2, <1>3, WholeIsStart DEF Path
<1>4. CASE n # Len(Front(p))
  <2>1. n \in 1 .. Len(Front(p)) - 1
    BY <1>1, <1>2, <1>4
  <2> QED
    BY <1>2, <2>1 DEF Above
<1> QED
  BY <1>3, <1>4

(* A strict prefix of a path is a prefix of what is around it.                     *)
LEMMA PrefixOfFront ==
  ASSUME NEW s \in Path, NEW p \in Path, p # <<>>
  PROVE  IsStrictPrefix(s, p) <=> IsPrefix(s, Front(p))
<1>1. /\ Len(p) \in Nat \ {0} /\ Front(p) \in Seq(Name) /\ Len(Front(p)) = Len(p) - 1
      /\ Len(s) \in Nat /\ s \in Seq(Name) /\ p \in Seq(Name) /\ IsStrictPrefix(Front(p), p)
  BY FrontIsStart DEF Path
<1>2. IsPrefix(Front(p), p)
  BY <1>1 DEF IsStrictPrefix
<1>3. ASSUME IsStrictPrefix(s, p) PROVE IsPrefix(s, Front(p))
  <2>1. IsPrefix(s, p) /\ Len(s) < Len(p)
    BY <1>1, <1>3, StrictIsShorter
  <2>2. Len(s) <= Len(Front(p))
    BY <1>1, <2>1
  <2> QED
    BY <1>1, <1>2, <2>1, <2>2, PrefixesAreOrdered
<1>4. ASSUME IsPrefix(s, Front(p)) PROVE IsStrictPrefix(s, p)
  <2>1. IsPrefix(s, p)
    BY <1>1, <1>2, <1>4, PrefixOfPrefix
  <2>2. Len(s) <= Len(Front(p))
    BY <1>4 DEF IsPrefix
  <2>3. Len(s) < Len(p)
    BY <1>1, <2>2
  <2> QED
    BY <1>1, <2>1, <2>3, StrictIsShorter
<1> QED
  BY <1>3, <1>4

-----------------------------------------------------------------------------
(* The stack of calls.                                                         *)

LEMMA Pushed ==
  ASSUME NEW S, NEW s \in Seq(S), NEW e \in S
  PROVE  /\ Append(s, e) \in Seq(S) /\ Len(Append(s, e)) = Len(s) + 1
         /\ \A i \in 1 .. Len(s) : Append(s, e)[i] = s[i]
         /\ Append(s, e)[Len(s) + 1] = e
  OBVIOUS

LEMMA ReplaceTop ==
  ASSUME NEW S, NEW s \in Seq(S), s # <<>>, NEW e \in S
  PROVE  /\ [s EXCEPT ![Len(s)] = e] \in Seq(S) /\ Len([s EXCEPT ![Len(s)] = e]) = Len(s)
         /\ \A i \in 1 .. Len(s) : i # Len(s) => [s EXCEPT ![Len(s)] = e][i] = s[i]
         /\ [s EXCEPT ![Len(s)] = e][Len(s)] = e
<1>1. Len(s) \in 1 .. Len(s)
  OBVIOUS
<1> QED
  BY <1>1

LEMMA TopFrame ==
  ASSUME Frames, Shape, Placed, EachMoved
  PROVE  /\ Len(stack) \in Nat \ {0} /\ Len(stack) \in 1 .. Len(stack)
         /\ \A k \in 1 .. Len(stack) : /\ stack[k] \in Frame /\ stack[k].type \in Path
                                       /\ Calling(k) <=> ~Writing(k)
                                       /\ Calling(k) => k \in 2 .. Len(stack)
         /\ Top \in Frame /\ Top.type \in Path
<1>1. stack \in Seq(Frame) /\ stack # <<>>
  BY DEF Frames
<1>2. Len(stack) \in Nat \ {0}
  BY <1>1
<1>3. Len(stack) \in 1 .. Len(stack)
  BY <1>2
<1>4. \A k \in 1 .. Len(stack) : stack[k] \in Frame
  BY <1>1
<1>5. \A k \in 1 .. Len(stack) : stack[k].type \in Path /\ (Calling(k) <=> ~Writing(k))
  BY <1>4 DEF Frame, Calling, Writing
<1>6. \A k \in 1 .. Len(stack) : Calling(k) => k # 1
  BY <1>3, <1>5 DEF Frames
<1>7. \A k \in 1 .. Len(stack) : k # 1 => k \in 2 .. Len(stack)
  BY <1>2
<1> QED
  BY <1>2, <1>3, <1>4, <1>5, <1>6, <1>7 DEF Top

(* A type that a call has left is in its body, or in the scope of its type.        *)
LEMMA LeftAround ==
  ASSUME Shape, Placed, EachMoved, Edged, pc = "generate", Frames, NEW k \in 1 .. Len(stack),
         NEW p \in Targets(k)
  PROVE  /\ p \in DOMAIN types /\ p \in Path /\ p # <<>>
         /\ Writing(k) => Front(p) = stack[k].type
         /\ ~Writing(k) => /\ stack[k].type \in DOMAIN types /\ stack[k].type # <<>>
                           /\ Front(p) = Front(stack[k].type)
<1>1. CASE Writing(k)
  <2>1. p \in DOMAIN types /\ Front(p) = stack[k].type
    BY <1>1 DEF Targets, Children
  <2> QED
    BY <1>1, <2>1, TypesAround
<1>2. CASE ~Writing(k)
  <2>1. PICK e \in edges : e.from = stack[k].type /\ e.to = p
    BY <1>2 DEF Targets
  <2>2. Joins(e)
    BY DEF Edged
  <2>3. p \in DOMAIN types /\ stack[k].type \in DOMAIN types /\ Front(p) = Front(stack[k].type)
    BY <2>1, <2>2 DEF Joins
  <2> QED
    BY <1>2, <2>3, TypesAround
<1> QED
  BY <1>1, <1>2

LEMMA CallFrame ==
  ASSUME Frames, Shape, Placed, EachMoved, Edged, pc = "generate", NEW p \in Top.left,
         stack' = Append([stack EXCEPT ![Len(stack)].left = @ \ {p}], Call(p))
  PROVE  /\ stack' \in Seq(Frame) /\ Len(stack') = Len(stack) + 1
         /\ \A k \in 1 .. Len(stack) :
              /\ stack'[k].type = stack[k].type /\ stack'[k].part = stack[k].part
              /\ stack'[k].left \subseteq stack[k].left
              /\ \A q \in stack[k].left : q \in stack'[k].left \/ (k = Len(stack) /\ q = p)
         /\ stack'[Len(stack) + 1] = Call(p)
<1>1. /\ Len(stack) \in Nat \ {0} /\ Len(stack) \in 1 .. Len(stack) /\ stack \in Seq(Frame)
      /\ \A k \in 1 .. Len(stack) : stack[k] \in Frame
  BY TopFrame DEF Frames
<1>2. p \in DOMAIN types /\ p \in Path
  BY <1>1, LeftAround DEF Frames, Top
<1>3. Call(p) \in Frame
  <2>1. \A e \in edges : e.to \in Path
    BY TypesAround DEF Edged, Joins
  <2> QED
    BY <1>2, <2>1 DEF Call, Frame
<1> DEFINE top == [stack[Len(stack)] EXCEPT !.left = @ \ {p}]
           less == [stack EXCEPT ![Len(stack)] = top]
<1>4. top \in Frame /\ top.type = Top.type /\ top.part = Top.part /\ top.left = Top.left \ {p}
  <2>1. top = [Top EXCEPT !.left = @ \ {p}] /\ Top \in Frame
    BY <1>1 DEF Top
  <2> HIDE DEF top
  <2> QED
    BY <2>1 DEF Frame
<1>5. stack' = Append(less, Call(p))
  OBVIOUS
<1> HIDE DEF top
<1>6. /\ less \in Seq(Frame) /\ Len(less) = Len(stack)
      /\ \A k \in 1 .. Len(stack) : k # Len(stack) => less[k] = stack[k]
      /\ less[Len(stack)] = top
  BY <1>1, <1>4, ReplaceTop DEF Frames
<1> HIDE DEF less
<1>8. /\ stack' \in Seq(Frame) /\ Len(stack') = Len(stack) + 1
      /\ \A k \in 1 .. Len(stack) : stack'[k] = less[k]
      /\ stack'[Len(stack) + 1] = Call(p)
  <2> DEFINE callee == Call(p)
             more == Append(less, callee)
  <2>1. callee \in Frame /\ stack' = more
    BY <1>3, <1>5
  <2> HIDE DEF callee
  <2>2. /\ more \in Seq(Frame) /\ Len(more) = Len(less) + 1
        /\ \A i \in 1 .. Len(less) : more[i] = less[i]
        /\ more[Len(less) + 1] = callee
    BY <1>6, <2>1, Pushed
  <2> HIDE DEF more
  <2>3. stack' \in Seq(Frame) /\ Len(stack') = Len(stack) + 1
    BY <1>6, <2>1, <2>2
  <2>4. \A k \in 1 .. Len(stack) : stack'[k] = less[k]
    BY <1>6, <2>1, <2>2
  <2>5. stack'[Len(stack) + 1] = Call(p)
    BY <1>6, <2>1, <2>2 DEF callee
  <2> QED
    BY <2>3, <2>4, <2>5
<1>9. ASSUME NEW k \in 1 .. Len(stack)
      PROVE  /\ stack'[k].type = stack[k].type /\ stack'[k].part = stack[k].part
             /\ stack'[k].left \subseteq stack[k].left
             /\ \A q \in stack[k].left : q \in stack'[k].left \/ (k = Len(stack) /\ q = p)
  <2>1. CASE k = Len(stack)
    BY <1>4, <1>6, <1>8, <2>1 DEF Top
  <2>2. CASE k # Len(stack)
    BY <1>6, <1>8, <2>2
  <2> QED
    BY <2>1, <2>2
<1> QED
  BY <1>8, <1>9

LEMMA ReturnFrame ==
  ASSUME Frames, Shape, Placed, EachMoved, Len(stack) > 1, stack' = Front(stack)
  PROVE  /\ stack' \in Seq(Frame) /\ Len(stack') = Len(stack) - 1
         /\ \A k \in 1 .. Len(stack) - 1 : stack'[k] = stack[k]
  BY TopFrame, FrontIsStart DEF Frames

LEMMA OpenFrame ==
  ASSUME Frames, Shape, Placed, EachMoved, ~Writing(Len(stack)),
         stack' = [stack EXCEPT ![Len(stack)] = Body(Top.type)]
  PROVE  /\ stack' \in Seq(Frame) /\ Len(stack') = Len(stack)
         /\ \A k \in 1 .. Len(stack) : k # Len(stack) => stack'[k] = stack[k]
         /\ stack'[Len(stack)] = Body(Top.type)
<1>1. /\ Len(stack) \in Nat \ {0} /\ Len(stack) \in 1 .. Len(stack) /\ stack \in Seq(Frame)
      /\ \A k \in 1 .. Len(stack) : stack[k] \in Frame
      /\ Top \in Frame
  BY TopFrame DEF Frames
<1>2. Body(Top.type) \in Frame
  <2>1. Children(Top.type) \subseteq Path
    BY TypesAround DEF Children
  <2> QED
    BY <1>1, <2>1 DEF Body, Frame
<1> QED
  BY <1>1, <1>2, ReplaceTop DEF Frames

-----------------------------------------------------------------------------
(* The search goes on.                                                         *)

Searching == Frames /\ Beneath /\ Pending /\ Visits /\ Completed /\ Entries

LEMMA SameTypes ==
  ASSUME UNCHANGED tree
  PROVE  /\ types' = types /\ edges' = edges /\ renames' = renames
         /\ \A p : Children(p)' = Children(p)
  BY DEF tree, Children

LEMMA SameHeader ==
  ASSUME UNCHANGED written
  PROVE  /\ Positions' = Positions /\ \A p : Closed(p)' = Closed(p) /\ Opened(p)' = Opened(p)
  BY DEF Positions, Closed, Opened, Is

LEMMA CallSearches ==
  ASSUME Shape, Placed, EachMoved, Edged, pc = "generate", Searching,
         NEW p \in Top.left,
         stack' = Append([stack EXCEPT ![Len(stack)].left = @ \ {p}], Call(p)),
         UNCHANGED <<visited, written, tree, input>>
  PROVE  Searching'
<1>1. PICK N \in Nat \ {0} : N = Len(stack)
  BY TopFrame DEF Searching
<1>2. /\ N \in 1 .. N /\ \A k \in 1 .. N : k \in 1 .. N + 1
      /\ \A k \in 1 .. N + 1 : k \in 1 .. N \/ k = N + 1
      /\ \A k \in 2 .. N + 1 : k \in 2 .. N \/ k = N + 1
      /\ \A k \in 2 .. N : k \in 1 .. N
      /\ 1 \in 1 .. N /\ N + 1 # 1
  BY <1>1
<1>3. /\ stack' \in Seq(Frame) /\ Len(stack)' = N + 1
      /\ \A k \in 1 .. N :
           /\ stack'[k].type = stack[k].type /\ stack'[k].part = stack[k].part
           /\ stack'[k].left \subseteq stack[k].left
           /\ \A q \in stack[k].left : q \in stack'[k].left \/ (k = N /\ q = p)
      /\ stack'[N + 1] = Call(p)
  BY <1>1, CallFrame DEF Searching
<1>4. /\ stack'[N + 1].type = p /\ stack'[N + 1].part = "dependencies"
      /\ stack'[N + 1].left = {e.to : e \in {f \in edges : f.from = p}}
  BY <1>3 DEF Call
<1> HIDE DEF Call
<1>5. /\ types' = types /\ edges' = edges /\ visited' = visited /\ written' = written
      /\ renames' = renames /\ input' = input
      /\ \A q : Children(q)' = Children(q)
      /\ Positions' = Positions
      /\ \A q : Closed(q)' = Closed(q) /\ Opened(q)' = Opened(q)
  BY SameTypes, SameHeader
<1>6. \A k \in 1 .. N : (Writing(k)' <=> Writing(k)) /\ Targets(k)' = Targets(k)
  <2>1. \A k \in 1 .. N : Writing(k)' <=> Writing(k)
    BY <1>3 DEF Writing
  <2> QED
    BY <1>3, <1>5, <2>1 DEF Targets
<1>7. ~Writing(N + 1)' /\ Targets(N + 1)' = stack'[N + 1].left
  BY <1>4, <1>5 DEF Writing, Targets
<1>8. p \in Targets(N) /\ Top = stack[N] /\ N \in 1 .. Len(stack)
  BY <1>1, <1>2 DEF Searching, Frames, Top
<1>9. /\ p \in DOMAIN types /\ p \in Path /\ p # <<>>
      /\ Writing(N) => Front(p) = stack[N].type
      /\ ~Writing(N) => /\ stack[N].type \in DOMAIN types /\ stack[N].type # <<>>
                        /\ Front(p) = Front(stack[N].type)
  BY <1>8, LeftAround DEF Searching
<1>10. Frames'
  <2>1. stack' # <<>>
    BY <1>1, <1>3
  <2>2. stack'[1].type = <<>> /\ Writing(1)'
    BY <1>2, <1>3, <1>6 DEF Searching, Frames
  <2>3. \A k \in 2 .. N + 1 : stack'[k].type \in DOMAIN types
    BY <1>1, <1>2, <1>3, <1>4, <1>9 DEF Searching, Frames
  <2>4. \A k \in 1 .. N + 1 : stack'[k].left \subseteq Targets(k)'
    BY <1>1, <1>2, <1>3, <1>6, <1>7 DEF Searching, Frames
  <2> QED
    BY <1>3, <1>5, <2>1, <2>2, <2>3, <2>4 DEF Frames
<1>11. Beneath'
  <2>1. ASSUME NEW j \in 1 .. N + 1, NEW k \in 1 .. N + 1, j < k, Writing(j)'
        PROVE  IsStrictPrefix(stack'[j].type, stack'[k].type)
    <3>1. j \in 1 .. N /\ Writing(j)
      BY <1>1, <1>6, <2>1
    <3>2. CASE k \in 1 .. N
      BY <1>1, <1>3, <2>1, <3>1, <3>2 DEF Searching, Beneath
    <3>3. CASE k = N + 1
      <4>1. stack[j].type \in Path /\ stack[N].type \in Path
        BY <1>1, <1>2, <3>1, TopFrame DEF Searching
      <4>2. j # N => IsStrictPrefix(stack[j].type, stack[N].type)
        <5>1. j # N => j < N
          BY <1>1, <3>1
        <5> QED
          BY <1>1, <1>2, <3>1, <5>1 DEF Searching, Beneath
      <4>3. IsPrefix(stack[j].type, Front(p))
        <5>1. CASE j = N
          <6>1. Front(p) = stack[j].type
            BY <1>9, <3>1, <5>1
          <6> QED
            BY <4>1, <6>1, WholeIsStart DEF IsPrefix, Path
        <5>2. CASE j # N /\ Writing(N)
          BY <1>9, <4>2, <5>2 DEF IsStrictPrefix
        <5>3. CASE j # N /\ ~Writing(N)
          BY <1>9, <4>1, <4>2, <5>3, PrefixOfFront
        <5> QED
          BY <5>1, <5>2, <5>3
      <4>4. IsStrictPrefix(stack[j].type, p)
        BY <1>9, <4>1, <4>3, PrefixOfFront
      <4> QED
        BY <1>3, <1>4, <3>1, <3>3, <4>4
    <3> QED
      BY <1>2, <3>2, <3>3
  <2> QED
    BY <1>3, <2>1 DEF Beneath
<1>12. Pending'
  <2>1. ASSUME NEW k \in 1 .. N + 1, NEW q \in Targets(k)'
        PROVE  Done(k, q)'
    <3>1. CASE k = N + 1
      BY <1>7, <2>1, <3>1 DEF Done
    <3>2. CASE k = N /\ q = p
      <4>1. k < N + 1 /\ stack'[k + 1].type = q
        BY <1>1, <1>4, <3>2
      <4> QED
        BY <1>3, <4>1 DEF Done
    <3>3. CASE k \in 1 .. N /\ ~(k = N /\ q = p)
      <4>1. Done(k, q)
        BY <1>1, <1>6, <3>3 DEF Searching, Pending
      <4>2. CASE q \in stack[k].left
        BY <1>3, <3>3, <4>2 DEF Done
      <4>3. CASE Closed(q)
        BY <1>5, <4>3 DEF Done
      <4>4. CASE k < N /\ stack[k + 1].type = q
        <5>1. k + 1 \in 1 .. N /\ k < N + 1
          BY <1>1, <3>3, <4>4
        <5> QED
          BY <1>3, <4>4, <5>1 DEF Done
      <4> QED
        BY <1>1, <4>1, <4>2, <4>3, <4>4 DEF Done
    <3> QED
      BY <1>2, <3>1, <3>2, <3>3
  <2> QED
    BY <1>3, <2>1 DEF Pending
<1>13. Visits'
  <2>1. ASSUME NEW q \in visited
        PROVE  Met(q)' /\ Opened(q)' /\ Provided(q)' /\ Above(q) \subseteq visited
    <3>1. Met(q) /\ Opened(q) /\ Provided(q) /\ Above(q) \subseteq visited
      BY DEF Searching, Visits
    <3>2. Met(q)'
      <4>1. ASSUME NEW k \in 1 .. N, Writing(k), stack[k].type = q
            PROVE  k \in 1 .. N + 1 /\ Writing(k)' /\ stack'[k].type = q
        BY <1>2, <1>3, <1>6, <4>1
      <4> QED
        BY <1>1, <1>3, <1>5, <3>1, <4>1 DEF Met
    <3>3. Provided(q)'
      BY <1>5, <3>1 DEF Provided
    <3> QED
      BY <1>5, <3>1, <3>2, <3>3
  <2>2. ASSUME NEW k \in 2 .. N + 1
        PROVE  /\ Writing(k)' => stack'[k].type \in visited
               /\ Above(stack'[k].type) \subseteq visited
    <3>1. CASE k \in 2 .. N
      BY <1>1, <1>2, <1>3, <1>6, <3>1 DEF Searching, Visits
    <3>2. CASE k = N + 1
      <4>1. SUFFICES Above(p) \subseteq visited
        BY <1>4, <1>7, <3>2
      <4>2. \A s \in Above(p) : s = Front(p) \/ s \in Above(Front(p))
        BY <1>9, AroundChild
      <4>3. CASE ~Writing(N)
        <5>1. N \in 2 .. N /\ stack[N].type \in Path
          BY <1>1, <4>3, <1>2, TopFrame DEF Searching, Calling
        <5>2. Above(stack[N].type) \subseteq visited
          BY <1>1, <5>1 DEF Searching, Visits
        <5>3. Above(p) = Above(stack[N].type)
          BY <1>9, <4>3, <5>1, AroundFront
        <5> QED
          BY <5>2, <5>3
      <4>4. CASE Writing(N) /\ N = 1
        <5>1. Front(p) = <<>>
          BY <1>9, <4>4 DEF Searching, Frames
        <5>2. Above(p) = {}
          BY <1>9, <5>1, AroundFront
        <5> QED
          BY <5>2
      <4>5. CASE Writing(N) /\ N # 1
        <5>1. N \in 2 .. N
          BY <1>1, <4>5
        <5>2. stack[N].type \in visited /\ Above(stack[N].type) \subseteq visited
          BY <1>1, <4>5, <5>1 DEF Searching, Visits
        <5> QED
          BY <1>9, <4>2, <4>5, <5>2
      <4> QED
        BY <4>3, <4>4, <4>5
    <3> QED
      BY <1>2, <3>1, <3>2
  <2>3. \A q : Above(q)' = Above(q)
    BY DEF Above
  <2>4. \A k \in 2 .. N + 1 : Above(stack[k].type)' = Above(stack'[k].type)
    BY DEF Above
  <2> QED
    BY <1>3, <1>5, <2>1, <2>2, <2>3, <2>4 DEF Searching, Visits
<1>14. Completed'
  BY <1>5 DEF Searching, Completed
<1>15. Entries'
  BY <1>5 DEF Searching, Entries, Names
<1> QED
  BY <1>10, <1>11, <1>12, <1>13, <1>14, <1>15 DEF Searching

(* A call returns: its type is complete.                                         *)
LEMMA ReturnSearches ==
  ASSUME Shape, Placed, EachMoved, Edged, pc = "generate", Searching,
         Len(stack) > 1, stack' = Front(stack), Longer, NEW t, t = Top.type, Closed(t)',
         UNCHANGED <<visited, tree>>
  PROVE  Frames' /\ Beneath' /\ Pending' /\ Visits'
<1>1. PICK N \in Nat \ {0} : N = Len(stack)
  BY TopFrame DEF Searching
<1>2. /\ N - 1 \in Nat \ {0} /\ \A k \in 1 .. N - 1 : k \in 1 .. N
      /\ \A k \in 2 .. N - 1 : k \in 2 .. N /\ k \in 1 .. N - 1
      /\ \A k \in 1 .. N : k \in 1 .. N - 1 \/ k = N
      /\ 1 \in 1 .. N - 1 /\ N \in 1 .. N
  BY <1>1
<1>3. /\ stack' \in Seq(Frame) /\ Len(stack)' = N - 1
      /\ \A k \in 1 .. N - 1 : stack'[k] = stack[k]
  BY <1>1, ReturnFrame DEF Searching
<1>4. /\ types' = types /\ edges' = edges /\ visited' = visited
      /\ \A q : Children(q)' = Children(q)
      /\ \A q : (Closed(q) => Closed(q)') /\ (Opened(q) => Opened(q)')
  BY SameTypes, Later
<1>5. \A k \in 1 .. N - 1 : (Writing(k)' <=> Writing(k)) /\ Targets(k)' = Targets(k)
  <2>1. \A k \in 1 .. N - 1 : Writing(k)' <=> Writing(k)
    BY <1>3 DEF Writing
  <2> QED
    BY <1>3, <1>4, <2>1 DEF Targets
<1>6. t = stack[N].type /\ Closed(t)'
  BY <1>1 DEF Top
<1>7. Frames'
  <2>1. stack' # <<>>
    BY <1>2, <1>3
  <2> QED
    BY <1>1, <1>2, <1>3, <1>4, <1>5, <2>1 DEF Searching, Frames
<1>8. Beneath'
  <2>1. ASSUME NEW j \in 1 .. N - 1, NEW k \in 1 .. N - 1, j < k, Writing(j)
        PROVE  IsStrictPrefix(stack[j].type, stack[k].type)
    BY <1>1, <1>2, <2>1 DEF Searching, Beneath
  <2> QED
    BY <1>3, <1>5, <2>1 DEF Beneath
<1>9. Pending'
  <2>1. ASSUME NEW k \in 1 .. N - 1, NEW q \in Targets(k) PROVE Done(k, q)'
    <3>1. Done(k, q)
      BY <1>1, <1>2 DEF Searching, Pending
    <3>2. CASE q \in stack[k].left
      BY <1>3, <3>2 DEF Done
    <3>3. CASE Closed(q)
      BY <1>4, <3>3 DEF Done
    <3>4. CASE k < N /\ stack[k + 1].type = q
      <4>1. CASE k = N - 1
        <5>1. k + 1 = N
          BY <1>1, <4>1
        <5> QED
          BY <1>6, <3>4, <5>1 DEF Done
      <4>2. CASE k # N - 1
        <5>1. k + 1 \in 1 .. N - 1 /\ k < N - 1
          BY <1>1, <1>2, <4>2
        <5> QED
          BY <1>3, <3>4, <5>1 DEF Done
      <4> QED
        BY <4>1, <4>2
    <3> QED
      BY <1>1, <3>1, <3>2, <3>3, <3>4 DEF Done
  <2> QED
    BY <1>3, <1>5, <2>1 DEF Pending
<1>10. Visits'
  <2>1. ASSUME NEW q \in visited
        PROVE  Met(q)' /\ Opened(q)' /\ Provided(q)' /\ Above(q) \subseteq visited
    <3>1. Met(q) /\ Opened(q) /\ Provided(q) /\ Above(q) \subseteq visited
      BY DEF Searching, Visits
    <3>2. Met(q)'
      <4>1. CASE Closed(q)
        BY <1>4, <4>1 DEF Met
      <4>2. ASSUME NEW k \in 1 .. N, Writing(k), stack[k].type = q
            PROVE  Met(q)'
        <5>1. CASE k = N
          BY <1>6, <4>2, <5>1 DEF Met
        <5>2. CASE k \in 1 .. N - 1
          BY <1>3, <1>5, <4>2, <5>2 DEF Met
        <5> QED
          BY <1>2, <5>1, <5>2
      <4> QED
        BY <1>1, <3>1, <4>1, <4>2 DEF Met
    <3>3. Provided(q)'
      BY <1>4, <3>1 DEF Provided
    <3> QED
      BY <1>4, <3>1, <3>2, <3>3
  <2>2. ASSUME NEW k \in 2 .. N - 1
        PROVE  /\ Writing(k)' => stack'[k].type \in visited
               /\ Above(stack'[k].type) \subseteq visited
    BY <1>1, <1>2, <1>3, <1>5 DEF Searching, Visits
  <2>3. \A q : Above(q)' = Above(q)
    BY DEF Above
  <2>4. \A k \in 2 .. N - 1 : Above(stack[k].type)' = Above(stack'[k].type)
    BY DEF Above
  <2> QED
    BY <1>3, <1>4, <2>1, <2>2, <2>3, <2>4 DEF Searching, Visits
<1> QED
  BY <1>7, <1>8, <1>9, <1>10

(* A type that is met again in the loop over dependencies is not being written:     *)
(* it would be within itself.                                                  *)
LEMMA MetAgain ==
  ASSUME Shape, Placed, EachMoved, Searching, ~Writing(Len(stack)), Top.type \in visited
  PROVE  Closed(Top.type)
<1>1. Len(stack) \in 1 .. Len(stack) /\ Len(stack) \in Nat /\ Top.type \in Path
  BY TopFrame DEF Searching
<1>2. Met(Top.type)
  BY DEF Searching, Visits
<1>3. ASSUME NEW k \in 1 .. Len(stack), Writing(k), stack[k].type = Top.type PROVE FALSE
  <2>1. k < Len(stack)
    BY <1>1, <1>3
  <2>2. IsStrictPrefix(Top.type, Top.type)
    BY <1>1, <1>3, <2>1 DEF Searching, Beneath, Top
  <2> QED
    BY <2>2 DEF IsStrictPrefix
<1> QED
  BY <1>2, <1>3 DEF Met

LEMMA RevisitSearches ==
  ASSUME Shape, Placed, EachMoved, Edged, pc = "generate", Searching, Revisit
  PROVE  Searching'
<1>1. /\ Top.part = "dependencies" /\ Top.type \in visited /\ stack' = Front(stack)
      /\ visited' = visited /\ written' = written /\ UNCHANGED tree /\ input' = input
  BY DEF Revisit, InDependencies, Skips
<1>2. Calling(Len(stack))
  BY <1>1 DEF Calling, Top
<1>3. ~Writing(Len(stack)) /\ Len(stack) \in 2 .. Len(stack)
  BY <1>2, TopFrame DEF Searching
<1>4. Len(stack) > 1
  BY <1>3
<1>5. Closed(Top.type)
  BY <1>1, <1>3, MetAgain
<1>6. Longer
  BY <1>1 DEF Longer, Positions, Searching, Entries
<1>7. /\ types' = types /\ Positions' = Positions
      /\ \A p : Closed(p)' = Closed(p)
  BY <1>1, SameTypes, SameHeader
<1>8. PICK t : t = Top.type
  OBVIOUS
<1>13. Closed(t)'
  BY <1>5, <1>7, <1>8
<1>9. Frames' /\ Beneath' /\ Pending' /\ Visits'
  BY <1>1, <1>4, <1>6, <1>8, <1>13, ReturnSearches
<1>10. Completed'
  BY <1>1, <1>7 DEF Searching, Completed
<1>11. Entries'
  BY <1>1, <1>7 DEF Searching, Entries, Names
<1> QED
  BY <1>9, <1>10, <1>11 DEF Searching

LEMMA SaysPaths ==
  ASSUME Shape, Placed, NEW d \in input
  PROVE  /\ Heading(d) \in SUBSET [by : Uses, type : Name, as : Path]
         /\ Trailer(d) \in SUBSET [by : Uses, type : Name, as : Path]
<1>1. \A name \in Name : PathOf(name) \in Path
  <2>1. ASSUME NEW name \in Name PROVE PathOf(name) \in Path
    <3>1. CASE name \in DOMAIN renames
      <4>1. PathOf(name) = Nested(name)
        BY <3>1 DEF Placed, PathOf
      <4> QED
        BY <4>1, NestedPath
    <3>2. CASE name \notin DOMAIN renames
      BY <3>2 DEF PathOf, Path
    <3> QED
      BY <3>1, <3>2
  <2> QED
    BY <2>1
<1>2. \A u \in d.uses : u.by \in Uses /\ u.type \in Name
  BY InputTypes
<1>3. \A uses : Says(d, uses) \in SUBSET [by : Uses, type : Name, as : Path]
  BY <1>1, <1>2 DEF Says, CxxName
<1>4. [by |-> "base", type |-> BaseDef, as |-> <<BaseDef>>] \in [by : Uses, type : Name, as : Path]
  BY DefCompilerAssumption DEF Uses, Path
<1> QED
  BY <1>3, <1>4 DEF Heading, Trailer

(* When a call has nothing left, the types that its type depends on are complete.    *)
LEMMA TopProvided ==
  ASSUME Shape, Placed, EachMoved, Searching, ~Writing(Len(stack)), Top.left = {}
  PROVE  Provided(Top.type) /\ Above(Top.type) \subseteq visited
<1>1. PICK N \in Nat \ {0} : N = Len(stack)
  BY TopFrame DEF Searching
<1>2. N \in 1 .. N /\ N \in 2 .. N /\ Top = stack[N]
  <2>1. Calling(N) /\ N \in 1 .. N
    BY <1>1, TopFrame DEF Searching
  <2> QED
    BY <1>1, <2>1, TopFrame DEF Searching, Top
<1>3. ASSUME NEW e \in edges, e.from = Top.type PROVE Closed(e.to)
  <2>1. e.to \in Targets(N)
    BY <1>1, <1>2, <1>3 DEF Targets
  <2>2. Done(N, e.to)
    BY <1>1, <1>2, <2>1 DEF Searching, Pending
  <2>3. stack[N].left = {} /\ ~(N < Len(stack))
    BY <1>1, <1>2
  <2> QED
    BY <2>2, <2>3 DEF Done
<1>4. Above(Top.type) \subseteq visited
  BY <1>1, <1>2 DEF Searching, Visits
<1> QED
  BY <1>3, <1>4 DEF Provided

LEMMA OpenSearches ==
  ASSUME Shape, Placed, EachMoved, Edged, pc = "generate", Searching, OpenType
  PROVE  Searching'
<1>1. /\ Top.part = "dependencies" /\ Top.left = {} /\ Top.type \notin visited
      /\ visited' = visited \cup {Top.type}
      /\ written' = Append(written, [do |-> "open", type |-> Top.type,
                                     says |-> Heading(types[Top.type])])
      /\ stack' = [stack EXCEPT ![Len(stack)] = Body(Top.type)]
      /\ UNCHANGED tree /\ input' = input
  BY DEF OpenType, InDependencies, Skips
<1>2. PICK N \in Nat \ {0} : N = Len(stack)
  BY TopFrame DEF Searching
<1>3. ~Writing(N) /\ N \in 2 .. N /\ N \in 1 .. N
  <2>1. Calling(N) /\ N \in 1 .. N
    BY <1>1, <1>2 DEF Calling, Top
  <2> QED
    BY <1>2, <2>1, TopFrame DEF Searching
<1>4. PICK t \in DOMAIN types : t = Top.type /\ t = stack[N].type
  BY <1>2, <1>3 DEF Searching, Frames, Top
<1>5. t \in Path /\ types[t] \in input
  BY TypesAround, NestedPaths
<1>6. PICK e \in Entry : e = [do |-> "open", type |-> t, says |-> Heading(types[t])]
  BY <1>5, SaysPaths DEF Entry
<1>7. written' = Append(written, e) /\ e.do = "open" /\ e.type = t
  BY <1>1, <1>4, <1>6
<1>8. /\ written' \in Seq(Entry) /\ Longer
      /\ written'[Len(written)'] = e /\ Len(written)' \in Positions'
      /\ \A i \in Positions' : i \in Positions \/ i = Len(written)'
      /\ \A p : Closed(p)' => Closed(p)
  BY <1>7, Appended DEF Searching, Entries
<1>9. \A p : (Closed(p)' <=> Closed(p)) /\ (Opened(p) => Opened(p)')
  BY <1>8, Later
<1>10. Opened(t)'
  BY <1>7, <1>8 DEF Opened, Is
<1>11. /\ types' = types /\ edges' = edges /\ renames' = renames
       /\ \A q : Children(q)' = Children(q)
  BY <1>1, SameTypes
<1>12. /\ stack' \in Seq(Frame) /\ Len(stack)' = N
       /\ \A k \in 1 .. N : k # N => stack'[k] = stack[k]
       /\ stack'[N].type = t /\ stack'[N].part = "body" /\ stack'[N].left = Children(t)
  BY <1>1, <1>2, <1>3, <1>4, OpenFrame DEF Body, Searching
<1>13. /\ \A k \in 1 .. N : k # N => (Writing(k)' <=> Writing(k)) /\ Targets(k)' = Targets(k)
       /\ Writing(N)' /\ Targets(N)' = Children(t)
       /\ \A k \in 1 .. N : stack'[k].type = stack[k].type
  <2>1. \A k \in 1 .. N : k # N => (Writing(k)' <=> Writing(k))
    BY <1>12 DEF Writing
  <2>2. Writing(N)'
    BY <1>12 DEF Writing
  <2>3. \A k \in 1 .. N : k # N => Targets(k)' = Targets(k)
    BY <1>11, <1>12, <2>1 DEF Targets
  <2>4. Targets(N)' = Children(t)
    BY <1>11, <1>12, <2>2 DEF Targets
  <2>5. \A k \in 1 .. N : stack'[k].type = stack[k].type
    BY <1>4, <1>12
  <2> QED
    BY <2>1, <2>2, <2>3, <2>4, <2>5
<1>14. Frames'
  <2>1. stack' # <<>> /\ 1 \in 1 .. N /\ 1 # N /\ \A k \in 2 .. N : k \in 1 .. N
    BY <1>2, <1>3, <1>12
  <2> QED
    BY <1>2, <1>11, <1>12, <1>13, <2>1 DEF Searching, Frames
<1>15. Beneath'
  <2>1. ASSUME NEW j \in 1 .. N, NEW k \in 1 .. N, j < k, Writing(j)'
        PROVE  IsStrictPrefix(stack[j].type, stack[k].type)
    <3>1. j # N
      BY <1>2, <2>1
    <3> QED
      BY <1>2, <1>13, <2>1, <3>1 DEF Searching, Beneath
  <2> QED
    BY <1>12, <1>13, <2>1 DEF Beneath
<1>16. Pending'
  <2>1. ASSUME NEW k \in 1 .. N, NEW q \in Targets(k)' PROVE Done(k, q)'
    <3>1. CASE k = N
      BY <1>12, <1>13, <2>1, <3>1 DEF Done
    <3>2. CASE k # N
      <4>1. Done(k, q) /\ k + 1 \in 1 .. N
        BY <1>2, <1>13, <2>1, <3>2 DEF Searching, Pending
      <4>2. stack'[k + 1].type = stack[k + 1].type
        BY <1>13, <4>1
      <4> QED
        BY <1>2, <1>9, <1>12, <3>2, <4>1, <4>2 DEF Done
    <3> QED
      BY <3>1, <3>2
  <2> QED
    BY <1>12, <2>1 DEF Pending
<1>17. Visits'
  <2>1. ASSUME NEW q \in visited
        PROVE  Met(q)' /\ Opened(q)' /\ Provided(q)' /\ Above(q) \subseteq visited
    <3>1. Met(q) /\ Opened(q) /\ Provided(q) /\ Above(q) \subseteq visited
      BY DEF Searching, Visits
    <3>2. Met(q)'
      <4>1. CASE Closed(q)
        BY <1>9, <4>1 DEF Met
      <4>2. ASSUME NEW k \in 1 .. N, Writing(k), stack[k].type = q
            PROVE  Met(q)'
        <5>1. k # N
          BY <1>3, <4>2
        <5>2. Writing(k)' /\ stack'[k].type = q
          BY <1>13, <4>2, <5>1
        <5> QED
          BY <1>12, <5>2 DEF Met
      <4> QED
        BY <1>2, <3>1, <4>1, <4>2 DEF Met
    <3>3. Provided(q)'
      BY <1>9, <1>11, <3>1 DEF Provided
    <3> QED
      BY <1>9, <3>1, <3>2, <3>3
  <2>2. Met(t)' /\ Opened(t)' /\ Provided(t)' /\ Above(t) \subseteq visited
    <3>1. Met(t)'
      BY <1>3, <1>12, <1>13 DEF Met
    <3>2. Provided(t) /\ Above(t) \subseteq visited
      BY <1>1, <1>2, <1>3, <1>4, TopProvided
    <3>3. Provided(t)'
      BY <1>9, <1>11, <3>2 DEF Provided
    <3> QED
      BY <1>10, <3>1, <3>2, <3>3
  <2>3. ASSUME NEW k \in 2 .. N
        PROVE  /\ Writing(k)' => stack'[k].type \in visited'
               /\ Above(stack'[k].type) \subseteq visited'
    <3>1. k \in 1 .. N /\ Above(stack[k].type) \subseteq visited
      BY <1>2 DEF Searching, Visits
    <3>2. CASE k = N
      BY <1>1, <1>4, <1>13, <3>1, <3>2
    <3>3. CASE k # N
      <4>1. Writing(k) => stack[k].type \in visited
        BY <1>2 DEF Searching, Visits
      <4> QED
        BY <1>1, <1>13, <3>1, <3>3, <4>1
    <3> QED
      BY <3>2, <3>3
  <2>4. \A q : Above(q)' = Above(q)
    BY DEF Above
  <2>5. \A k \in 2 .. N : Above(stack[k].type)' = Above(stack'[k].type)
    BY DEF Above
  <2>6. visited' = visited \cup {t} /\ visited \subseteq DOMAIN types
    BY <1>1, <1>4 DEF Searching, Visits
  <2> QED
    BY <1>11, <1>12, <2>1, <2>2, <2>3, <2>4, <2>5, <2>6 DEF Visits
<1>18. Completed'
  BY <1>1, <1>9, <1>11 DEF Searching, Completed
<1>19. Entries'
  <2>1. \A i \in Positions : i \in Positions' /\ written'[i] = written[i]
    BY <1>8 DEF Longer, Positions
  <2>2. \A i \in Positions' : written'[i].type \in DOMAIN types
    BY <1>7, <1>8, <2>1 DEF Searching, Entries
  <2> QED
    BY <1>1, <1>8, <1>11, <2>1, <2>2 DEF Searching, Entries, Names
<1> QED
  BY <1>14, <1>15, <1>16, <1>17, <1>18, <1>19 DEF Searching

(* When the types in the body of a type are complete, so are those within them.     *)
LEMMA ClosedWithin ==
  ASSUME Shape, Placed, EachMoved, Searching, NEW t \in DOMAIN types,
         \A p \in Children(t) : Closed(p), NEW q \in DOMAIN types, IsPrefix(t, q)
  PROVE  q = t \/ Closed(q)
<1>1. SUFFICES ASSUME q # t PROVE Closed(q)
  OBVIOUS
<1>2. /\ t \in Path /\ q \in Path /\ Len(t) \in Nat /\ Len(q) \in Nat
      /\ \A k \in 1 .. Len(q) : SubSeq(q, 1, k) \in DOMAIN types
  BY TypesAround
<1>3. Len(t) < Len(q) /\ t = SubSeq(q, 1, Len(t))
  <2>1. IsStrictPrefix(t, q)
    BY <1>1 DEF IsStrictPrefix
  <2> QED
    BY <1>2, <2>1, StrictIsShorter, PrefixIsStart DEF Path
<1> DEFINE c == SubSeq(q, 1, Len(t) + 1)
<1>4. Len(t) + 1 \in 1 .. Len(q)
  BY <1>2, <1>3
<1>5. c \in DOMAIN types /\ c # <<>>
  BY <1>2, <1>4, TypesAround
<1>6. Front(c) = t
  BY <1>2, <1>3, <1>4, FrontOfStart
<1>7. IsPrefix(c, q)
  BY <1>2, <1>4, StartIsPrefix DEF Path
<1>8. Closed(c)
  BY <1>5, <1>6 DEF Children
<1> HIDE DEF c
<1> QED
  BY <1>5, <1>7, <1>8 DEF Searching, Completed

(* What a type depends on is nested in it, or complete if the edges from the type    *)
(* and from those around it lead to complete types.                               *)
LEMMA NeededIsClosed ==
  ASSUME Shape, Placed, EachMoved, Edged, pc = "generate", Searching, NEW t \in DOMAIN types,
         Provided(t), \A s \in Above(t) : Provided(s), NEW name \in Dependencies(types[t])
  PROVE  /\ name \in Names /\ name \in Name /\ PathOf(name) = Nested(name)
         /\ Nested(name) \in DOMAIN types
         /\ IsPrefix(t, Nested(name)) \/ Closed(Nested(name))
<1>1. types[t] \in input
  BY NestedPaths
<1>2. name \in Name
  BY <1>1, InputTypes
<1>3. Needs(t, name)
  BY DEF Edged
<1>4. name \in Names /\ PathOf(name) = Nested(name) /\ Nested(name) \in DOMAIN types
  BY <1>2, <1>3, NestedPaths DEF Needs
<1>5. PICK q \in DOMAIN types : q = Nested(name)
  BY <1>4
<1>6. /\ t \in Path /\ q \in Path /\ Len(t) \in Nat \ {0} /\ Len(q) \in Nat \ {0}
      /\ \A k \in 1 .. Len(q) : SubSeq(q, 1, k) \in DOMAIN types
  BY TypesAround
<1>7. ASSUME NEW n \in 0 .. Len(t) - 1, n < Len(q),
             [scope |-> SubSeq(t, 1, n), from |-> SubSeq(t, 1, n + 1),
              to |-> SubSeq(q, 1, n + 1)] \in edges
      PROVE  Closed(q)
  <2>1. PICK e \in edges : e.from = SubSeq(t, 1, n + 1) /\ e.to = SubSeq(q, 1, n + 1)
    BY <1>7
  <2>2. n + 1 \in 1 .. Len(t) /\ n + 1 \in 1 .. Len(q) /\ n + 1 \in 0 .. Len(q)
    BY <1>6, <1>7
  <2>3. Provided(e.from)
    <3>1. CASE n + 1 = Len(t)
      <4>1. e.from = t
        BY <1>6, <2>1, <3>1, WholeIsStart DEF Path
      <4> QED
        BY <4>1
    <3>2. CASE n + 1 # Len(t)
      <4>1. n + 1 \in 1 .. Len(t) - 1
        BY <1>6, <2>2, <3>2
      <4>2. e.from \in Above(t)
        BY <2>1, <4>1 DEF Above
      <4> QED
        BY <4>2
    <3> QED
      BY <3>1, <3>2
  <2>4. Closed(e.to)
    BY <2>3 DEF Provided
  <2>5. e.to \in DOMAIN types
    BY <1>6, <2>1, <2>2
  <2>6. IsPrefix(e.to, q)
    BY <1>6, <2>1, <2>2, StartIsPrefix DEF Path
  <2> QED
    BY <2>4, <2>5, <2>6 DEF Searching, Completed
<1>8. IsPrefix(t, q) \/ Closed(q)
  BY <1>3, <1>4, <1>5, <1>7 DEF Needs, Leads
<1> QED
  BY <1>2, <1>4, <1>5, <1>8

LEMMA CloseSearches ==
  ASSUME Shape, Placed, EachMoved, Edged, pc = "generate", Searching, CloseType
  PROVE  Searching'
<1>1. /\ Top.part = "body" /\ Top.left = {} /\ Len(stack) > 1
      /\ written' = Append(written, [do |-> "close", type |-> Top.type,
                                     says |-> Trailer(types[Top.type])])
      /\ stack' = Front(stack) /\ visited' = visited
      /\ UNCHANGED tree /\ input' = input
  BY DEF CloseType, InBody
<1>2. PICK N \in Nat \ {0} : N = Len(stack)
  BY TopFrame DEF Searching
<1>3. Writing(N) /\ N \in 2 .. N /\ N \in 1 .. N
  BY <1>1, <1>2 DEF Writing, Top
<1>4. PICK t \in DOMAIN types : t = Top.type /\ t = stack[N].type
  BY <1>2, <1>3 DEF Searching, Frames, Top
<1>5. t \in Path /\ types[t] \in input
  BY TypesAround, NestedPaths
<1>6. PICK e \in Entry : e = [do |-> "close", type |-> t, says |-> Trailer(types[t])]
  BY <1>5, SaysPaths DEF Entry
<1>7. written' = Append(written, e) /\ e.do = "close" /\ e.type = t
  BY <1>1, <1>4, <1>6
<1>8. /\ written' \in Seq(Entry) /\ Longer
      /\ written'[Len(written)'] = e /\ Len(written)' \in Positions'
      /\ \A i \in Positions' : i \in Positions \/ i = Len(written)'
      /\ \A p : Closed(p)' => Closed(p) \/ p = t
  <2>1. /\ written' \in Seq(Entry) /\ Longer
        /\ written'[Len(written)'] = e /\ Len(written)' \in Positions'
        /\ \A i \in Positions' : i \in Positions \/ i = Len(written)'
        /\ \A p : Closed(p)' => Closed(p) \/ (e.do = "close" /\ e.type = p)
    BY <1>7, Appended DEF Searching, Entries
  <2> QED
    BY <1>7, <2>1
<1>9. \A p : Closed(p) => Closed(p)'
  BY <1>8, Later
<1>10. Closed(t)'
  BY <1>7, <1>8 DEF Closed, Is
<1>11. types' = types
  BY <1>1, SameTypes
<1>12. Frames' /\ Beneath' /\ Pending' /\ Visits'
  BY <1>1, <1>4, <1>8, <1>10, ReturnSearches
<1>13. ASSUME NEW p \in Children(t) PROVE Closed(p)
  <2>1. p \in Targets(N)
    BY <1>3, <1>4 DEF Targets
  <2>2. Done(N, p)
    BY <1>2, <1>3, <2>1 DEF Searching, Pending
  <2>3. stack[N].left = {} /\ ~(N < Len(stack))
    BY <1>1, <1>2 DEF Top
  <2> QED
    BY <2>2, <2>3 DEF Done
<1>14. Completed'
  <2>1. ASSUME NEW p \in DOMAIN types, Closed(p)'
        PROVE  p \in visited /\ \A q \in DOMAIN types : IsPrefix(p, q) => Closed(q)'
    <3>1. CASE Closed(p)
      BY <1>9, <3>1 DEF Searching, Completed
    <3>2. CASE p = t
      <4>1. t \in visited
        BY <1>2, <1>3, <1>4 DEF Searching, Visits
      <4>2. \A q \in DOMAIN types : IsPrefix(t, q) => q = t \/ Closed(q)
        BY <1>13, ClosedWithin
      <4> QED
        BY <1>9, <1>10, <3>2, <4>1, <4>2
    <3> QED
      BY <1>8, <2>1, <3>1, <3>2
  <2> QED
    BY <1>1, <1>11, <2>1 DEF Completed
<1>15. Entries'
  <2>1. \A i \in Positions : i \in Positions' /\ written'[i] = written[i]
    BY <1>8 DEF Longer, Positions
  <2>2. \A i \in Positions' : written'[i].type \in DOMAIN types
    BY <1>7, <1>8, <2>1 DEF Searching, Entries
  <2> QED
    BY <1>1, <1>8, <1>11, <2>1, <2>2 DEF Searching, Entries, Names
<1> QED
  BY <1>12, <1>14, <1>15 DEF Searching

(* SetToSeq lists a finite set.                                                 *)
LEMMA Listed ==
  ASSUME NEW S, IsFiniteSet(S)
  PROVE  /\ SetToSeq(S) \in Seq(S) /\ Len(SetToSeq(S)) \in Nat
         /\ \A x \in S : \E i \in 1 .. Len(SetToSeq(S)) : SetToSeq(S)[i] = x
<1> DEFINE positions == 1 .. Cardinality(S)
           Enumerates(f) == f \in [positions -> S] /\ IsInjective(f)
<1>1. Cardinality(S) \in Nat /\ ExistsBijection(positions, S)
  BY FS_CardinalityType
<1>2. PICK b : b \in Bijection(positions, S)
  BY <1>1 DEF ExistsBijection
<1>3. Enumerates(b)
  BY <1>2 DEF Bijection, Injection, IsInjective
<1>4. SetToSeq(S) = CHOOSE f \in [positions -> S] : IsInjective(f)
  BY DEF SetToSeq
<1>5. Enumerates(SetToSeq(S))
  BY <1>3, <1>4
<1> DEFINE f == SetToSeq(S)
<1> HIDE DEF f
<1>6. f \in [positions -> S] /\ f \in Injection(positions, S)
  BY <1>5 DEF Injection, IsInjective, f
<1>7. Cardinality(positions) = Cardinality(S) /\ IsFiniteSet(positions)
  BY <1>1, FS_Interval
<1>8. f \in Surjection(positions, S)
  BY <1>6, <1>7, FS_Injection
<1>9. \A x \in S : \E i \in positions : f[i] = x
  BY <1>8 DEF Surjection
<1>10. f \in Seq(S) /\ Len(f) = Cardinality(S)
  BY <1>1, <1>6
<1> QED
  BY <1>1, <1>9, <1>10 DEF f

LEMMA DeclarationsFinite ==
  ASSUME Shape, Placed, EachMoved
  PROVE  IsFiniteSet({[do |-> "declare", type |-> p, says |-> {}] :
                        p \in {q \in Children(<<>>) : Declares(types[q])}})
<1> DEFINE declared == {q \in Children(<<>>) : Declares(types[q])}
           those == {d \in input : Nested(d.name) \in declared}
           entries == {[do |-> "declare", type |-> p, says |-> {}] : p \in declared}
           entry == [d \in those |-> [do |-> "declare", type |-> Nested(d.name), says |-> {}]]
<1>1. IsFiniteSet(those)
  BY InputTypes, FS_Subset
<1>2. \A p \in declared : \E d \in those : p = Nested(d.name)
  <2>1. ASSUME NEW p \in declared PROVE \E d \in those : p = Nested(d.name)
    <3>1. p \in DOMAIN types
      BY DEF Children
    <3>2. PICK n \in Names : p = Nested(n)
      BY <3>1, NestedPaths
    <3>3. PICK d \in input : d.name = n
      BY <3>2 DEF Names
    <3> QED
      BY <3>2, <3>3
  <2> QED
    BY <2>1
<1>3. entry \in Surjection(those, entries)
  <2>1. entry \in [those -> entries]
    OBVIOUS
  <2>2. ASSUME NEW x \in entries PROVE \E d \in those : entry[d] = x
    <3>1. PICK p \in declared : x = [do |-> "declare", type |-> p, says |-> {}]
      OBVIOUS
    <3>2. PICK d \in those : p = Nested(d.name)
      BY <1>2
    <3> QED
      BY <3>1, <3>2
  <2> QED
    BY <2>1, <2>2 DEF Surjection
<1> HIDE DEF entry, those
<1> QED
  BY <1>1, <1>3, FS_Surjection

LEMMA ForwardDeclareSearches ==
  ASSUME Shape, Placed, EachMoved, Edged, ForwardDeclare
  PROVE  Searching' /\ \A i \in Positions' : written'[i].says = {}
<1> DEFINE declared == {q \in Children(<<>>) : Declares(types[q])}
           entries == {[do |-> "declare", type |-> p, says |-> {}] : p \in declared}
<1>1. /\ pc = "declare" /\ written' = SetToSeq(entries) /\ stack' = <<Body(<<>>)>>
      /\ visited' = visited /\ UNCHANGED tree /\ input' = input
  BY DEF ForwardDeclare
<1>2. visited' = {}
  BY <1>1 DEF Shape, Early
<1>3. /\ types' = types /\ edges' = edges
      /\ \A q : Children(q)' = Children(q)
  BY <1>1, SameTypes
<1>4. IsFiniteSet(entries)
  BY DeclarationsFinite
<1>5. \A p \in DOMAIN types : p \in Path
  BY TypesAround
<1>6. \A x \in entries : x \in Entry /\ x.do = "declare" /\ x.says = {} /\ x.type \in DOMAIN types
  <2>1. declared \subseteq DOMAIN types
    BY DEF Children
  <2> HIDE DEF declared
  <2> QED
    BY <1>5, <2>1 DEF Entry
<1>7. /\ written' \in Seq(entries) /\ Len(written') \in Nat
      /\ \A x \in entries : \E i \in 1 .. Len(written') : written'[i] = x
  BY <1>1, <1>4, Listed
<1>8. \A i \in Positions' : written'[i] \in entries
  BY <1>7 DEF Positions
<1> DEFINE E == entries
<1> HIDE DEF E
<1>9. written' \in Seq(Entry)
  <2>1. written' \in Seq(E) /\ \A x \in E : x \in Entry
    BY <1>6, <1>7 DEF E
  <2> QED
    BY <2>1
<1>10. \A i \in Positions' : /\ written'[i].do = "declare" /\ written'[i].says = {}
                             /\ written'[i].type \in DOMAIN types
  BY <1>6, <1>8
<1>11. \A p : ~Closed(p)'
  BY <1>10 DEF Closed, Is
<1>12. Body(<<>>) \in Frame
  <2>1. Children(<<>>) \subseteq Path
    BY <1>5 DEF Children
  <2> QED
    BY <2>1 DEF Body, Frame, Path
<1>13. /\ stack' \in Seq(Frame) /\ Len(stack') = 1 /\ stack'[1] = Body(<<>>)
  <2> HIDE DEF Body
  <2>1. PICK b \in Frame : b = Body(<<>>)
    BY <1>12
  <2>2. stack' = <<b>>
    BY <1>1, <2>1
  <2> QED
    BY <2>1, <2>2
<1>14. /\ stack'[1].type = <<>> /\ stack'[1].part = "body" /\ stack'[1].left = Children(<<>>)
  BY <1>13 DEF Body
<1>15. Writing(1)' /\ Targets(1)' = Children(<<>>)
  BY <1>3, <1>14 DEF Writing, Targets
<1>16. \A k \in 1 .. Len(stack)' : k = 1
  BY <1>13
<1>17. \A k \in 2 .. Len(stack)' : FALSE
  BY <1>13
<1>18. Frames'
  <2>1. stack' # <<>>
    BY <1>13
  <2> QED
    BY <1>13, <1>14, <1>15, <1>16, <1>17, <2>1 DEF Frames
<1>19. Beneath'
  <2>1. ASSUME NEW j \in 1 .. Len(stack)', NEW k \in 1 .. Len(stack)' PROVE ~(j < k)
    BY <1>13
  <2> QED
    BY <2>1 DEF Beneath
<1>20. Pending'
  <2>1. ASSUME NEW k \in 1 .. Len(stack)', NEW q \in Targets(k)' PROVE Done(k, q)'
    <3>1. k = 1
      BY <1>16
    <3>2. q \in stack'[k].left
      BY <1>14, <1>15, <2>1, <3>1
    <3> QED
      BY <3>2 DEF Done
  <2> QED
    BY <2>1 DEF Pending
<1>21. Visits'
  BY <1>2, <1>17 DEF Visits
<1>22. Completed'
  BY <1>11 DEF Completed
<1>23. Entries'
  <2>1. ASSUME NEW n \in Names, Len(n) = 1, Declares(types[Nested(n)])
        PROVE  \E i \in Positions' : written'[i].type = Nested(n)
    <3>1. n \in Name /\ Nested(n) \in DOMAIN types
      BY NestedPaths
    <3>2. Nested(n) = <<n>>
      BY <2>1, <3>1, NestedShort
    <3>3. PICK p : p = <<n>>
      OBVIOUS
    <3>4. p # <<>> /\ Front(p) = <<>>
      BY <3>3 DEF Front
    <3>5. p \in declared
      BY <2>1, <3>1, <3>2, <3>3, <3>4 DEF Children
    <3>6. PICK x \in entries : x = [do |-> "declare", type |-> p, says |-> {}]
      BY <3>5
    <3>7. x.type = p
      BY <3>6
    <3> QED
      BY <1>7, <3>2, <3>3, <3>7 DEF Positions
  <2> QED
    BY <1>1, <1>3, <1>9, <1>10, <2>1 DEF Entries, Names
<1> QED
  BY <1>10, <1>18, <1>19, <1>20, <1>21, <1>22, <1>23 DEF Searching

-----------------------------------------------------------------------------
(* What the entries say.                                                       *)

LEMMA NestedPrefix ==
  ASSUME NEW n \in Name, NEW m \in Name
  PROVE  /\ IsPrefix(Nested(n), Nested(m)) <=> IsPrefix(n, m)
         /\ IsPrefix(Nested(n), Nested(m)) /\ Nested(n) # Nested(m) => n # m
<1>1. /\ Nested(n) \in Seq(Name) /\ Len(Nested(n)) = Len(n) /\ Len(n) \in Nat
      /\ Nested(m) \in Seq(Name) /\ Len(Nested(m)) = Len(m) /\ Len(m) \in Nat
      /\ \A i \in 1 .. Len(n) : Nested(n)[i] = <<n[i]>>
      /\ \A i \in 1 .. Len(m) : Nested(m)[i] = <<m[i]>>
      /\ n \in Seq(Part) /\ m \in Seq(Part)
  BY NestedPath DEF Path, Name
<1>2. ASSUME IsPrefix(Nested(n), Nested(m)) PROVE IsPrefix(n, m)
  <2>1. Len(n) <= Len(m) /\ \A i \in 1 .. Len(n) : Nested(n)[i] = Nested(m)[i]
    BY <1>1, <1>2, PrefixIsStart
  <2>2. \A i \in 1 .. Len(n) : i \in 1 .. Len(m)
    BY <1>1, <2>1
  <2>3. \A i \in 1 .. Len(n) : <<n[i]>> = <<m[i]>>
    BY <1>1, <2>1, <2>2
  <2>4. \A i \in 1 .. Len(n) : n[i] = m[i]
    BY <2>3
  <2> QED
    BY <1>1, <2>1, <2>4, PrefixIsStart
<1>3. ASSUME IsPrefix(n, m) PROVE IsPrefix(Nested(n), Nested(m))
  <2>1. Len(n) <= Len(m) /\ \A i \in 1 .. Len(n) : n[i] = m[i]
    BY <1>1, <1>3, PrefixIsStart
  <2>2. \A i \in 1 .. Len(n) : i \in 1 .. Len(m)
    BY <1>1, <2>1
  <2>3. \A i \in 1 .. Len(n) : Nested(n)[i] = Nested(m)[i]
    BY <1>1, <2>1, <2>2
  <2> QED
    BY <1>1, <2>1, <2>3, PrefixIsStart
<1> QED
  BY <1>2, <1>3

(* A use of a type in the entry of the type at p is as it should be.                *)
Ready(u, p) ==
  u.by # "key" => (Closed(Nested(u.type)) <=> ~NamedWithin(types[p], u))

LEMMA EntryDefined ==
  ASSUME DefinedBeforeUse, written \in Seq(Entry), NEW e \in Entry,
         written' = Append(written, e), types' = types, \A u \in e.says : Ready(u, e.type)
  PROVE  DefinedBeforeUse'
<1>1. /\ Longer /\ Len(written') = Len(written) + 1 /\ Len(written) \in Nat
      /\ written'[Len(written)'] = e
      /\ \A i \in Positions' : i \in Positions \/ i = Len(written)'
  BY Appended
<1>2. \A i \in Positions : i \in Positions' /\ written'[i] = written[i]
  BY <1>1 DEF Longer, Positions
<1>3. ASSUME NEW i \in Positions, NEW p PROVE Complete(p, i)' <=> Complete(p, i)
  <2>1. \A j \in 1 .. i - 1 : j \in Positions
    BY <1>1 DEF Positions
  <2>2. \A j \in 1 .. i - 1 : Is(j, "close", p)' <=> Is(j, "close", p)
    BY <1>2, <2>1 DEF Is
  <2> QED
    BY <2>2 DEF Complete
<1>4. PICK n \in Nat : n = Len(written) /\ Len(written)' = n + 1
  BY <1>1
<1>5. ASSUME NEW p PROVE Complete(p, n + 1)' <=> Closed(p)
  <2>1. 1 .. (n + 1) - 1 = Positions
    BY <1>4 DEF Positions
  <2>2. \A j \in Positions : Is(j, "close", p)' <=> Is(j, "close", p)
    BY <1>2 DEF Is
  <2> QED
    BY <2>1, <2>2 DEF Complete, Closed
<1>6. ASSUME NEW i \in Positions', NEW u \in written'[i].says, u.by # "key"
      PROVE  Complete(Nested(u.type), i)' <=> ~NamedWithin(types[written'[i].type], u)
  <2>1. CASE i \in Positions
    <3>1. u \in written[i].says /\ written'[i] = written[i]
      BY <1>2, <1>6, <2>1
    <3>2. Complete(Nested(u.type), i) <=> ~NamedWithin(types[written[i].type], u)
      BY <1>6, <2>1, <3>1 DEF DefinedBeforeUse
    <3> QED
      BY <1>3, <2>1, <3>1, <3>2
  <2>2. CASE i = Len(written)'
    <3>1. u \in e.says /\ written'[i].type = e.type /\ i = n + 1
      BY <1>1, <1>4, <1>6, <2>2
    <3>2. Closed(Nested(u.type)) <=> ~NamedWithin(types[e.type], u)
      BY <1>6, <3>1 DEF Ready
    <3> QED
      BY <1>5, <3>1, <3>2
  <2> QED
    BY <1>1, <2>1, <2>2
<1>7. \A u : Nested(u.type)' = Nested(u.type)
  BY DEF Nested
<1>8. \A i, u : NamedWithin(types[written[i].type], u)' = NamedWithin(types[written'[i].type], u)
  BY DEF NamedWithin, UsesItself, DerivesFromNested
<1> QED
  BY <1>6, <1>7, <1>8 DEF DefinedBeforeUse

(* C++ finds a path from its root when that has been written, and when no scope in    *)
(* between holds a type of that name.                                            *)
LEMMA LookupRoot ==
  ASSUME NEW q, NEW p \in Path, NEW i \in Positions',
         \A j \in Positions' : written'[j].type \in DOMAIN types',
         Len(written)' \in Nat,
         \A n \in 1 .. Len(p) : Append(SubSeq(p, 1, n), q[1]) \notin DOMAIN types',
         <<q[1]>> \in Visible(i)', q \in Path
  PROVE  Lookup(q, p, i)' = q
<1> DEFINE Scope(n) == Append(SubSeq(p, 1, n), q[1])
           Least(n) == /\ n >= 0 => Scope(n) \in Visible(i)'
                       /\ \A m \in n + 1 .. Len(p) : Scope(m) \notin Visible(i)'
           n == CHOOSE k \in -1 .. Len(p) : Least(k)
<1>1. Len(p) \in Nat /\ p \in Seq(Name) /\ q \in Seq(Name)
  BY DEF Path
<1>2. Visible(i)' \subseteq DOMAIN types'
  <2>1. \A j \in 1 .. i : j \in Positions'
    BY DEF Positions
  <2> QED
    BY <2>1 DEF Visible
<1>3. Scope(0) = <<q[1]>>
  <2>1. SubSeq(p, 1, 0) = <<>>
    BY <1>1, WholeIsStart
  <2>2. Append(<<>>, q[1]) = <<q[1]>>
    OBVIOUS
  <2> QED
    BY <2>1, <2>2, Zenon
<1> HIDE DEF Scope
<1>4. \A m \in 1 .. Len(p) : Scope(m) \notin Visible(i)'
  BY <1>2 DEF Scope
<1>5. Least(0)
  BY <1>3, <1>4
<1>6. ASSUME NEW k \in -1 .. Len(p), Least(k) PROVE k = 0
  <2>1. CASE k = -1
    <3>1. 0 \in k + 1 .. Len(p)
      BY <1>1, <2>1
    <3> QED
      BY <1>3, <1>6, <3>1
  <2>2. CASE k \in 1 .. Len(p)
    BY <1>4, <1>6, <2>2
  <2> QED
    BY <1>1, <2>1, <2>2
<1>7. 0 \in -1 .. Len(p)
  BY <1>1
<1>8. n = 0
  <2> HIDE DEF Least
  <2> QED
    BY <1>5, <1>6, <1>7
<1>9. Lookup(q, p, i)' = IF n < 0 THEN <<>> ELSE SubSeq(p, 1, n) \o q
  BY DEF Lookup, Scope
<1>10. SubSeq(p, 1, 0) \o q = q
  <2>1. SubSeq(p, 1, 0) = <<>>
    BY <1>1, WholeIsStart
  <2>2. <<>> \o q = q
    BY <1>1
  <2> QED
    BY <2>1, <2>2
<1> HIDE DEF n
<1> QED
  BY <1>8, <1>9, <1>10

(* NamesResolve says nothing of some keys.                                         *)
Keyed(u) == u.by = "key" /\ ~(Len(u.type) = 1 /\ Named(u.type).kind \in {"def", "alias"})

Rooted(u) == /\ u.type \in Name /\ u.as = Nested(u.type)
             /\ \E j \in Positions : written[j].type = <<Nested(u.type)[1]>>

Resolved(u, p, i) == Shadowed(u.type, p) \/ Keyed(u) \/ Lookup(u.as, p, i) = Nested(u.type)

LEMMA EntryResolves ==
  ASSUME NamesResolve, written \in Seq(Entry), NEW e \in Entry,
         written' = Append(written, e), types' = types, input' = input,
         \A i \in Positions' : written'[i].type \in DOMAIN types,
         \A u \in e.says : Keyed(u) \/ Rooted(u)'
  PROVE  NamesResolve'
<1>1. /\ Longer /\ Len(written') = Len(written) + 1 /\ Len(written) \in Nat
      /\ written'[Len(written)'] = e /\ Len(written)' \in Positions'
      /\ \A i \in Positions' : i \in Positions \/ i = Len(written)'
  BY Appended
<1>2. \A i \in Positions : i \in Positions' /\ written'[i] = written[i]
  BY <1>1 DEF Longer, Positions
<1>3. \A t, p : Shadowed(t, p)' <=> Shadowed(t, p)
  BY DEF Shadowed
<1>4. \A t : Named(t)' = Named(t)
  BY DEF Named
<1>5. ASSUME NEW i \in Positions, NEW u \in written[i].says, NEW p, p = written[i].type
      PROVE  Resolved(u, p, i)'
  <2>2. Visible(i)' = Visible(i)
    <3>1. \A j \in 1 .. i : j \in Positions
      BY <1>1 DEF Positions
    <3>2. \A j \in 1 .. i : written'[j].type = written[j].type
      BY <1>2, <3>1
    <3> QED
      BY <3>2 DEF Visible
  <2>3. Lookup(u.as, p, i)' = Lookup(u.as, p, i)
    BY <2>2 DEF Lookup
  <2>4. Resolved(u, p, i)
    BY <1>5 DEF NamesResolve, Keyed, Resolved
  <2>5. Keyed(u)' <=> Keyed(u)
    BY <1>4 DEF Keyed
  <2> QED
    BY <1>3, <2>3, <2>4, <2>5 DEF Resolved
<1>6. PICK m : m = Len(written)' /\ m \in Positions'
  BY <1>1
<1>7. ASSUME NEW u \in e.says
      PROVE  Resolved(u, e.type, m)'
  <2>1. SUFFICES ASSUME ~Shadowed(u.type, e.type), ~Keyed(u)
                 PROVE  Lookup(u.as, e.type, m)' = Nested(u.type)
    <3>1. Keyed(u)' <=> Keyed(u)
      BY <1>4 DEF Keyed
    <3> QED
      BY <1>3, <3>1 DEF Resolved
  <2>2. /\ u.type \in Name /\ u.as = Nested(u.type)
        /\ \E j \in Positions' : written'[j].type = <<Nested(u.type)[1]>>
    BY <1>7, <2>1 DEF Rooted
  <2>3. PICK q \in Path : q = Nested(u.type)
    BY <2>2, NestedPath
  <2>4. \A n \in 1 .. Len(e.type) : Append(SubSeq(e.type, 1, n), q[1]) \notin DOMAIN types'
    BY <2>1, <2>3 DEF Shadowed
  <2>5. <<q[1]>> \in Visible(m)'
    BY <1>6, <2>2, <2>3 DEF Visible, Positions
  <2>6. e.type \in Path /\ Len(written)' \in Nat
    BY <1>1 DEF Entry
  <2>7. \A j \in Positions' : written'[j].type \in DOMAIN types'
    OBVIOUS
  <2>8. Lookup(q, e.type, m)' = q
    BY <1>6, <2>4, <2>5, <2>6, <2>7, LookupRoot
  <2> QED
    BY <2>2, <2>3, <2>8
<1>8. ASSUME NEW i \in Positions', NEW u \in written'[i].says, NEW p, p = written'[i].type
      PROVE  Resolved(u, p, i)'
  <2>1. CASE i \in Positions
    <3>1. u \in written[i].says /\ p = written[i].type
      BY <1>2, <1>8, <2>1
    <3> QED
      BY <1>5, <2>1, <3>1
  <2>2. CASE i = m
    BY <1>1, <1>6, <1>7, <1>8, <2>2
  <2> QED
    BY <1>1, <1>6, <2>1, <2>2
<1>9. ASSUME NEW i \in Positions', NEW u \in written'[i].says PROVE Resolved(u, written[i].type, i)'
  BY <1>8
<1> QED
  BY <1>9 DEF NamesResolve, Keyed, Resolved

LEMMA RootPart ==
  ASSUME NEW q \in Path, q # <<>>
  PROVE  SubSeq(q, 1, 1) = <<q[1]>> /\ 1 \in 1 .. Len(q) /\ q[1] \in Name
<1>1. q \in Seq(Name) /\ Len(q) \in Nat \ {0}
  BY DEF Path
<1>2. 1 \in 0 .. Len(q) /\ 1 \in 1 .. Len(q) /\ q[1] \in Name
  BY <1>1
<1>3. SubSeq(q, 1, 1) \in Seq(Name) /\ Len(SubSeq(q, 1, 1)) = 1 /\ SubSeq(q, 1, 1)[1] = q[1]
  BY <1>1, <1>2, Starts
<1>4. <<q[1]>> \in Seq(Name) /\ Len(<<q[1]>>) = 1 /\ <<q[1]>>[1] = q[1]
  BY <1>2
<1>5. \A i \in 1 .. Len(SubSeq(q, 1, 1)) : i = 1
  BY <1>3
<1>6. SubSeq(q, 1, 1) = <<q[1]>>
  BY <1>3, <1>4, <1>5, SameSequences
<1> QED
  BY <1>2, <1>6

(* The root of a type that has been met is written.                               *)
LEMMA RootWritten ==
  ASSUME Shape, Placed, EachMoved, types' = types, Visits', NEW q \in visited'
  PROVE  q \in Path /\ \E j \in Positions' : written'[j].type = <<q[1]>>
<1>1. q \in DOMAIN types /\ Opened(q)' /\ Above(q) \subseteq visited'
  <2>1. \A p \in visited' : p \in DOMAIN types' /\ Opened(p)' /\ Above(p)' \subseteq visited'
    BY DEF Visits
  <2>2. Above(q)' = Above(q)
    BY DEF Above
  <2> QED
    BY <2>1, <2>2
<1>2. q \in Path /\ q # <<>> /\ Len(q) \in Nat \ {0}
  BY <1>1, TypesAround
<1>3. PICK root : root = SubSeq(q, 1, 1) /\ root = <<q[1]>>
  BY <1>2, RootPart
<1>4. root \in visited'
  <2>1. CASE Len(q) = 1
    <3>1. root = q
      BY <1>2, <1>3, <2>1, WholeIsStart DEF Path
    <3> QED
      BY <3>1
  <2>2. CASE Len(q) # 1
    <3>1. 1 \in 1 .. Len(q) - 1
      <4>1. PICK n \in Nat \ {0} : n = Len(q)
        BY <1>2
      <4>2. n # 1 => 1 \in 1 .. n - 1
        OBVIOUS
      <4> QED
        BY <2>2, <4>1, <4>2
    <3>2. root \in Above(q)
      BY <1>3, <3>1 DEF Above
    <3> QED
      BY <1>1, <3>2
  <2> QED
    BY <2>1, <2>2
<1>5. Opened(root)'
  BY <1>4 DEF Visits
<1> QED
  BY <1>2, <1>3, <1>5 DEF Opened, Is

(* What the entry of a type says of one that it depends on.                         *)
LEMMA DependencySaid ==
  ASSUME Shape, Placed, EachMoved, Edged, pc = "generate", Searching, NEW t \in DOMAIN types,
         Provided(t), \A s \in Above(t) : Provided(s), NEW u, u.type \in Dependencies(types[t]),
         u.as = Nested(u.type), types' = types, Visits', visited \subseteq visited', t \in visited'
  PROVE  /\ Rooted(u)'
         /\ u.by = "base" /\ (\A p \in DOMAIN types : IsPrefix(t, p) => ~Closed(p))
              => Ready(u, t)
         /\ u.by # "base" /\ (\A p \in Children(t) : Closed(p)) /\ ~Closed(t)
              => Ready(u, t)
<1>1. /\ u.type \in Name /\ Nested(u.type) \in DOMAIN types
      /\ IsPrefix(t, Nested(u.type)) \/ Closed(Nested(u.type))
  BY NeededIsClosed
<1>2. PICK q \in DOMAIN types : q = Nested(u.type)
  BY <1>1
<1>3. PICK n \in Names : t = Nested(n)
  BY NestedPaths
<1>4. n \in Name /\ types[t].name = n
  BY <1>3, NestedPaths
<1>5. /\ t \in Path /\ t # <<>> /\ Len(t) \in Nat \ {0} /\ q \in Path /\ q # <<>>
  BY TypesAround
<1>6. \E j \in Positions' : written'[j].type = <<q[1]>>
  <2>1. CASE IsPrefix(t, q)
    <3>1. t[1] = q[1]
      <4>1. 1 \in 1 .. Len(t) /\ \A i \in 1 .. Len(t) : t[i] = q[i]
        BY <1>5, <2>1, PrefixIsStart DEF Path
      <4> QED
        BY <4>1
    <3> QED
      BY <3>1, RootWritten
  <2>2. CASE Closed(q)
    <3>1. q \in visited'
      BY <2>2 DEF Searching, Completed
    <3> QED
      BY <3>1, RootWritten
  <2> QED
    BY <1>1, <1>2, <2>1, <2>2
<1>7. Rooted(u)'
  BY <1>1, <1>2, <1>6 DEF Rooted
<1>8. q = t <=> UsesItself(types[t], u)
  BY <1>1, <1>2, <1>3, <1>4, NestedInjective DEF UsesItself
<1>9. IsPrefix(t, q) <=> q = t \/ IsStrictPrefix(n, u.type)
  <2>1. IsPrefix(t, q) <=> IsPrefix(n, u.type)
    BY <1>1, <1>2, <1>3, <1>4, NestedPrefix
  <2>2. q = t <=> u.type = n
    BY <1>4, <1>8 DEF UsesItself
  <2>3. q = t => IsPrefix(t, q)
    BY <1>5, PrefixIsStart DEF Path
  <2> QED
    BY <2>1, <2>2, <2>3 DEF IsStrictPrefix
<1>10. ASSUME u.by = "base", \A p \in DOMAIN types : IsPrefix(t, p) => ~Closed(p)
       PROVE  Ready(u, t)
  <2>1. NamedWithin(types[t], u) <=> IsPrefix(t, q)
    BY <1>4, <1>8, <1>9, <1>10 DEF NamedWithin, DerivesFromNested
  <2>2. Closed(q) <=> ~IsPrefix(t, q)
    BY <1>1, <1>2, <1>10
  <2> QED
    BY <1>2, <2>1, <2>2 DEF Ready
<1>11. ASSUME u.by # "base", \A p \in Children(t) : Closed(p), ~Closed(t)
       PROVE  Ready(u, t)
  <2>1. NamedWithin(types[t], u) <=> q = t
    BY <1>8, <1>11 DEF NamedWithin, DerivesFromNested
  <2>2. IsPrefix(t, q) => q = t \/ Closed(q)
    BY <1>11, ClosedWithin
  <2>3. Closed(q) <=> q # t
    BY <1>1, <1>2, <1>11, <2>2
  <2> QED
    BY <1>2, <2>1, <2>3 DEF Ready
<1> QED
  BY <1>7, <1>10, <1>11

(* A type that has not been met is not complete, nor is a type within it.           *)
LEMMA UnmetIsIncomplete ==
  ASSUME Shape, Placed, EachMoved, Searching, NEW t \in DOMAIN types, t \notin visited,
         NEW q \in DOMAIN types, IsPrefix(t, q)
  PROVE  ~Closed(q)
<1>1. SUFFICES ASSUME Closed(q) PROVE FALSE
  OBVIOUS
<1>2. q \in visited /\ Above(q) \subseteq visited
  BY <1>1 DEF Searching, Completed, Visits
<1>3. /\ t \in Path /\ q \in Path /\ Len(t) \in Nat \ {0} /\ Len(q) \in Nat \ {0}
  BY TypesAround
<1>4. IsStrictPrefix(t, q)
  BY <1>2 DEF IsStrictPrefix
<1>5. Len(t) < Len(q) /\ t = SubSeq(q, 1, Len(t))
  BY <1>3, <1>4, StrictIsShorter, PrefixIsStart DEF Path
<1>6. Len(t) \in 1 .. Len(q) - 1
  BY <1>3, <1>5
<1>7. t \in Above(q)
  BY <1>5, <1>6 DEF Above
<1> QED
  BY <1>2, <1>7

(* While the stack holds the same types in their bodies, and no more are complete,    *)
(* those are not.                                                               *)
LEMMA BodiesIncomplete ==
  ASSUME Incomplete, pc = "generate", pc' = "generate",
         \A k \in 2 .. Len(stack)' : Writing(k)' =>
           k \in 2 .. Len(stack) /\ Writing(k) /\ stack'[k].type = stack[k].type,
         \A q : Closed(q)' => Closed(q)
  PROVE  Incomplete'
  BY DEF Incomplete

LEMMA CallIncomplete ==
  ASSUME Shape, Placed, EachMoved, Edged, Searching, Incomplete,
         pc = "generate", pc' = "generate", NEW p \in Top.left,
         stack' = Append([stack EXCEPT ![Len(stack)].left = @ \ {p}], Call(p)),
         UNCHANGED written
  PROVE  Incomplete'
<1>1. PICK N \in Nat : N = Len(stack)
  BY TopFrame DEF Searching
<1>2. /\ Len(stack') = N + 1
      /\ \A k \in 1 .. N : stack'[k].type = stack[k].type /\ stack'[k].part = stack[k].part
      /\ stack'[N + 1] = Call(p)
  BY <1>1, CallFrame DEF Searching
<1>3. ~Writing(N + 1)'
  <2>1. Call(p).part = "dependencies"
    BY DEF Call
  <2> QED
    BY <1>2, <2>1 DEF Writing
<1>4. \A k \in 1 .. N : Writing(k)' <=> Writing(k)
  BY <1>2 DEF Writing
<1>5. \A k \in 2 .. Len(stack)' : (k \in 2 .. N /\ k \in 1 .. N) \/ k = N + 1
  BY <1>1, <1>2
<1>6. \A q : Closed(q)' = Closed(q)
  BY SameHeader
<1>7. \A k \in 2 .. Len(stack)' : Writing(k)' =>
        k \in 2 .. Len(stack) /\ Writing(k) /\ stack'[k].type = stack[k].type
  BY <1>1, <1>2, <1>3, <1>4, <1>5
<1> QED
  BY <1>6, <1>7, BodiesIncomplete

LEMMA RevisitIncomplete ==
  ASSUME Shape, Placed, EachMoved, Searching, Incomplete, pc = "generate", Revisit
  PROVE  Incomplete'
<1>1. /\ Top.part = "dependencies" /\ stack' = Front(stack) /\ written' = written
      /\ pc' = "generate"
  BY DEF Revisit, InDependencies
<1>2. Calling(Len(stack))
  BY <1>1 DEF Calling, Top
<1>3. Len(stack) > 1
  BY <1>2, TopFrame DEF Searching
<1>4. /\ Len(stack') = Len(stack) - 1 /\ Len(stack) \in Nat
      /\ \A k \in 1 .. Len(stack) - 1 : stack'[k] = stack[k]
  BY <1>1, <1>3, ReturnFrame, TopFrame DEF Searching
<1>5. \A k \in 2 .. Len(stack)' : k \in 2 .. Len(stack) /\ k \in 1 .. Len(stack) - 1
  BY <1>4
<1>6. \A k \in 2 .. Len(stack)' : Writing(k)' <=> Writing(k)
  BY <1>4, <1>5 DEF Writing
<1>7. \A q : Closed(q)' = Closed(q)
  BY <1>1, SameHeader
<1> QED
  BY <1>1, <1>4, <1>5, <1>6, <1>7, BodiesIncomplete

LEMMA OpenDefines ==
  ASSUME Shape, Placed, EachMoved, Edged, pc = "generate", Searching,
         Incomplete, DefinedBeforeUse, NamesResolve, OpenType
  PROVE  Incomplete' /\ DefinedBeforeUse' /\ NamesResolve'
<1>1. /\ Top.part = "dependencies" /\ Top.left = {} /\ Top.type \notin visited
      /\ stack' = [stack EXCEPT ![Len(stack)] = Body(Top.type)] /\ pc' = pc
      /\ visited' = visited \cup {Top.type}
      /\ written' = Append(written, [do |-> "open", type |-> Top.type,
                                     says |-> Heading(types[Top.type])])
      /\ UNCHANGED tree /\ input' = input
  BY DEF OpenType, InDependencies, Skips
<1>2. Calling(Len(stack))
  BY <1>1 DEF Calling, Top
<1>3. ~Writing(Len(stack)) /\ Len(stack) \in 2 .. Len(stack)
  BY <1>2, TopFrame DEF Searching
<1>4. PICK t \in DOMAIN types : t = Top.type
  BY <1>3 DEF Searching, Frames, Top
<1>5. t \in Path /\ types[t] \in input
  BY TypesAround, NestedPaths
<1>6. PICK e \in Entry : e = [do |-> "open", type |-> t, says |-> Heading(types[t])]
  BY <1>5, SaysPaths DEF Entry
<1>7. written' = Append(written, e) /\ e.type = t /\ e.says = Heading(types[t])
  BY <1>1, <1>4, <1>6
<1>8. Provided(t) /\ Above(t) \subseteq visited
  BY <1>1, <1>3, <1>4, TopProvided
<1>9. \A s \in Above(t) : Provided(s)
  BY <1>8 DEF Searching, Visits
<1>10. Visits' /\ Entries' /\ written \in Seq(Entry)
  BY OpenSearches DEF Searching, Entries
<1>11. types' = types
  BY <1>1, SameTypes
<1>12. ASSUME NEW u \in e.says
       PROVE  u.by = "base" /\ u.type \in Dependencies(types[t]) /\ u.as = Nested(u.type)
  <2>1. CASE u \in Says(types[t], {"base"})
    <3>1. PICK v \in types[t].uses :
            v.by = "base" /\ u = [by |-> v.by, type |-> v.type, as |-> CxxName(v.type)]
      BY <2>1 DEF Says
    <3>2. u.by = "base" /\ u.type = v.type /\ u.as = PathOf(v.type)
      BY <3>1 DEF CxxName
    <3>3. u.type \in Dependencies(types[t])
      BY <3>1, <3>2 DEF Dependencies
    <3>4. PathOf(u.type) = Nested(u.type)
      BY <1>8, <1>9, <3>3, NeededIsClosed
    <3> QED
      BY <3>2, <3>3, <3>4
  <2>2. CASE /\ types[t].kind = "def"
             /\ u = [by |-> "base", type |-> BaseDef, as |-> <<BaseDef>>]
    <3>1. u.by = "base" /\ u.type = BaseDef /\ u.as = <<BaseDef>>
      BY <2>2
    <3>2. u.type \in Dependencies(types[t])
      BY <2>2, <3>1 DEF Dependencies
    <3>3. Nested(BaseDef) = <<BaseDef>>
      BY NestedShort, DefCompilerAssumption
    <3> QED
      BY <3>1, <3>2, <3>3
  <2> QED
    BY <1>7, <1>12, <2>1, <2>2 DEF Heading
<1>13. t \in visited' /\ visited \subseteq visited'
  BY <1>1, <1>4
<1>18. \A q \in DOMAIN types : IsPrefix(t, q) => ~Closed(q)
  BY <1>1, <1>4, UnmetIsIncomplete
<1>14. \A u \in e.says : Ready(u, t) /\ Rooted(u)'
  <2>1. ASSUME NEW u \in e.says PROVE Ready(u, t) /\ Rooted(u)'
    BY <1>8, <1>9, <1>10, <1>11, <1>12, <1>13, <1>18, DependencySaid
  <2> QED
    BY <2>1
<1>15. DefinedBeforeUse'
  BY <1>7, <1>10, <1>11, <1>14, EntryDefined
<1>16. \A i \in Positions' : written'[i].type \in DOMAIN types
  BY <1>10, <1>11 DEF Entries
<1>17. NamesResolve'
  BY <1>1, <1>7, <1>10, <1>11, <1>14, <1>16, EntryResolves
<1>19. Incomplete'
  <2>1. /\ Len(stack') = Len(stack) /\ Len(stack) \in Nat \ {0}
        /\ \A k \in 1 .. Len(stack) : k # Len(stack) => stack'[k] = stack[k]
        /\ stack'[Len(stack)] = Body(t)
    BY <1>1, <1>3, <1>4, OpenFrame, TopFrame DEF Searching
  <2>2. stack'[Len(stack)].type = t
    BY <2>1 DEF Body
  <2>3. \A q : Closed(q)' => Closed(q)
    BY <1>6, <1>7, <1>10, Appended
  <2>4. IsPrefix(t, t)
    BY <1>5, PrefixIsStart DEF Path
  <2>5. ASSUME NEW k \in 2 .. Len(stack)', Writing(k)', NEW q, stack'[k].type = q
        PROVE  ~Closed(q)'
    <3>1. CASE k = Len(stack)
      BY <1>18, <2>2, <2>3, <2>4, <2>5, <3>1
    <3>2. CASE k # Len(stack)
      <4>1. k \in 2 .. Len(stack) /\ k \in 1 .. Len(stack) /\ stack'[k] = stack[k]
        BY <2>1, <3>2
      <4>2. Writing(k)
        BY <2>5, <4>1 DEF Writing
      <4> QED
        BY <1>1, <2>3, <2>5, <4>1, <4>2 DEF Incomplete
    <3> QED
      BY <3>1, <3>2
  <2> QED
    BY <1>1, <2>5 DEF Incomplete
<1> QED
  BY <1>15, <1>17, <1>19

LEMMA CloseDefines ==
  ASSUME Shape, Placed, EachMoved, Edged, pc = "generate", Searching,
         Incomplete, DefinedBeforeUse, NamesResolve, CloseType
  PROVE  Incomplete' /\ DefinedBeforeUse' /\ NamesResolve'
<1>1. /\ Top.part = "body" /\ Top.left = {} /\ Len(stack) > 1
      /\ \A u \in types[Top.type].uses : Found(u.type)
      /\ written' = Append(written, [do |-> "close", type |-> Top.type,
                                     says |-> Trailer(types[Top.type])])
      /\ visited' = visited /\ UNCHANGED tree /\ input' = input
      /\ stack' = Front(stack) /\ pc' = pc
  BY DEF CloseType, InBody
<1>2. PICK N \in Nat \ {0} : N = Len(stack)
  BY TopFrame DEF Searching
<1>3. Writing(N) /\ N \in 2 .. N /\ N \in 1 .. N
  BY <1>1, <1>2 DEF Writing, Top
<1>4. PICK t \in DOMAIN types : t = Top.type /\ t = stack[N].type
  BY <1>2, <1>3 DEF Searching, Frames, Top
<1>5. t \in Path /\ types[t] \in input
  BY TypesAround, NestedPaths
<1>6. PICK e \in Entry : e = [do |-> "close", type |-> t, says |-> Trailer(types[t])]
  BY <1>5, SaysPaths DEF Entry
<1>7. written' = Append(written, e) /\ e.type = t /\ e.says = Trailer(types[t])
  BY <1>1, <1>4, <1>6
<1>8. t \in visited
  BY <1>2, <1>3, <1>4 DEF Searching, Visits
<1>9. Provided(t) /\ \A s \in Above(t) : Provided(s)
  BY <1>8 DEF Searching, Visits
<1>10. Visits' /\ Entries' /\ written \in Seq(Entry)
  BY CloseSearches DEF Searching, Entries
<1>11. types' = types
  BY <1>1, SameTypes
<1>12. ASSUME NEW p \in Children(t) PROVE Closed(p)
  <2>1. p \in Targets(N)
    BY <1>3, <1>4 DEF Targets
  <2>2. Done(N, p)
    BY <1>2, <1>3, <2>1 DEF Searching, Pending
  <2>3. stack[N].left = {} /\ ~(N < Len(stack))
    BY <1>1, <1>2 DEF Top
  <2> QED
    BY <2>2, <2>3 DEF Done
<1>13. ASSUME NEW u \in e.says
       PROVE  /\ u.by \in {"value", "key"} /\ u.type \in Names /\ u.type \in Name
              /\ u.as = Nested(u.type)
              /\ u.by = "value" => u.type \in Dependencies(types[t])
  <2>1. PICK v \in types[t].uses :
          v.by \in {"value", "key"} /\ u = [by |-> v.by, type |-> v.type, as |-> CxxName(v.type)]
    BY <1>7, <1>13 DEF Trailer, Says
  <2>2. u.by = v.by /\ u.type = v.type /\ u.as = PathOf(v.type)
    BY <2>1 DEF CxxName
  <2>3. v.type \in Name /\ Found(v.type)
    BY <1>1, <1>4, <1>5, InputTypes
  <2>4. v.type \in Names /\ PathOf(v.type) = Nested(v.type)
    BY <2>3, NestedPaths
  <2>5. u.by = "value" => u.type \in Dependencies(types[t])
    BY <2>1, <2>2 DEF Dependencies
  <2> QED
    BY <2>1, <2>2, <2>3, <2>4, <2>5
<1>20. ~Closed(t)
  BY <1>2, <1>3, <1>4 DEF Incomplete
<1>14. ASSUME NEW u \in e.says, u.by = "value" PROVE Ready(u, t) /\ Rooted(u)'
  <2>1. u.by # "base" /\ u.type \in Dependencies(types[t]) /\ u.as = Nested(u.type)
    BY <1>13, <1>14
  <2> QED
    BY <1>1, <1>8, <1>9, <1>10, <1>11, <1>12, <1>20, <2>1, DependencySaid
<1>15. ASSUME NEW u \in e.says, u.by = "key" PROVE Ready(u, t) /\ (Keyed(u) \/ Rooted(u)')
  <2>1. Ready(u, t)
    BY <1>15 DEF Ready
  <2>2. SUFFICES ASSUME Len(u.type) = 1, Named(u.type).kind \in {"def", "alias"}
                 PROVE  Rooted(u)'
    BY <1>15, <2>1 DEF Keyed
  <2>3. u.type \in Names /\ u.type \in Name /\ u.as = Nested(u.type)
    BY <1>13
  <2>4. Nested(u.type) = <<u.type>>
    BY <2>2, <2>3, NestedShort
  <2>5. types[Nested(u.type)] = Named(u.type)
    <3>1. types[Nested(u.type)] \in input /\ types[Nested(u.type)].name = u.type
      BY <2>3, NestedPaths
    <3>2. \A d \in input : d.name = u.type => d = types[Nested(u.type)]
      BY <3>1 DEF Placed, UniqueNames
    <3> QED
      BY <3>1, <3>2 DEF Named
  <2>6. Declares(types[Nested(u.type)])
    BY <2>2, <2>5 DEF Declares
  <2>7. PICK j \in Positions' : written'[j].type = Nested(u.type)
    <3>1. Names' = Names
      BY <1>1 DEF Names
    <3> QED
      BY <1>10, <1>11, <2>2, <2>3, <2>6, <3>1 DEF Entries
  <2>8. <<Nested(u.type)[1]>> = Nested(u.type)
    BY <2>4
  <2> QED
    BY <2>3, <2>7, <2>8 DEF Rooted
<1>16. \A u \in e.says : Ready(u, e.type) /\ (Keyed(u) \/ Rooted(u)')
  BY <1>7, <1>13, <1>14, <1>15
<1>17. DefinedBeforeUse'
  BY <1>7, <1>10, <1>11, <1>16, EntryDefined
<1>18. \A i \in Positions' : written'[i].type \in DOMAIN types
  BY <1>10, <1>11 DEF Entries
<1>19. NamesResolve'
  BY <1>1, <1>7, <1>10, <1>11, <1>16, <1>18, EntryResolves
<1>21. Incomplete'
  <2>1. /\ Len(stack') = N - 1
        /\ \A k \in 1 .. N - 1 : stack'[k] = stack[k]
    BY <1>1, <1>2, ReturnFrame DEF Searching
  <2>2. \A q : Closed(q)' => Closed(q) \/ q = t
    <3>1. \A q : Closed(q)' => Closed(q) \/ (e.do = "close" /\ e.type = q)
      BY <1>6, <1>7, <1>10, Appended
    <3> QED
      BY <1>7, <3>1
  <2>3. ASSUME NEW k \in 2 .. Len(stack)', Writing(k)', NEW q, stack'[k].type = q
        PROVE  ~Closed(q)'
    <3>1. k \in 2 .. N /\ k \in 1 .. N /\ k \in 1 .. N - 1 /\ k < N
      BY <1>2, <2>1
    <3>2. stack'[k] = stack[k] /\ Writing(k)
      BY <2>1, <2>3, <3>1 DEF Writing
    <3>3. IsStrictPrefix(stack[k].type, t)
      BY <1>2, <1>3, <1>4, <3>1, <3>2 DEF Searching, Beneath
    <3>4. stack[k].type # t
      BY <3>3 DEF IsStrictPrefix
    <3> QED
      BY <1>2, <2>2, <2>3, <3>1, <3>2, <3>4 DEF Incomplete
  <2> QED
    BY <1>1, <2>3 DEF Incomplete
<1> QED
  BY <1>17, <1>19, <1>21

-----------------------------------------------------------------------------
(* The invariance.                                                             *)

LEMMA TreeKept ==
  ASSUME UNCHANGED <<tree, input>>
  PROVE  /\ Placed => Placed'
         /\ EachMoved => EachMoved'
         /\ pc \in {"declare", "generate", "done"} /\ Edged => Edged'
<1>1. types' = types /\ renames' = renames /\ edges' = edges /\ input' = input /\ Names' = Names
  BY DEF tree, Names
<1>2. Placed => Placed'
  BY <1>1 DEF Placed, UniqueNames, PathOf
<1>3. EachMoved => EachMoved'
  BY <1>1 DEF EachMoved
<1>4. \A name : Found(name)' = Found(name) /\ PathOf(name)' = PathOf(name)
  BY <1>1 DEF Found, PathOf
<1>5. ASSUME pc \in {"declare", "generate", "done"}, Edged PROVE Edged'
  <2>1. \A p, name : Needs(p, name) => Needs(p, name)'
    <3>1. ASSUME NEW p, NEW name, Needs(p, name) PROVE Needs(p, name)'
      <4>1. \A q : Leads(p, q)' = Leads(p, q)
        BY <1>1 DEF Leads
      <4> QED
        BY <1>4, <3>1, <4>1 DEF Needs
    <3> QED
      BY <3>1
  <2> QED
    BY <1>1, <1>5, <2>1 DEF Edged, Joins
<1> QED
  BY <1>2, <1>3, <1>5

LEMMA HeaderKept ==
  ASSUME UNCHANGED <<tree, input, written>>
  PROVE  /\ DefinedBeforeUse => DefinedBeforeUse'
         /\ NamesResolve => NamesResolve'
<1>1. types' = types /\ input' = input /\ written' = written /\ Positions' = Positions
  BY DEF tree, Positions
<1>2. \A p, i : Complete(p, i)' = Complete(p, i)
  BY <1>1 DEF Complete, Is
<1>3. DefinedBeforeUse => DefinedBeforeUse'
  BY <1>1, <1>2 DEF DefinedBeforeUse
<1>4. \A t, p : Shadowed(t, p)' = Shadowed(t, p)
  BY <1>1 DEF Shadowed
<1>5. \A t : Named(t)' = Named(t)
  BY <1>1 DEF Named
<1>6. \A i : Visible(i)' = Visible(i)
  BY <1>1 DEF Visible
<1>7. \A q, p, i : Lookup(q, p, i)' = Lookup(q, p, i)
  <2>1. ASSUME NEW q, NEW p, NEW i PROVE Lookup(q, p, i)' = Lookup(q, p, i)
    <3>1. Visible(i)' = Visible(i)
      BY <1>6
    <3> QED
      BY <3>1 DEF Lookup
  <2> QED
    BY <2>1
<1>8. NamesResolve => NamesResolve'
  BY <1>1, <1>4, <1>5, <1>7 DEF NamesResolve
<1> QED
  BY <1>3, <1>8

(* A header that says nothing yet.                                               *)
LEMMA NothingSaid ==
  ASSUME \A i \in Positions' : written'[i].says = {}
  PROVE  DefinedBeforeUse' /\ NamesResolve'
  BY DEF DefinedBeforeUse, NamesResolve

LEMMA Unwritten ==
  ASSUME written' = <<>>
  PROVE  DefinedBeforeUse' /\ NamesResolve'
<1>1. \A i \in Positions' : FALSE
  BY DEF Positions
<1> QED
  BY <1>1, NothingSaid

LEMMA InitInvariant ==
  Init => IInv
<1> SUFFICES ASSUME Init PROVE IInv
  OBVIOUS
<1> USE DEF Init
<1>1. Shape
  BY DEF Shape, Early
<1>2. Inserted
  BY DEF Inserted
<1>3. Nesting /\ AllNested /\ Edged /\ Search /\ Incomplete
  BY DEF Nesting, AllNested, Edged, Search, Incomplete, Late
<1>4. DefinedBeforeUse /\ NamesResolve
  <2>1. \A i \in Positions : FALSE
    BY DEF Positions
  <2> QED
    BY <2>1 DEF DefinedBeforeUse, NamesResolve
<1> QED
  BY <1>1, <1>2, <1>3, <1>4 DEF IInv

LEMMA NextInvariant ==
  IInv /\ [Next]_vars => IInv'
<1> SUFFICES ASSUME IInv, [Next]_vars PROVE IInv'
  OBVIOUS
<1>0. /\ Shape /\ Inserted /\ Nesting /\ AllNested /\ Edged /\ Search /\ Incomplete
      /\ DefinedBeforeUse /\ NamesResolve
  BY DEF IInv
<1>1. ASSUME pc = "generate"
      PROVE  Placed /\ EachMoved /\ Searching
  BY <1>0, <1>1 DEF Nesting, AllNested, Search, Late, Searching
<1>2. ASSUME UNCHANGED <<tree, output, input, unread>>,
             pc' \in {"failed", "crashed", "done"}, pc' = "done" => pc = "generate"
      PROVE  IInv'
  <2>1. Shape'
    BY <1>0, <1>2 DEF Shape, Early
  <2>2. Inserted' /\ Search' /\ Incomplete'
    BY <1>2 DEF Inserted, Search, Incomplete
  <2>3. Nesting' /\ AllNested'
    BY <1>0, <1>2, TreeKept DEF Nesting, AllNested, Late
  <2>4. Edged'
    BY <1>0, <1>2, TreeKept DEF Edged
  <2>5. DefinedBeforeUse' /\ NamesResolve'
    BY <1>0, <1>2, HeaderKept DEF output
  <2> QED
    BY <2>1, <2>2, <2>3, <2>4, <2>5 DEF IInv
<1>3. CASE Insert
  <2>1. pc = "insert" /\ pc' = pc /\ UNCHANGED <<output, input>>
    BY <1>3 DEF Insert
  <2>2. Shape'
    BY <1>0, <2>1 DEF Shape, output
  <2>3. Inserted'
    BY <1>0, <1>3, InsertKeeps
  <2>4. Nesting' /\ AllNested' /\ Edged' /\ Search' /\ Incomplete'
    BY <2>1 DEF Nesting, AllNested, Edged, Search, Incomplete, Late
  <2>5. written' = <<>>
    BY <1>0, <2>1 DEF Shape, Early, output
  <2> QED
    BY <2>2, <2>3, <2>4, <2>5, Unwritten DEF IInv
<1>4. CASE InsertsDone
  <2>1. pc = "insert" /\ pc' = "nest" /\ UNCHANGED <<output, input>>
    BY <1>4 DEF InsertsDone
  <2>2. Shape'
    BY <1>0, <2>1 DEF Shape, Early, output
  <2>3. Placed'
    BY <1>0, <1>4, InsertsDonePlaces
  <2>4. Inserted' /\ Nesting' /\ AllNested' /\ Edged' /\ Search' /\ Incomplete'
    BY <2>1, <2>3 DEF Inserted, Nesting, AllNested, Edged, Search, Incomplete, Late
  <2>5. written' = <<>>
    BY <1>0, <2>1 DEF Shape, Early, output
  <2> QED
    BY <2>2, <2>4, <2>5, Unwritten DEF IInv
<1>5. CASE Nest
  <2>1. pc = "nest" /\ pc' = pc /\ UNCHANGED <<output, input>>
    BY <1>5 DEF Nest
  <2>2. Shape'
    BY <1>0, <2>1 DEF Shape, output
  <2>3. Placed'
    BY <1>0, <1>5, <2>1, NestPlaces DEF Nesting
  <2>4. Inserted' /\ Nesting' /\ AllNested' /\ Edged' /\ Search' /\ Incomplete'
    BY <2>1, <2>3 DEF Inserted, Nesting, AllNested, Edged, Search, Incomplete, Late
  <2>5. written' = <<>>
    BY <1>0, <2>1 DEF Shape, Early, output
  <2> QED
    BY <2>2, <2>4, <2>5, Unwritten DEF IInv
<1>6. CASE NestsDone
  <2>1. pc = "nest" /\ pc' = "depend" /\ ToNest = {} /\ UNCHANGED <<tree, output, input>>
    BY <1>6 DEF NestsDone
  <2>2. Shape'
    BY <1>0, <2>1 DEF Shape, Early, output
  <2>3. Placed /\ EachMoved
    BY <1>0, <2>1, NestsDoneMoves DEF Nesting
  <2>4. Placed' /\ EachMoved'
    BY <2>1, <2>3, TreeKept
  <2>5. Inserted' /\ Nesting' /\ AllNested' /\ Edged' /\ Search' /\ Incomplete'
    BY <2>1, <2>4 DEF Inserted, Nesting, AllNested, Edged, Search, Incomplete
  <2>6. written' = <<>>
    BY <1>0, <2>1 DEF Shape, Early, output
  <2> QED
    BY <2>2, <2>5, <2>6, Unwritten DEF IInv
<1>7. CASE AddDependencies
  <2>1. pc = "depend" /\ pc' = "declare" /\ UNCHANGED <<types, renames, output, input>>
    BY <1>7 DEF AddDependencies
  <2>2. Shape'
    BY <1>0, <2>1 DEF Shape, Early, output
  <2>3. Placed /\ EachMoved
    BY <1>0, <2>1 DEF Nesting, AllNested, Late
  <2>4. Placed' /\ EachMoved'
    BY <2>1, <2>3 DEF Placed, EachMoved, UniqueNames, PathOf, Names
  <2>5. Edged'
    BY <1>0, <1>7, <2>3, AddDependenciesEdges
  <2>6. Inserted' /\ Nesting' /\ AllNested' /\ Search' /\ Incomplete'
    BY <2>1, <2>4 DEF Inserted, Nesting, AllNested, Search, Incomplete
  <2>7. written' = <<>>
    BY <1>0, <2>1 DEF Shape, Early, output
  <2> QED
    BY <2>2, <2>5, <2>6, <2>7, Unwritten DEF IInv
<1>8. CASE ForwardDeclare
  <2>1. pc = "declare" /\ pc' = "generate" /\ UNCHANGED <<tree, input>>
    BY <1>8 DEF ForwardDeclare
  <2>2. Placed /\ EachMoved
    BY <1>0, <2>1 DEF Nesting, AllNested, Late
  <2>3. Placed' /\ EachMoved' /\ Edged'
    BY <1>0, <2>1, <2>2, TreeKept
  <2>4. Searching' /\ DefinedBeforeUse' /\ NamesResolve'
    BY <1>0, <1>8, <2>2, ForwardDeclareSearches, NothingSaid
  <2>5. Shape' /\ Inserted' /\ Nesting' /\ AllNested' /\ Search'
    BY <1>0, <2>1, <2>3, <2>4 DEF Shape, Early, Inserted, Nesting, AllNested, Search, Searching
  <2>6. Incomplete'
    <3>1. stack' = <<Body(<<>>)>>
      BY <1>8 DEF ForwardDeclare
    <3> QED
      BY <3>1 DEF Incomplete
  <2> QED
    BY <2>3, <2>4, <2>5, <2>6 DEF IInv
<1>9. ASSUME pc = "generate", pc' = "generate", UNCHANGED <<tree, input>>,
             Searching', Incomplete', DefinedBeforeUse', NamesResolve'
      PROVE  IInv'
  <2>1. Placed' /\ EachMoved' /\ Edged'
    BY <1>0, <1>1, <1>9, TreeKept
  <2>2. Shape' /\ Inserted' /\ Nesting' /\ AllNested' /\ Search'
    BY <1>0, <1>9, <2>1 DEF Shape, Early, Inserted, Nesting, AllNested, Search, Searching
  <2> QED
    BY <1>9, <2>1, <2>2 DEF IInv
<1>10. ASSUME pc = "generate", Calls, UNCHANGED <<tree, input>> PROVE IInv'
  <2>1. PICK p \in Top.left :
          stack' = Append([stack EXCEPT ![Len(stack)].left = @ \ {p}], Call(p))
    BY <1>10 DEF Calls
  <2>2. UNCHANGED <<pc, visited, written, tree, input>>
    BY <1>10 DEF Calls
  <2>3. Searching'
    BY <1>0, <1>1, <1>10, <2>1, <2>2, CallSearches
  <2>5. Incomplete'
    BY <1>0, <1>1, <1>10, <2>1, <2>2, CallIncomplete
  <2>4. DefinedBeforeUse' /\ NamesResolve'
    BY <1>0, <2>2, HeaderKept
  <2> QED
    BY <1>9, <1>10, <2>2, <2>3, <2>4, <2>5
<1>11. ASSUME Overflows, UNCHANGED <<unread, tree, input>> PROVE IInv'
  BY <1>2, <1>11 DEF Overflows
<1>12. CASE CallDependency
  BY <1>10, <1>11, <1>12 DEF CallDependency, InDependencies
<1>13. CASE NextType
  BY <1>10, <1>11, <1>13 DEF NextType, InBody
<1>14. CASE Revisit
  <2>1. pc = "generate" /\ UNCHANGED <<pc, tree, written, input>>
    BY <1>14 DEF Revisit, InDependencies
  <2>2. Searching'
    BY <1>0, <1>1, <1>14, <2>1, RevisitSearches
  <2>3. Incomplete' /\ DefinedBeforeUse' /\ NamesResolve'
    BY <1>0, <1>1, <1>14, <2>1, RevisitIncomplete, HeaderKept
  <2> QED
    BY <1>9, <2>1, <2>2, <2>3
<1>15. CASE OpenType
  <2>1. pc = "generate" /\ UNCHANGED <<pc, tree, input>>
    BY <1>15 DEF OpenType, InDependencies
  <2>2. Searching' /\ Incomplete' /\ DefinedBeforeUse' /\ NamesResolve'
    BY <1>0, <1>1, <1>15, <2>1, OpenSearches, OpenDefines
  <2> QED
    BY <1>9, <2>1, <2>2
<1>16. CASE CloseType
  <2>1. pc = "generate" /\ UNCHANGED <<pc, tree, input>>
    BY <1>16 DEF CloseType, InBody
  <2>2. Searching' /\ Incomplete' /\ DefinedBeforeUse' /\ NamesResolve'
    BY <1>0, <1>1, <1>16, <2>1, CloseSearches, CloseDefines
  <2> QED
    BY <1>9, <2>1, <2>2
<1>17. CASE TypesDone
  BY <1>2, <1>17 DEF TypesDone, InBody
<1>18. CASE InsertDuplicate \/ NestOrphan \/ BadDependency \/ CloseUnknown
  <2>1. Fails
    BY <1>18 DEF InsertDuplicate, NestOrphan, BadDependency, CloseUnknown
  <2> QED
    BY <1>2, <2>1 DEF Fails
<1>19. CASE UNCHANGED vars
  <2>1. UNCHANGED <<pc, unread, tree, stack, visited, written, input>>
    BY <1>19 DEF vars, output
  <2>2. types' = types /\ renames' = renames /\ edges' = edges /\ Names' = Names
    BY <2>1 DEF tree, Names
  <2>3. Shape'
    BY <1>0, <2>1 DEF Shape
  <2>4. Inserted'
    BY <1>0, <2>1, <2>2 DEF Inserted
  <2>5. Nesting' /\ AllNested'
    BY <1>0, <2>1, TreeKept DEF Nesting, AllNested
  <2>6. Edged'
    BY <1>0, <2>1, TreeKept DEF Edged
  <2>7. DefinedBeforeUse' /\ NamesResolve'
    BY <1>0, <2>1, HeaderKept
  <2>8. Search'
    <3>1. stack' = stack /\ visited' = visited /\ written' = written /\ types' = types /\ edges' = edges
      BY <2>1, <2>2
    <3>2. /\ Positions' = Positions /\ \A q : Children(q)' = Children(q)
          /\ \A q : Closed(q)' = Closed(q) /\ Opened(q)' = Opened(q)
      BY <2>1, SameTypes, SameHeader
    <3>3. \A k : Writing(k)' <=> Writing(k)
      BY <3>1 DEF Writing
    <3>4. \A k : Targets(k)' = Targets(k)
      BY <3>1, <3>2, <3>3 DEF Targets
    <3>5. \A k, q : Done(k, q)' <=> Done(k, q)
      BY <3>1, <3>2 DEF Done
    <3>6. \A q : (Met(q)' <=> Met(q)) /\ (Provided(q)' <=> Provided(q)) /\ Above(q)' = Above(q)
      BY <3>1, <3>2, <3>3 DEF Met, Provided, Above
    <3>7. Frames => Frames'
      BY <3>1, <3>3, <3>4 DEF Frames
    <3>8. Beneath => Beneath'
      BY <3>1, <3>3 DEF Beneath
    <3>9. Pending => Pending'
      BY <3>1, <3>4, <3>5 DEF Pending
    <3>10. Visits => Visits'
      <4>1. \A k : Above(stack[k].type)' = Above(stack[k].type)
        BY <3>1 DEF Above
      <4> QED
        BY <3>1, <3>2, <3>3, <3>6, <4>1 DEF Visits
    <3>11. Completed => Completed'
      BY <3>1, <3>2 DEF Completed
    <3>12. Entries => Entries'
      BY <2>2, <3>1, <3>2 DEF Entries
    <3> QED
      BY <1>0, <2>1, <3>7, <3>8, <3>9, <3>10, <3>11, <3>12 DEF Search
  <2>9. Incomplete'
    <3>1. stack' = stack /\ pc' = pc /\ \A q : Closed(q)' = Closed(q)
      BY <2>1, SameHeader
    <3>2. \A k : Writing(k)' <=> Writing(k)
      BY <3>1 DEF Writing
    <3> QED
      BY <1>0, <3>1, <3>2 DEF Incomplete
  <2> QED
    BY <2>3, <2>4, <2>5, <2>6, <2>7, <2>8, <2>9 DEF IInv
<1> QED
  BY <1>3, <1>4, <1>5, <1>6, <1>7, <1>8, <1>12, <1>13, <1>14, <1>15, <1>16, <1>17, <1>18, <1>19
     DEF Next

(* Types are nested one by one, then joined by edges, then searched depth first.     *)
THEOREM Invariance ==
  Spec => []IInv
BY InitInvariant, NextInvariant, PTL DEF Spec

(* Once the types are nested each is where its name says, and is found there by its *)
(* name (ESODefCompiler::nestTypes, findTypeByName), whatever types there are.         *)
THEOREM NestedExactly ==
  Spec => []NestingExact
<1>1. IInv => NestingExact
  <2> SUFFICES ASSUME IInv, pc \in {"declare", "generate", "done"}
               PROVE  /\ DOMAIN types = {Nested(n) : n \in Names}
                      /\ \A n \in Names : Found(n) /\ types[PathOf(n)].name = n
    BY DEF NestingExact
  <2>1. Shape /\ Placed /\ EachMoved
    BY DEF IInv, Nesting, AllNested, Late
  <2> QED
    BY <2>1, NestedPaths
<1> QED
  BY <1>1, Invariance, PTL

(* A base and the type of a field are complete where the header names them, but for     *)
(* a type's use of itself and a base nested in it, which never are                      *)
(* (addDependencyToType, generateType): a type that is met again is not one that is    *)
(* being written (MetAgain), what a type needs is written before it or before a type    *)
(* around it (NeededIsClosed), and nothing in a type is complete before it is opened    *)
(* (UnmetIsIncomplete), nor the type while it is in its body (Incomplete).              *)
THEOREM DefinedFirst ==
  Spec => []DefinedBeforeUse
BY Invariance, PTL DEF IInv

(* What the header writes for a type is taken for that type: the root of its path      *)
(* has been opened, or declared, before (getCxxNameFor, generateForwardDeclarations).   *)
THEOREM NamesFound ==
  Spec => []NamesResolve
BY Invariance, PTL DEF IInv
-----------------------------------------------------------------------------
(* DirectiveFiles: lines and blocks.                                            *)

Letter == UNION {ToSet(f.text) : f \in Files}
Token == Seq(Letter)
Line == Seq(Token)

Ended(ls, i) == \E m \in i .. Len(ls) : ls[m][1] = END

LEMMA LeastInt ==
  ASSUME NEW S \in SUBSET Int, NEW m \in S, \A n \in S : m <= n
  PROVE  Min(S) = m
<1>1. \E x \in S : \A y \in S : x <= y
  OBVIOUS
<1>2. Min(S) \in S /\ \A y \in S : Min(S) <= y
  BY <1>1 DEF Min
<1>3. Min(S) <= m /\ m <= Min(S) /\ m \in Int /\ Min(S) \in Int
  BY <1>2
<1> HIDE DEF Min
<1> QED
  BY <1>3

(* A block ends at the first END, or is not at its end yet.                        *)
LEMMA BlockIs ==
  ASSUME NEW ls \in Seq(Line), NEW i \in 1 .. Len(ls), NEW e \in i + 1 .. Len(ls) + 1,
         e <= Len(ls) => ls[e][1] = END, \A j \in i .. e - 1 : ls[j][1] # END
  PROVE  Block(ls, i) = SubSeq(ls, i + 1, e - 1)
<1> DEFINE ends == {j \in i .. Len(ls) : ls[j][1] = END} \cup {Len(ls) + 1}
<1>1. ends \in SUBSET Int
  OBVIOUS
<1>2. e \in ends
  OBVIOUS
<1>3. \A n \in ends : e <= n
  <2> SUFFICES ASSUME NEW n \in ends, ~(e <= n) PROVE FALSE
    OBVIOUS
  <2>1. n \in i .. e - 1
    OBVIOUS
  <2>2. ls[n][1] = END
    OBVIOUS
  <2> QED
    BY <2>1, <2>2
<1> HIDE DEF ends
<1>4. Min(ends) = e
  BY <1>1, <1>2, <1>3, LeastInt
<1>5. Block(ls, i) = SubSeq(ls, i + 1, Min(ends) - 1)
  BY DEF Block, ends
<1> QED
  BY <1>4, <1>5

LEMMA EndedAt ==
  ASSUME NEW ls \in Seq(Line), NEW i \in 1 .. Len(ls), ls[i][1] # END, Ended(ls, i)
  PROVE  \E e \in i + 1 .. Len(ls) : ls[e][1] = END /\ \A j \in i .. e - 1 : ls[j][1] # END
<1> DEFINE S == {j \in i .. Len(ls) : ls[j][1] = END}
<1>1. S \in SUBSET Nat /\ S # {}
  BY DEF Ended
<1>2. PICK e \in S : \A n \in S : <<n, e>> \notin OpToRel(<, Nat)
  BY <1>1, NatLessThanWellFounded, WFMin, Zenon
<1>3. \A n \in S : ~(n < e)
  BY <1>1, <1>2, Zenon DEF OpToRel
<1>4. e \in i + 1 .. Len(ls) /\ ls[e][1] = END
  <2>1. e \in i .. Len(ls) /\ ls[e][1] = END
    OBVIOUS
  <2>2. e # i
    BY <2>1
  <2> QED
    BY <2>1, <2>2
<1>5. \A j \in i .. e - 1 : ls[j][1] # END
  BY <1>3, <1>4
<1> QED
  BY <1>4, <1>5

LEMMA PartsOfAppend ==
  ASSUME NEW ls \in Seq(Line), NEW line \in Line, NEW a \in 1 .. Len(ls) + 1
  PROVE  /\ \A b \in 0 .. Len(ls) : SubSeq(Append(ls, line), a, b) = SubSeq(ls, a, b)
         /\ SubSeq(Append(ls, line), a, Len(ls) + 1) = Append(SubSeq(ls, a, Len(ls)), line)
<1> DEFINE more == Append(ls, line)
           n == Len(ls)
<1>1. /\ more \in Seq(Line) /\ Len(more) = n + 1 /\ n \in Nat /\ more[n + 1] = line
      /\ \A j \in 1 .. n : more[j] = ls[j]
  OBVIOUS
<1> HIDE DEF more
<1>2. ASSUME NEW b \in 0 .. n PROVE SubSeq(more, a, b) = SubSeq(ls, a, b)
  <2>1. SubSeq(more, a, b) \in Seq(Line) /\ SubSeq(ls, a, b) \in Seq(Line)
    BY <1>1
  <2>2. Len(SubSeq(more, a, b)) = Len(SubSeq(ls, a, b))
    BY <1>1
  <2>3. \A k \in 1 .. Len(SubSeq(ls, a, b)) : SubSeq(more, a, b)[k] = SubSeq(ls, a, b)[k]
    BY <1>1
  <2> QED
    BY <2>1, <2>2, <2>3, SameSequences
<1>3. SubSeq(more, a, n + 1) = Append(SubSeq(ls, a, n), line)
  <2> DEFINE s == SubSeq(more, a, n + 1)
             t == SubSeq(ls, a, n)
             u == Append(t, line)
  <2>1. s \in Seq(Line) /\ Len(s) = n + 2 - a /\ \A k \in 1 .. n + 2 - a : s[k] = more[a + k - 1]
    BY <1>1
  <2>2. t \in Seq(Line) /\ Len(t) = n + 1 - a /\ \A k \in 1 .. n + 1 - a : t[k] = ls[a + k - 1]
    BY <1>1
  <2> HIDE DEF s, t
  <2>3. u \in Seq(Line) /\ Len(u) = n + 2 - a
        /\ (\A k \in 1 .. n + 1 - a : u[k] = t[k]) /\ u[n + 2 - a] = line
    BY <1>1, <2>2
  <2> HIDE DEF u
  <2>4. \A k \in 1 .. n + 2 - a : s[k] = u[k]
    <3> SUFFICES ASSUME NEW k \in 1 .. n + 2 - a PROVE s[k] = u[k]
      OBVIOUS
    <3>1. CASE k = n + 2 - a
      <4>1. a + k - 1 = n + 1
        BY <1>1, <3>1
      <4> QED
        BY <1>1, <2>1, <2>3, <3>1, <4>1
    <3>2. CASE k # n + 2 - a
      <4>1. k \in 1 .. n + 1 - a /\ a + k - 1 \in 1 .. n
        BY <1>1, <3>2
      <4> QED
        BY <1>1, <2>1, <2>2, <2>3, <4>1
    <3> QED
      BY <3>1, <3>2
  <2>5. s = u
    BY <2>1, <2>3, <2>4, SameSequences
  <2> QED
    BY <2>5 DEF s, t, u
<1> QED
  BY <1>2, <1>3 DEF more

(* What becomes of a block by one line more.                                     *)
LEMMA BlockGoesOn ==
  ASSUME NEW ls \in Seq(Line), NEW i \in 1 .. Len(ls), ls[i][1] # END, NEW line \in Line
  PROVE  LET more == Append(ls, line)
         IN  /\ Ended(ls, i) \/ line[1] = END => Block(more, i) = Block(ls, i) /\ Ended(more, i)
             /\ ~Ended(ls, i) /\ line[1] # END =>
                  Block(more, i) = Append(Block(ls, i), line) /\ ~Ended(more, i)
<1> DEFINE more == Append(ls, line)
           n == Len(ls)
<1>1. /\ more \in Seq(Line) /\ Len(more) = n + 1 /\ n \in Nat /\ more[n + 1] = line
      /\ \A j \in 1 .. n : more[j] = ls[j]
  OBVIOUS
<1>2. /\ \A b \in 0 .. n : SubSeq(more, i + 1, b) = SubSeq(ls, i + 1, b)
      /\ SubSeq(more, i + 1, n + 1) = Append(SubSeq(ls, i + 1, n), line)
  <2>1. i + 1 \in 1 .. n + 1
    OBVIOUS
  <2> QED
    BY <2>1, PartsOfAppend
<1> HIDE DEF more, n
<1>3. CASE Ended(ls, i)
  <2>1. PICK e \in i + 1 .. n : ls[e][1] = END /\ \A j \in i .. e - 1 : ls[j][1] # END
    BY <1>3, EndedAt DEF n
  <2>2. e \in i + 1 .. n + 1 /\ e \in i + 1 .. (n + 1) + 1 /\ i \in 1 .. n + 1 /\ e - 1 \in 0 .. n
    BY <1>1 DEF n
  <2>3. Block(ls, i) = SubSeq(ls, i + 1, e - 1)
    BY <2>1, <2>2, BlockIs DEF n
  <2>4. more[e][1] = END /\ \A j \in i .. e - 1 : more[j][1] # END
    BY <1>1, <2>1, <2>2
  <2>5. Block(more, i) = SubSeq(more, i + 1, e - 1)
    BY <1>1, <2>2, <2>4, BlockIs
  <2>6. Ended(more, i)
    BY <1>1, <2>1, <2>4 DEF Ended
  <2> QED
    BY <1>2, <1>3, <2>2, <2>3, <2>5, <2>6 DEF more
<1>4. CASE ~Ended(ls, i)
  <2>1. /\ i \in 1 .. n /\ i \in 1 .. n + 1 /\ n + 1 \in i + 1 .. n + 1 /\ n + 1 \in i + 1 .. (n + 1) + 1
        /\ n + 2 \in i + 1 .. (n + 1) + 1
    BY <1>1 DEF n
  <2>2. \A j \in i .. n : ls[j][1] # END /\ more[j][1] # END
    BY <1>1, <1>4, <2>1 DEF Ended, n
  <2>3. Block(ls, i) = SubSeq(ls, i + 1, n)
    <3>1. (n + 1) - 1 = n /\ ~(n + 1 <= n)
      BY <1>1
    <3> QED
      BY <1>1, <2>1, <2>2, <3>1, BlockIs DEF n
  <2>4. CASE line[1] = END
    <3>1. (n + 1) - 1 = n
      BY <1>1
    <3>2. Block(more, i) = SubSeq(more, i + 1, n)
      <4>1. more[n + 1][1] = END /\ \A j \in i .. (n + 1) - 1 : more[j][1] # END
        BY <1>1, <2>2, <2>4, <3>1
      <4>2. /\ i \in 1 .. Len(more) /\ n + 1 \in i + 1 .. Len(more) + 1
            /\ n + 1 <= Len(more) => more[n + 1][1] = END
        BY <1>1, <2>1, <2>4
      <4>3. Block(more, i) = SubSeq(more, i + 1, (n + 1) - 1)
        BY <1>1, <4>1, <4>2, BlockIs
      <4> QED
        BY <3>1, <4>3
    <3>3. Ended(more, i)
      BY <1>1, <2>1, <2>4 DEF Ended
    <3> QED
      BY <1>1, <1>2, <2>3, <2>4, <3>2, <3>3 DEF more
  <2>5. CASE line[1] # END
    <3>1. (n + 2) - 1 = n + 1 /\ ~(n + 2 <= n + 1)
      BY <1>1
    <3>2. \A j \in i .. n + 1 : more[j][1] # END
      BY <1>1, <2>2, <2>5
    <3>3. Block(more, i) = SubSeq(more, i + 1, n + 1)
      <4>1. \A j \in i .. (n + 2) - 1 : more[j][1] # END
        BY <3>1, <3>2
      <4>2. /\ i \in 1 .. Len(more) /\ n + 2 \in i + 1 .. Len(more) + 1
            /\ n + 2 <= Len(more) => more[n + 2][1] = END
        BY <1>1, <2>1, <3>1
      <4>3. Block(more, i) = SubSeq(more, i + 1, (n + 2) - 1)
        BY <1>1, <4>1, <4>2, BlockIs
      <4> QED
        BY <3>1, <4>3
    <3>4. ~Ended(more, i)
      BY <1>1, <3>2 DEF Ended
    <3> QED
      BY <1>2, <1>4, <2>3, <2>5, <3>3, <3>4 DEF more
  <2> QED
    BY <2>4, <2>5
<1> QED
  BY <1>3, <1>4 DEF more


(* A block that a line begins has no lines yet.                                   *)
LEMMA BlockBegins ==
  ASSUME NEW ls \in Seq(Line), NEW line \in Line, line[1] # END
  PROVE  LET more == Append(ls, line)
         IN  Block(more, Len(ls) + 1) = <<>> /\ ~Ended(more, Len(ls) + 1)
<1> DEFINE more == Append(ls, line)
           n == Len(ls)
<1>1. more \in Seq(Line) /\ Len(more) = n + 1 /\ n \in Nat /\ more[n + 1] = line
  OBVIOUS
<1> HIDE DEF more, n
<1>2. \A j \in n + 1 .. n + 1 : more[j][1] # END
  BY <1>1
<1>3. n + 1 \in 1 .. Len(more) /\ n + 2 \in (n + 1) + 1 .. Len(more) + 1 /\ ~(n + 2 <= Len(more))
      /\ (n + 2) - 1 = n + 1
  BY <1>1
<1>4. Block(more, n + 1) = SubSeq(more, (n + 1) + 1, (n + 2) - 1)
  BY <1>1, <1>2, <1>3, BlockIs
<1>5. SubSeq(more, (n + 1) + 1, n + 1) = <<>>
  BY <1>1
<1>6. ~Ended(more, n + 1)
  BY <1>1, <1>2 DEF Ended
<1> QED
  BY <1>3, <1>4, <1>5, <1>6 DEF more, n

(* A line heads a block if it stands outside of all others.                       *)
LEMMA HeadedAppended ==
  ASSUME NEW ls \in Seq(Line), NEW line \in Line, NEW kind
  PROVE  Headed(Append(ls, line), kind) =
           Headed(ls, kind) \cup (IF TopAt(ls, Len(ls) + 1) /\ line[1] = kind THEN {Len(ls) + 1} ELSE {})
<1> DEFINE more == Append(ls, line)
           n == Len(ls)
<1>1. /\ n \in Nat /\ DOMAIN more = 1 .. n + 1 /\ DOMAIN ls = 1 .. n /\ more[n + 1] = line
      /\ \A j \in 1 .. n : more[j] = ls[j]
  OBVIOUS
<1> HIDE DEF more, n
<1>2. \A i \in 1 .. n + 1 : TopAt(more, i) <=> TopAt(ls, i)
  <2> SUFFICES ASSUME NEW i \in 1 .. n + 1 PROVE TopAt(more, i) <=> TopAt(ls, i)
    OBVIOUS
  <2>1. i # 1 => i - 1 \in 1 .. n
    BY <1>1
  <2> QED
    BY <1>1, <2>1 DEF TopAt
<1>3. \A i : i \in 1 .. n + 1 <=> i \in 1 .. n \/ i = n + 1
  BY <1>1
<1>4. \A i : i \in Headed(more, kind) <=>
               \/ i \in Headed(ls, kind)
               \/ i = n + 1 /\ TopAt(ls, n + 1) /\ line[1] = kind
  <2> SUFFICES ASSUME NEW i
               PROVE  i \in Headed(more, kind) <=>
                        \/ i \in Headed(ls, kind)
                        \/ i = n + 1 /\ TopAt(ls, n + 1) /\ line[1] = kind
    OBVIOUS
  <2>1. i \in Headed(more, kind) <=> i \in 1 .. n + 1 /\ TopAt(more, i) /\ more[i][1] = kind
    BY <1>1 DEF Headed
  <2>2. i \in Headed(ls, kind) <=> i \in 1 .. n /\ TopAt(ls, i) /\ ls[i][1] = kind
    BY <1>1 DEF Headed
  <2>3. CASE i \in 1 .. n
    <3>1. i # n + 1
      BY <1>1, <2>3
    <3> QED
      BY <1>1, <1>2, <1>3, <2>1, <2>2, <2>3, <3>1
  <2>4. CASE i = n + 1
    <3>1. i \notin 1 .. n
      BY <1>1, <2>4
    <3> QED
      BY <1>1, <1>2, <1>3, <2>1, <2>2, <2>4, <3>1
  <2>5. CASE i \notin 1 .. n + 1
    <3>1. i # n + 1 /\ i \notin 1 .. n
      BY <1>3, <2>5
    <3> QED
      BY <2>1, <2>2, <2>5, <3>1
  <2> QED
    BY <1>3, <2>3, <2>4, <2>5
<1> QED
  BY <1>4 DEF more, n

LEMMA HeadedFinite ==
  ASSUME NEW ls \in Seq(Line), NEW kind
  PROVE  /\ Headed(ls, kind) \subseteq 1 .. Len(ls)
         /\ IsFiniteSet(Headed(ls, kind))
         /\ Cardinality(Headed(ls, kind)) \in Nat
<1>1. Headed(ls, kind) \subseteq 1 .. Len(ls) /\ Len(ls) \in Nat
  BY DEF Headed
<1>2. IsFiniteSet(1 .. Len(ls))
  BY <1>1, FS_Interval
<1> QED
  BY <1>1, <1>2, FS_Subset, FS_CardinalityType

(* The ranks of the headings of one kind are their numbers, in order.               *)
LEMMA RanksAreNumbers ==
  ASSUME NEW ls \in Seq(Line), NEW kind, NEW i \in Headed(ls, kind)
  PROVE  /\ Rank(ls, i) \in 1 .. Cardinality(Headed(ls, kind))
         /\ \A j \in Headed(ls, kind) : i < j => Rank(ls, i) < Rank(ls, j)
         /\ (\A j \in Headed(ls, kind) : j <= i) => Rank(ls, i) = Cardinality(Headed(ls, kind))
<1> DEFINE H == Headed(ls, kind)
           upTo(k) == {j \in H : j <= k}
<1>1. H \subseteq 1 .. Len(ls) /\ IsFiniteSet(H) /\ Cardinality(H) \in Nat /\ Len(ls) \in Nat
  BY HeadedFinite
<1>2. \A k \in H : Rank(ls, k) = Cardinality(upTo(k))
  <2>1. \A k \in H : ls[k][1] = kind
    BY DEF Headed
  <2> QED
    BY <2>1 DEF Rank
<1> HIDE DEF H
<1>3. \A k : upTo(k) \subseteq H
  OBVIOUS
<1>4. \A k : /\ IsFiniteSet(upTo(k)) /\ Cardinality(upTo(k)) \in Nat
             /\ Cardinality(upTo(k)) <= Cardinality(H)
  BY <1>1, <1>3, FS_Subset, FS_CardinalityType
<1>5. Cardinality(upTo(i)) # 0
  <2>1. i \in upTo(i)
    BY <1>1 DEF H
  <2>2. upTo(i) # {}
    BY <2>1
  <2> HIDE DEF upTo
  <2> QED
    BY <1>4, <2>2, FS_EmptySet
<1>6. ASSUME NEW j \in H, i < j PROVE Cardinality(upTo(i)) < Cardinality(upTo(j))
  <2>1. i \in H /\ i \in Int /\ j \in Int
    BY <1>1 DEF H
  <2>2. upTo(i) \subseteq upTo(j)
    <3>1. \A k \in H : k \in Int /\ (k <= i => k <= j)
      BY <1>1, <1>6, <2>1
    <3> QED
      BY <3>1
  <2>3. j \in upTo(j) /\ j \notin upTo(i)
    BY <1>1, <1>6, <2>1
  <2> HIDE DEF upTo
  <2>4. upTo(i) # upTo(j)
    BY <2>3
  <2>5. Cardinality(upTo(i)) <= Cardinality(upTo(j)) /\ Cardinality(upTo(i)) # Cardinality(upTo(j))
    BY <1>4, <2>2, <2>4, FS_Subset
  <2> QED
    BY <1>4, <2>5
<1>7. ASSUME \A j \in H : j <= i PROVE upTo(i) = H
  BY <1>7
<1> HIDE DEF upTo
<1>8. i \in H
  BY DEF H
<1>9. Rank(ls, i) \in 1 .. Cardinality(H)
  BY <1>1, <1>2, <1>4, <1>5, <1>8
<1>10. \A j \in H : i < j => Rank(ls, i) < Rank(ls, j)
  BY <1>2, <1>6, <1>8
<1>11. (\A j \in H : j <= i) => Rank(ls, i) = Cardinality(H)
  BY <1>2, <1>7, <1>8
<1> QED
  BY <1>9, <1>10, <1>11 DEF H

LEMMA RankStays ==
  ASSUME NEW ls \in Seq(Line), NEW line \in Line, NEW i \in 1 .. Len(ls)
  PROVE  Rank(Append(ls, line), i) = Rank(ls, i)
<1> DEFINE more == Append(ls, line)
           n == Len(ls)
           kind == ls[i][1]
<1>1. n \in Nat /\ i \in 1 .. n /\ more[i] = ls[i]
  OBVIOUS
<1>2. Headed(more, kind) = Headed(ls, kind) \cup (IF TopAt(ls, n + 1) /\ line[1] = kind THEN {n + 1} ELSE {})
  BY HeadedAppended
<1> HIDE DEF more, n
<1>3. ~(n + 1 <= i)
  BY <1>1
<1>4. {j \in Headed(more, kind) : j <= i} = {j \in Headed(ls, kind) : j <= i}
  BY <1>2, <1>3
<1>5. Rank(more, i) = Cardinality({j \in Headed(more, kind) : j <= i})
  BY <1>1 DEF Rank
<1> QED
  BY <1>4, <1>5 DEF Rank, more

-----------------------------------------------------------------------------
(* What a line adds to a record.                                               *)

LEMMA PartsOfConcat ==
  ASSUME NEW S, NEW x \in Seq(S), NEW y \in Seq(S)
  PROVE  /\ \A k \in 1 .. Len(x) : (x \o y)[k] = x[k]
         /\ \A k \in 1 .. Len(y) : (x \o y)[Len(x) + k] = y[k]
<1> DEFINE u == x \o y
<1>1. \A k \in 1 .. Len(x) : u[k] = x[k]
  OBVIOUS
<1>2. ASSUME NEW k \in 1 .. Len(y) PROVE u[Len(x) + k] = y[k]
  <2>1. Len(x) + k \in Len(x) + 1 .. Len(x) + Len(y) /\ (Len(x) + k) - Len(x) = k
    OBVIOUS
  <2> QED
    BY <2>1
<1> QED
  BY <1>1, <1>2

LEMMA PartsJoin ==
  ASSUME NEW S, NEW s \in Seq(S), NEW a \in 1 .. Len(s) + 1, NEW b \in a - 1 .. Len(s), NEW c \in b .. Len(s)
  PROVE  SubSeq(s, a, b) \o SubSeq(s, b + 1, c) = SubSeq(s, a, c)
<1> DEFINE x == SubSeq(s, a, b)
           y == SubSeq(s, b + 1, c)
           z == SubSeq(s, a, c)
           u == x \o y
<1>0. Len(s) \in Nat /\ a \in Int /\ b \in Int /\ c \in Int
  OBVIOUS
<1>1. x \in Seq(S) /\ Len(x) = b - a + 1 /\ \A k \in 1 .. b - a + 1 : x[k] = s[a + k - 1]
  OBVIOUS
<1>2. y \in Seq(S) /\ Len(y) = c - b /\ \A k \in 1 .. c - b : y[k] = s[b + k]
  OBVIOUS
<1>3. z \in Seq(S) /\ Len(z) = c - a + 1 /\ \A k \in 1 .. c - a + 1 : z[k] = s[a + k - 1]
  OBVIOUS
<1> HIDE DEF x, y, z
<1>4. u \in Seq(S) /\ Len(u) = c - a + 1
  BY <1>0, <1>1, <1>2
<1>5. \A k \in 1 .. c - a + 1 : u[k] = z[k]
  <2> SUFFICES ASSUME NEW k \in 1 .. c - a + 1 PROVE u[k] = z[k]
    OBVIOUS
  <2>1. CASE k <= b - a + 1
    <3>1. u[k] = x[k] /\ k \in 1 .. b - a + 1
      BY <1>0, <1>1, <1>2, <2>1
    <3> QED
      BY <1>1, <1>3, <3>1
  <2>2. CASE ~(k <= b - a + 1)
    <3> DEFINE m == k - (b - a + 1)
    <3>1. m \in 1 .. c - b /\ b + m = a + k - 1
      BY <1>0, <2>2
    <3>2. u[k] = y[m]
      <4>1. m \in 1 .. Len(y) /\ Len(x) + m = k
        BY <1>0, <1>1, <1>2, <2>2
      <4> HIDE DEF m
      <4> QED
        BY <1>1, <1>2, <4>1, PartsOfConcat
    <3> HIDE DEF m
    <3> QED
      BY <1>2, <1>3, <3>1, <3>2
  <2> QED
    BY <2>1, <2>2
<1> HIDE DEF u
<1>6. u = z
  BY <1>3, <1>4, <1>5, SameSequences
<1> QED
  BY <1>6 DEF u, x, y, z

LEMMA OneOrNone ==
  ASSUME NEW S, NEW s \in Seq(S), NEW k \in 1 .. Len(s) + 1
  PROVE  /\ SubSeq(s, k, k - 1) = <<>>
         /\ k <= Len(s) => SubSeq(s, k, k) = <<s[k]>>
<1>1. SubSeq(s, k, k - 1) = <<>>
  OBVIOUS
<1>2. ASSUME k <= Len(s) PROVE SubSeq(s, k, k) = <<s[k]>>
  <2> DEFINE t == SubSeq(s, k, k)
             u == <<s[k]>>
  <2>1. t \in Seq(S) /\ Len(t) = 1 /\ t[1] = s[k] /\ s[k] \in S
    BY <1>2
  <2>2. u \in Seq(S) /\ Len(u) = 1 /\ u[1] = s[k]
    BY <2>1
  <2> HIDE DEF t, u
  <2>3. \A i \in 1 .. Len(t) : t[i] = u[i]
    BY <2>1, <2>2
  <2>4. t = u
    BY <2>1, <2>2, <2>3, SameSequences
  <2> QED
    BY <2>4 DEF t, u
<1> QED
  BY <1>1, <1>2

(* No token of the line that a field is made of is lost.                            *)
LEMMA FieldSpells ==
  ASSUME NEW line \in Line, IsField(line)
  PROVE  Spells(Field(line), line)
<1> DEFINE a == TypeAt(line)
           typed == line[a] \in TypedTypes
           f == Field(line)
           type == <<f.type>>
           array == IF f.type = ARRAY THEN <<f.arrayType>> ELSE <<>>
           of == IF {f.type, f.arrayType} \cap TypedTypes # {} THEN <<f.typeName>> ELSE <<>>
           names == {<<f.name>>} \cup (IF f.name = <<>> THEN {<<>>} ELSE {})
           name == IF Len(line) = NameAt(line) THEN <<f.name>> ELSE <<>>
<1>1. ARRAY \notin TypedTypes /\ NoType \notin TypedTypes
  BY DEF ARRAY, NoType, TypedTypes, Keyword
<1>2. /\ Len(line) \in Nat /\ a \in {1, 2} /\ a <= Len(line) /\ (a = 2 <=> line[1] = ARRAY)
      /\ NameAt(line) = a + (IF typed THEN 2 ELSE 1)
      /\ Len(line) \in {NameAt(line) - 1, NameAt(line)}
  BY DEF IsField, TypeAt, NameAt
<1>3. /\ f.type = line[1]
      /\ f.arrayType = IF a = 2 THEN line[2] ELSE NoType
      /\ f.typeName = IF typed THEN line[a + 1] ELSE <<>>
      /\ f.name = IF Len(line) = NameAt(line) THEN line[NameAt(line)] ELSE <<>>
  BY <1>2 DEF Field
<1> HIDE DEF f
<1>4. ({f.type, f.arrayType} \cap TypedTypes # {}) <=> typed
  <2>1. CASE a = 2
    <3>1. f.type = ARRAY /\ f.arrayType = line[a]
      BY <1>2, <1>3, <2>1
    <3> QED
      BY <1>1, <3>1
  <2>2. CASE a = 1
    <3>1. f.type = line[a] /\ f.arrayType = NoType
      BY <1>2, <1>3, <2>2
    <3> QED
      BY <1>1, <3>1
  <2> QED
    BY <1>2, <2>1, <2>2
<1>5. name \in names
  BY <1>3
<1>6. array = (IF a = 2 THEN <<line[2]>> ELSE <<>>) /\ type = <<line[1]>>
  BY <1>2, <1>3
<1>7. of = IF typed THEN <<line[a + 1]>> ELSE <<>>
  BY <1>3, <1>4
<1>8. name = IF Len(line) = NameAt(line) THEN <<line[NameAt(line)]>> ELSE <<>>
  BY <1>3
<1> DEFINE n == NameAt(line)
           l == Len(line)
<1> HIDE DEF a, typed, type, array, of, name, names, n
<1>9. line = type \o array \o of \o name
  <2>1. l \in Nat /\ a \in 1 .. 2 /\ a <= l /\ n \in {a + 1, a + 2} /\ l \in {n - 1, n}
        /\ (typed <=> n = a + 2)
    BY <1>2 DEF n
  <2>2. type = SubSeq(line, 1, 1)
    BY <1>6, <2>1, OneOrNone DEF Line
  <2>3. array = SubSeq(line, 2, a)
    <3>1. 2 \in 1 .. l + 1
      BY <2>1
    <3>2. CASE a = 1
      <4>1. array = <<>> /\ a = 2 - 1
        BY <1>6, <3>2
      <4> QED
        BY <3>1, <4>1, OneOrNone DEF Line
    <3>3. CASE a = 2
      BY <1>6, <2>1, <3>1, <3>3, OneOrNone DEF Line
    <3> QED
      BY <2>1, <3>2, <3>3
  <2>4. of = SubSeq(line, a + 1, n - 1)
    <3>1. a + 1 \in 1 .. l + 1
      BY <2>1
    <3>2. CASE n = a + 1
      <4>1. of = <<>> /\ n - 1 = (a + 1) - 1
        BY <1>7, <2>1, <3>2
      <4> QED
        BY <3>1, <4>1, OneOrNone DEF Line
    <3>3. CASE n = a + 2
      <4>1. of = <<line[a + 1]>> /\ n - 1 = a + 1 /\ a + 1 <= l
        BY <1>7, <2>1, <3>3
      <4> QED
        BY <3>1, <4>1, OneOrNone DEF Line
    <3> QED
      BY <2>1, <3>2, <3>3
  <2>5. name = SubSeq(line, n, l)
    <3>1. n \in 1 .. l + 1
      BY <2>1
    <3>2. CASE l = n - 1
      <4>1. name = <<>>
        BY <1>8, <2>1, <3>2 DEF n
      <4> QED
        BY <3>1, <3>2, <4>1, OneOrNone DEF Line
    <3>3. CASE l = n
      <4>1. name = <<line[n]>> /\ n <= Len(line)
        BY <1>8, <2>1, <3>3 DEF n
      <4>2. SubSeq(line, n, n) = <<line[n]>>
        BY <3>1, <4>1, OneOrNone DEF Line
      <4> QED
        BY <3>3, <4>1, <4>2
    <3> QED
      BY <2>1, <3>2, <3>3
  <2>6. type \o array = SubSeq(line, 1, a)
    <3>1. 1 \in 1 .. l + 1 /\ 1 \in 1 - 1 .. l /\ a \in 1 .. l /\ 1 + 1 = 2
      BY <2>1
    <3> QED
      BY <2>2, <2>3, <3>1, PartsJoin DEF Line
  <2>7. type \o array \o of = SubSeq(line, 1, n - 1)
    <3>1. 1 \in 1 .. l + 1 /\ a \in 1 - 1 .. l /\ n - 1 \in a .. l
      BY <2>1
    <3> QED
      BY <2>4, <2>6, <3>1, PartsJoin DEF Line
  <2>8. type \o array \o of \o name = SubSeq(line, 1, l)
    <3>1. 1 \in 1 .. l + 1 /\ n - 1 \in 1 - 1 .. l /\ l \in n - 1 .. l /\ (n - 1) + 1 = n
      BY <2>1
    <3> QED
      BY <2>5, <2>7, <3>1, PartsJoin DEF Line
  <2>9. SubSeq(line, 1, l) = line
    BY DEF Line
  <2> QED
    BY <2>8, <2>9
<1>10. Spells(f, line) <=> line \in {type \o array \o of \o x : x \in names}
  BY DEF Spells, type, array, of, names
<1> QED
  BY <1>5, <1>9, <1>10 DEF f

LEMMA RangeOfConcat ==
  ASSUME NEW s \in Seq(Int), NEW t \in Seq(Int)
  PROVE  s \o t \in Seq(Int) /\ ToSet(s \o t) = ToSet(s) \cup ToSet(t)
<1> DEFINE u == s \o t
<1>1. u \in Seq(Int) /\ Len(u) = Len(s) + Len(t) /\ Len(s) \in Nat /\ Len(t) \in Nat
  OBVIOUS
<1>2. ASSUME NEW i \in 1 .. Len(u) PROVE u[i] \in ToSet(s) \cup ToSet(t)
  <2>1. CASE i <= Len(s)
    <3>1. i \in DOMAIN s /\ u[i] = s[i]
      BY <1>1, <2>1
    <3> QED
      BY <3>1 DEF ToSet
  <2>2. CASE ~(i <= Len(s))
    <3>1. i - Len(s) \in DOMAIN t /\ u[i] = t[i - Len(s)]
      BY <1>1, <2>2
    <3> QED
      BY <3>1 DEF ToSet
  <2> QED
    BY <2>1, <2>2
<1>3. ASSUME NEW i \in DOMAIN s PROVE s[i] \in ToSet(u)
  <2>1. i \in DOMAIN u /\ u[i] = s[i]
    BY <1>1
  <2> QED
    BY <2>1 DEF ToSet
<1>4. ASSUME NEW i \in DOMAIN t PROVE t[i] \in ToSet(u)
  <2>1. Len(s) + i \in DOMAIN u /\ u[Len(s) + i] = t[i]
    BY <1>1
  <2> QED
    BY <2>1 DEF ToSet
<1>5. DOMAIN u = 1 .. Len(u)
  BY <1>1
<1> HIDE DEF u
<1>6. ToSet(u) \subseteq ToSet(s) \cup ToSet(t)
  BY <1>2, <1>5 DEF ToSet
<1>7. ToSet(s) \subseteq ToSet(u) /\ ToSet(t) \subseteq ToSet(u)
  BY <1>3, <1>4 DEF ToSet
<1> QED
  BY <1>1, <1>6, <1>7 DEF u

(* The values of a line that is one of an enum.                                   *)
LEMMA ValuesOfLine ==
  ASSUME NEW line \in Line, IsValues(line)
  PROVE  /\ Values(line) \in Seq(Int)
         /\ ToSet(Values(line)) = IF line[1] = Keyword("VALUE") THEN {Number[line[2]]}
                                  ELSE Number[line[2]] .. Number[line[3]]
<1>1. Keyword("VALUE") # Keyword("VALUES")
  BY DEF Keyword
<1>2. CASE line[1] = Keyword("VALUE")
  <2>1. Number[line[2]] \in Int
    BY <1>1, <1>2, DirectiveFilesAssumption DEF IsValues, IsNumber
  <2>2. Values(line) = <<Number[line[2]]>>
    BY <1>2 DEF Values
  <2> QED
    BY <1>2, <2>1, <2>2 DEF ToSet
<1>3. CASE line[1] # Keyword("VALUE")
  <2> DEFINE a == Number[line[2]]
             b == Number[line[3]]
             f == [i \in 1 .. b - a + 1 |-> a + i - 1]
  <2>1. a \in Int /\ b \in Int
    BY <1>3, DirectiveFilesAssumption DEF IsValues, IsNumber
  <2>2. Values(line) = f
    BY <1>3 DEF Values
  <2> HIDE DEF a, b
  <2>3. f \in Seq(Int)
    <3>1. CASE b - a + 1 \in Nat
      BY <2>1, <3>1
    <3>2. CASE b - a + 1 \notin Nat
      <4>1. 1 .. b - a + 1 = 1 .. 0
        BY <2>1, <3>2
      <4>2. f = [i \in 1 .. 0 |-> a + i - 1]
        BY <4>1
      <4>3. [i \in 1 .. 0 |-> a + i - 1] \in Seq(Int)
        BY <2>1
      <4> QED
        BY <4>2, <4>3
    <3> QED
      BY <3>1, <3>2
  <2>4. ToSet(f) = a .. b
    <3>1. ToSet(f) = {f[i] : i \in 1 .. b - a + 1}
      BY DEF ToSet
    <3>2. \A i \in 1 .. b - a + 1 : f[i] \in a .. b
      BY <2>1
    <3>3. ASSUME NEW v \in a .. b PROVE v \in ToSet(f)
      <4>1. v - a + 1 \in 1 .. b - a + 1 /\ f[v - a + 1] = v
        BY <2>1
      <4> QED
        BY <3>1, <4>1
    <3> QED
      BY <3>1, <3>2, <3>3
  <2> QED
    BY <1>3, <2>2, <2>3, <2>4 DEF a, b
<1> QED
  BY <1>2, <1>3

NameMaps == UNION {[S -> Token] : S \in SUBSET Int}
EnumRecords == [name : Token, values : Seq(Int), valueNames : NameMaps]

LEMMA ValueNamesMap ==
  ASSUME NEW names \in NameMaps, NEW line \in Line, IsValues(line)
  PROVE  LET all == NamesWith(names, line)
             named == line[1] = Keyword("VALUE") /\ Len(line) = 3
         IN  /\ all \in NameMaps
             /\ DOMAIN all = DOMAIN names \cup (IF named THEN {Number[line[2]]} ELSE {})
             /\ \A v \in DOMAIN names : all[v] = names[v]
             /\ named /\ Number[line[2]] \notin DOMAIN names => all[Number[line[2]]] = line[3]
<1> DEFINE all == NamesWith(names, line)
           named == line[1] = Keyword("VALUE") /\ Len(line) = 3
           S == DOMAIN names
<1>1. PICK D \in SUBSET Int : names \in [D -> Token]
  BY DEF NameMaps
<1>2. S \in SUBSET Int /\ names \in [S -> Token]
  BY <1>1
<1>4. CASE named
  <2> DEFINE w == Number[line[2]]
  <2>1. w \in Int /\ line[3] \in Token
    <3>1. Keyword("VALUE") # Keyword("VALUES")
      BY DEF Keyword
    <3> QED
      BY <1>4, <3>1, DirectiveFilesAssumption DEF IsValues, IsNumber, Line
  <2>3. all = [v \in S \cup {w} |-> IF v \in S THEN names[v] ELSE line[3]]
    BY <1>4 DEF NamesWith
  <2> HIDE DEF all, w
  <2>4. all \in [S \cup {w} -> Token]
    BY <1>2, <2>1, <2>3
  <2>5. S \cup {w} \in SUBSET Int
    BY <1>2, <2>1
  <2>6. all \in NameMaps
    BY <2>4, <2>5 DEF NameMaps
  <2>7. DOMAIN all = S \cup {w} /\ (\A v \in S : all[v] = names[v])
        /\ (w \notin S => all[w] = line[3])
    BY <2>3
  <2> QED
    BY <1>4, <2>6, <2>7 DEF all, w
<1>5. CASE ~named
  BY <1>5 DEF NamesWith
<1> QED
  BY <1>4, <1>5

(* A line of an enum adds its values, and a name to a value that has none yet.       *)
LEMMA ValuesAdded ==
  ASSUME NEW record \in EnumRecords, NEW block \in Seq(Line), HasValues(record, block),
         NEW line \in Line, IsValues(line)
  PROVE  /\ WithValues(record, line) \in EnumRecords
         /\ WithValues(record, line).name = record.name
         /\ HasValues(WithValues(record, line), Append(block, line))
<1> DEFINE n == Len(block)
           more == Append(block, line)
           new == WithValues(record, line)
           SingleAt(s) == {i \in DOMAIN s : s[i][1] = Keyword("VALUE")}
           NamedAt(s) == {i \in SingleAt(s) : Len(s[i]) = 3}
           V(s, i) == Number[s[i][2]]
           Singles(s) == {V(s, i) : i \in SingleAt(s)}
           Ranges(s) == UNION {V(s, i) .. Number[s[i][3]] : i \in DOMAIN s \ SingleAt(s)}
           Given(s) == Singles(s) \cup Ranges(s)
           named == line[1] = Keyword("VALUE") /\ Len(line) = 3
           w == Number[line[2]]
<1>1. /\ n \in Nat /\ DOMAIN more = 1 .. n + 1 /\ DOMAIN block = 1 .. n /\ more[n + 1] = line
      /\ \A j \in 1 .. n : more[j] = block[j]
  OBVIOUS
<1>2. /\ record.values \in Seq(Int) /\ record.valueNames \in NameMaps /\ record.name \in Token
      /\ DOMAIN record = {"name", "values", "valueNames"}
  BY DEF EnumRecords
<1>3. /\ new.values = record.values \o Values(line)
      /\ new.valueNames = NamesWith(record.valueNames, line)
      /\ new.name = record.name
  <2> DEFINE x == record.values \o Values(line)
             y == NamesWith(record.valueNames, line)
  <2>1. new = [record EXCEPT !.values = x, !.valueNames = y]
    BY DEF WithValues
  <2> HIDE DEF x, y, new
  <2>2. new.values = x /\ new.valueNames = y /\ new.name = record.name
    BY <1>2, <2>1
  <2> QED
    BY <2>2 DEF x, y
<1>4. DOMAIN new = {"name", "values", "valueNames"} /\ new = [x \in DOMAIN new |-> new[x]]
  BY <1>2 DEF WithValues
<1> HIDE DEF new
<1>5. /\ ToSet(record.values) = Given(block)
      /\ DOMAIN record.valueNames = {V(block, i) : i \in NamedAt(block)}
      /\ \A v \in DOMAIN record.valueNames :
           \E i \in NamedAt(block) :
             /\ V(block, i) = v /\ block[i][3] = record.valueNames[v]
             /\ \A j \in NamedAt(block) : V(block, j) = v => i <= j
  BY DEF HasValues
<1>6. /\ new.valueNames \in NameMaps
      /\ DOMAIN new.valueNames = DOMAIN record.valueNames \cup (IF named THEN {w} ELSE {})
      /\ \A v \in DOMAIN record.valueNames : new.valueNames[v] = record.valueNames[v]
      /\ named /\ w \notin DOMAIN record.valueNames => new.valueNames[w] = line[3]
  <2> DEFINE names == record.valueNames
  <2>1. names \in NameMaps /\ new.valueNames = NamesWith(names, line)
    BY <1>2, <1>3
  <2> HIDE DEF names, named, w
  <2>2. /\ NamesWith(names, line) \in NameMaps
        /\ DOMAIN NamesWith(names, line) = DOMAIN names \cup (IF named THEN {w} ELSE {})
        /\ \A v \in DOMAIN names : NamesWith(names, line)[v] = names[v]
        /\ named /\ w \notin DOMAIN names => NamesWith(names, line)[w] = line[3]
    BY <2>1, ValueNamesMap, Zenon DEF named, w
  <2> QED
    BY <2>1, <2>2, Zenon DEF names
<1>7. /\ new.values \in Seq(Int)
      /\ ToSet(new.values) = ToSet(record.values)
                               \cup (IF line[1] = Keyword("VALUE") THEN {w} ELSE w .. Number[line[3]])
  <2> DEFINE a == record.values
             b == Values(line)
  <2>1. a \in Seq(Int) /\ b \in Seq(Int) /\ new.values = a \o b
        /\ ToSet(b) = IF line[1] = Keyword("VALUE") THEN {w} ELSE w .. Number[line[3]]
    BY <1>2, <1>3, ValuesOfLine
  <2> HIDE DEF a, b, w
  <2>2. a \o b \in Seq(Int) /\ ToSet(a \o b) = ToSet(a) \cup ToSet(b)
    BY <2>1, RangeOfConcat, Zenon
  <2>3. ToSet(new.values) = ToSet(a) \cup ToSet(b) /\ new.values \in Seq(Int)
    BY <2>1, <2>2, Zenon
  <2> QED
    BY <2>1, <2>3, Zenon DEF a
<1>8. new \in EnumRecords
  BY <1>2, <1>3, <1>4, <1>6, <1>7 DEF EnumRecords
<1>9. /\ SingleAt(more) = SingleAt(block) \cup (IF line[1] = Keyword("VALUE") THEN {n + 1} ELSE {})
      /\ NamedAt(more) = NamedAt(block) \cup (IF named THEN {n + 1} ELSE {})
      /\ DOMAIN more \ SingleAt(more) = (DOMAIN block \ SingleAt(block))
                                     \cup (IF line[1] = Keyword("VALUE") THEN {} ELSE {n + 1})
      /\ \A i \in 1 .. n : V(more, i) = V(block, i) /\ more[i] = block[i]
      /\ V(more, n + 1) = w
  <2> HIDE DEF more, n
  <2>1. \A i : i \in 1 .. n + 1 <=> i \in 1 .. n \/ i = n + 1
    BY <1>1
  <2>2. n + 1 \notin 1 .. n
    BY <1>1
  <2> QED
    BY <1>1, <2>1, <2>2
<1>10. NamedAt(block) \subseteq 1 .. n /\ SingleAt(block) \subseteq 1 .. n
  BY <1>1
<1> HIDE DEF more, n, SingleAt, NamedAt, V, w
<1>11. ToSet(new.values) = Given(more)
  <2>1. Singles(more) = Singles(block) \cup (IF line[1] = Keyword("VALUE") THEN {w} ELSE {})
    BY <1>9, <1>10
  <2>2. Ranges(more) = Ranges(block) \cup (IF line[1] = Keyword("VALUE") THEN {} ELSE w .. Number[line[3]])
    <3> DEFINE R(s, i) == V(s, i) .. Number[s[i][3]]
               old == DOMAIN block \ SingleAt(block)
    <3>1. \A i \in old : R(more, i) = R(block, i)
      BY <1>1, <1>9
    <3>2. R(more, n + 1) = w .. Number[line[3]]
      BY <1>1, <1>9
    <3>3. DOMAIN more \ SingleAt(more) = old \cup (IF line[1] = Keyword("VALUE") THEN {} ELSE {n + 1})
      BY <1>9
    <3> HIDE DEF R, old
    <3>4. UNION {R(more, i) : i \in DOMAIN more \ SingleAt(more)} =
            (UNION {R(block, i) : i \in old})
              \cup (IF line[1] = Keyword("VALUE") THEN {} ELSE w .. Number[line[3]])
      BY <3>1, <3>2, <3>3
    <3> QED
      BY <3>4 DEF R, old
  <2> HIDE DEF Singles, Ranges
  <2> QED
    BY <1>5, <1>7, <2>1, <2>2
<1>12. DOMAIN new.valueNames = {V(more, i) : i \in NamedAt(more)}
  BY <1>5, <1>6, <1>9, <1>10
<1>13. ASSUME NEW v \in DOMAIN new.valueNames
       PROVE  \E i \in NamedAt(more) :
                /\ V(more, i) = v /\ more[i][3] = new.valueNames[v]
                /\ \A j \in NamedAt(more) : V(more, j) = v => i <= j
  <2>1. CASE v \in DOMAIN record.valueNames
    <3>1. PICK i \in NamedAt(block) :
             /\ V(block, i) = v /\ block[i][3] = record.valueNames[v]
             /\ \A j \in NamedAt(block) : V(block, j) = v => i <= j
      BY <1>5, <2>1
    <3>2. i \in NamedAt(more) /\ V(more, i) = v /\ more[i][3] = new.valueNames[v]
      BY <1>6, <1>9, <1>10, <2>1, <3>1
    <3>3. i <= n + 1
      BY <1>1, <1>10
    <3>4. \A j \in NamedAt(more) : V(more, j) = v => i <= j
      BY <1>9, <1>10, <3>1, <3>3
    <3> QED
      BY <3>2, <3>4
  <2>2. CASE v \notin DOMAIN record.valueNames
    <3>1. named /\ v = w /\ new.valueNames[v] = line[3]
      BY <1>6, <2>2
    <3>2. n + 1 \in NamedAt(more) /\ V(more, n + 1) = v /\ more[n + 1][3] = new.valueNames[v]
      BY <1>1, <1>9, <3>1
    <3>3. \A j \in NamedAt(more) : V(more, j) = v => j = n + 1
      BY <1>5, <1>9, <1>10, <2>2
    <3>4. n + 1 <= n + 1
      BY <1>1
    <3> QED
      BY <3>2, <3>3, <3>4
  <2> QED
    BY <2>1, <2>2
<1>14. HasValues(new, more)
  BY <1>11, <1>12, <1>13 DEF HasValues, SingleAt, NamedAt, V
<1> QED
  BY <1>3, <1>8, <1>14 DEF new, more


-----------------------------------------------------------------------------
(* Records and the blocks they stand for.                                        *)

RecordKinds == {Keyword(s) : s \in {"STRUCT", "DEF", "ENUM", "DEF_ALIAS"}}
BlockKinds == {Keyword(s) : s \in {"STRUCT", "DEF", "ENUM"}}
FieldKinds == {Keyword(s) : s \in {"STRUCT", "DEF"}}
LineFields == {Field(line) : line \in Line}

StructRecords == [name : Token, fields : Seq(LineFields)]
DefRecords == [name : Token, defIndex : Int, fields : Seq(LineFields), version : Int]
AliasRecords == [name : Token, defIndex : Int, targetName : Token]

RecordsOf(kind) ==
  CASE kind = Keyword("STRUCT") -> StructRecords
    [] kind = Keyword("DEF") -> DefRecords
    [] kind = Keyword("ENUM") -> EnumRecords
    [] kind = Keyword("DEF_ALIAS") -> AliasRecords

(* A record of a kind stands for the block of line i.                              *)
Describes(kind, record, ls, i) ==
  /\ record.name = NameIn(ls[i])
  /\ kind \in FieldKinds => HasFields(record, Block(ls, i))
  /\ kind = Keyword("ENUM") => HasValues(record, Block(ls, i))

LastHeaded(ls, kind, i) == i \in Headed(ls, kind) /\ \A j \in Headed(ls, kind) : j <= i

(* What the records are after some lines: those of the blocks, of which the last   *)
(* of the kind that is being built, if any, is open.                              *)
RecordsTyped(recs) ==
  /\ RecordKinds \subseteq DOMAIN recs
  /\ \A kind \in RecordKinds : recs[kind] \in Seq(RecordsOf(kind))

RecordsDescribe(ls, recs) ==
  \A kind \in RecordKinds :
    /\ Len(recs[kind]) = Cardinality(Headed(ls, kind))
    /\ \A i \in Headed(ls, kind) : Describes(kind, recs[kind][Rank(ls, i)], ls, i)

OneIsOpen(ls, b) ==
  /\ b \in BlockKinds \cup {None}
  /\ b = None <=> TopAt(ls, Len(ls) + 1)
  /\ b # None => \E i \in 1 .. Len(ls) : LastHeaded(ls, b, i) /\ ~Ended(ls, i)
  /\ \A kind \in BlockKinds : \A i \in Headed(ls, kind) :
       Ended(ls, i) \/ (kind = b /\ LastHeaded(ls, b, i))

Blocks(ls, recs, b) == RecordsTyped(recs) /\ RecordsDescribe(ls, recs) /\ OneIsOpen(ls, b)

LEMMA Keywords ==
  /\ RecordKinds = BlockKinds \cup {Keyword("DEF_ALIAS")}
  /\ BlockKinds = FieldKinds \cup {Keyword("ENUM")}
  /\ Keyword("DEF_ALIAS") \notin BlockKinds /\ Keyword("ENUM") \notin FieldKinds
  /\ Keyword("STRUCT") # Keyword("DEF")
  /\ END \notin RecordKinds /\ None \notin RecordKinds
  /\ END # Keyword("DEF_ALIAS")
  /\ {Keyword("VALUE"), Keyword("VALUES")} \cap {END, Keyword("DEF_ALIAS")} = {}
  /\ FieldTypes \cap {END, Keyword("DEF_ALIAS")} = {}
<1>1. \A s, t : Keyword(s) = Keyword(t) => s = t
  BY DEF Keyword
<1>2. \A s : Keyword(s) # None
  BY DEF Keyword, None
<1> QED
  BY <1>1, <1>2 DEF RecordKinds, BlockKinds, FieldKinds, FieldTypes, Scalars, TypedTypes, ARRAY, END

(* The records of a kind with the last one replaced.                              *)
LastReplaced(recs, kind, record) == [recs EXCEPT ![kind][Len(recs[kind])] = record]

LEMMA ReplaceLast ==
  ASSUME NEW recs, RecordsTyped(recs), NEW kind \in RecordKinds, Len(recs[kind]) # 0,
         NEW record \in RecordsOf(kind)
  PROVE  LET new == LastReplaced(recs, kind, record)
         IN  /\ RecordsTyped(new)
             /\ \A k \in RecordKinds : Len(new[k]) = Len(recs[k])
             /\ \A k \in RecordKinds \ {kind} : new[k] = recs[k]
             /\ new[kind][Len(recs[kind])] = record
             /\ \A n \in 1 .. Len(recs[kind]) - 1 : new[kind][n] = recs[kind][n]
<1> DEFINE new == LastReplaced(recs, kind, record)
           s == recs[kind]
           t == [s EXCEPT ![Len(s)] = record]
<1>1. s \in Seq(RecordsOf(kind)) /\ kind \in DOMAIN recs /\ RecordKinds \subseteq DOMAIN recs
  BY DEF RecordsTyped
<1>2. new = [recs EXCEPT ![kind] = t]
  BY DEF LastReplaced
<1> HIDE DEF new, s
<1>3. t \in Seq(RecordsOf(kind)) /\ Len(t) = Len(s) /\ t[Len(s)] = record
      /\ \A n \in 1 .. Len(s) - 1 : t[n] = s[n]
  BY <1>1 DEF s
<1> HIDE DEF t
<1>4. DOMAIN new = DOMAIN recs /\ new[kind] = t /\ \A k \in RecordKinds \ {kind} : new[k] = recs[k]
  BY <1>1, <1>2
<1>5. RecordsTyped(new)
  BY <1>1, <1>3, <1>4 DEF RecordsTyped
<1> QED
  BY <1>3, <1>4, <1>5 DEF new, s

(* What stays of the description of the blocks that a line does not change.        *)
LEMMA DescriptionStays ==
  ASSUME NEW ls \in Seq(Line), NEW line \in Line, NEW kind \in RecordKinds, NEW record,
         NEW i \in Headed(ls, kind), Describes(kind, record, ls, i),
         kind \in BlockKinds => Ended(ls, i) \/ line[1] = END
  PROVE  Describes(kind, record, Append(ls, line), i)
<1> DEFINE more == Append(ls, line)
<1>1. i \in 1 .. Len(ls) /\ more[i] = ls[i] /\ ls[i][1] = kind
  BY DEF Headed
<1>2. ls[i][1] # END
  BY <1>1, Keywords
<1>3. kind \in BlockKinds => Block(more, i) = Block(ls, i)
  BY <1>1, <1>2, BlockGoesOn
<1> HIDE DEF more
<1> QED
  BY <1>1, <1>3, Keywords DEF Describes, more

LEMMA TopAfter ==
  ASSUME NEW ls \in Seq(Line), NEW line \in Line
  PROVE  TopAt(Append(ls, line), Len(Append(ls, line)) + 1) <=> line[1] \in {END, Keyword("DEF_ALIAS")}
<1> DEFINE more == Append(ls, line)
           n == Len(more)
<1>1. n \in Nat /\ n >= 1 /\ more[n] = line
  OBVIOUS
<1> HIDE DEF more, n
<1>2. n + 1 # 1 /\ (n + 1) - 1 = n
  BY <1>1
<1> QED
  BY <1>1, <1>2 DEF TopAt, more, n

(* A line within a block grows its record.                                       *)
LEMMA BlockGrows ==
  ASSUME NEW ls \in Seq(Line), NEW recs, NEW b, b # None, Blocks(ls, recs, b),
         NEW line \in Line, line[1] \notin {END, Keyword("DEF_ALIAS")},
         NEW grown,
         \A i \in Headed(ls, b) :
           (Describes(b, recs[b][Len(recs[b])], ls, i) /\ ~Ended(ls, i)) =>
             grown \in RecordsOf(b) /\ Describes(b, grown, Append(ls, line), i)
  PROVE  Len(recs[b]) # 0 /\ Blocks(Append(ls, line), LastReplaced(recs, b, grown), b)
<1> DEFINE more == Append(ls, line)
           new == LastReplaced(recs, b, grown)
           l == Len(recs[b])
<1>1. RecordsTyped(recs) /\ RecordsDescribe(ls, recs) /\ OneIsOpen(ls, b)
  BY DEF Blocks
<1>2. b \in BlockKinds /\ b \in RecordKinds /\ ~TopAt(ls, Len(ls) + 1)
  BY <1>1, Keywords DEF OneIsOpen
<1>3. PICK o \in 1 .. Len(ls) : LastHeaded(ls, b, o) /\ ~Ended(ls, o)
  BY <1>1 DEF OneIsOpen
<1>4. o \in Headed(ls, b) /\ \A j \in Headed(ls, b) : j <= o
  BY <1>3 DEF LastHeaded
<1>5. /\ \A kind \in RecordKinds : recs[kind] \in Seq(RecordsOf(kind))
      /\ \A kind \in RecordKinds : Len(recs[kind]) = Cardinality(Headed(ls, kind))
      /\ \A kind \in RecordKinds : \A i \in Headed(ls, kind) :
           Describes(kind, recs[kind][Rank(ls, i)], ls, i)
  BY <1>1 DEF RecordsTyped, RecordsDescribe
<1>6. Rank(ls, o) = l /\ l \in Nat /\ l # 0
  BY <1>2, <1>4, <1>5, RanksAreNumbers
<1>7. grown \in RecordsOf(b) /\ Describes(b, grown, more, o)
  BY <1>2, <1>3, <1>4, <1>5, <1>6
<1>8. /\ RecordsTyped(new)
      /\ \A k \in RecordKinds : Len(new[k]) = Len(recs[k])
      /\ \A k \in RecordKinds \ {b} : new[k] = recs[k]
      /\ new[b][l] = grown
      /\ \A n \in 1 .. l - 1 : new[b][n] = recs[b][n]
  BY <1>1, <1>2, <1>6, <1>7, ReplaceLast
<1>9. \A kind : Headed(more, kind) = Headed(ls, kind)
  BY <1>2, HeadedAppended
<1>10. more \in Seq(Line) /\ Len(more) = Len(ls) + 1 /\ Len(ls) \in Nat
  OBVIOUS
<1>11. \A i \in 1 .. Len(ls) : Rank(more, i) = Rank(ls, i)
  BY RankStays
<1>12. \A kind \in RecordKinds : Headed(ls, kind) \subseteq 1 .. Len(ls)
  BY HeadedFinite
<1>13. \A kind \in BlockKinds : \A i \in Headed(ls, kind) : Ended(ls, i) \/ (kind = b /\ i = o)
  <2>1. \A kind \in BlockKinds : \A i \in Headed(ls, kind) :
          Ended(ls, i) \/ (kind = b /\ i \in Headed(ls, b) /\ \A j \in Headed(ls, b) : j <= i)
    BY <1>1 DEF OneIsOpen, LastHeaded
  <2>2. \A i \in Headed(ls, b) : i \in Int
    BY <1>2, <1>12
  <2>3. ASSUME NEW i \in Headed(ls, b), \A j \in Headed(ls, b) : j <= i PROVE i = o
    <3>1. i <= o /\ o <= i /\ i \in Int /\ o \in Int
      BY <1>4, <2>2, <2>3
    <3> QED
      BY <3>1
  <2> QED
    BY <2>1, <2>3
<1> HIDE DEF new, more, l
<1>14. RecordsDescribe(more, new)
  <2> SUFFICES ASSUME NEW kind \in RecordKinds
               PROVE  /\ Len(new[kind]) = Cardinality(Headed(more, kind))
                      /\ \A i \in Headed(more, kind) : Describes(kind, new[kind][Rank(more, i)], more, i)
    BY DEF RecordsDescribe
  <2>1. Len(new[kind]) = Cardinality(Headed(more, kind))
    BY <1>5, <1>8, <1>9
  <2>2. ASSUME NEW i \in Headed(ls, kind) PROVE Describes(kind, new[kind][Rank(more, i)], more, i)
    <3>1. i \in 1 .. Len(ls) /\ Rank(more, i) = Rank(ls, i)
      BY <1>11, <1>12, <2>2
    <3>2. CASE kind = b /\ i = o
      BY <1>6, <1>7, <1>8, <3>1, <3>2
    <3>3. CASE ~(kind = b /\ i = o)
      <4>1. new[kind][Rank(ls, i)] = recs[kind][Rank(ls, i)]
        <5>1. CASE kind # b
          BY <1>8, <5>1
        <5>2. CASE kind = b
          <6>1. i \in Headed(ls, b) /\ i # o /\ i <= o /\ i \in Int /\ o \in Int
            BY <1>4, <2>2, <3>1, <3>3, <5>2
          <6>2. Rank(ls, i) < Rank(ls, o) /\ Rank(ls, i) \in 1 .. Cardinality(Headed(ls, b))
                /\ Cardinality(Headed(ls, b)) \in Nat
            <7>1. i < o
              BY <6>1
            <7> QED
              BY <1>4, <6>1, <7>1, RanksAreNumbers, HeadedFinite
          <6>3. Rank(ls, i) \in 1 .. l - 1
            BY <1>6, <6>2
          <6> QED
            BY <1>8, <5>2, <6>3
        <5> QED
          BY <5>1, <5>2
      <4>2. kind \in BlockKinds => Ended(ls, i)
        BY <1>13, <2>2, <3>3
      <4>3. Describes(kind, recs[kind][Rank(ls, i)], ls, i)
        BY <1>5, <2>2
      <4>4. Describes(kind, recs[kind][Rank(ls, i)], more, i)
        BY <2>2, <4>2, <4>3, DescriptionStays DEF more
      <4> QED
        BY <3>1, <4>1, <4>4
    <3> QED
      BY <3>2, <3>3
  <2> QED
    BY <1>9, <2>1, <2>2
<1>15. OneIsOpen(more, b)
  <2>1. ~TopAt(more, Len(more) + 1)
    BY TopAfter DEF more
  <2>2. ls[o][1] # END
    BY <1>2, <1>4, Keywords DEF Headed
  <2>3. ~Ended(more, o)
    BY <1>3, <2>2, BlockGoesOn DEF more
  <2>4. o \in 1 .. Len(more) /\ LastHeaded(more, b, o)
    BY <1>3, <1>9, <1>10 DEF LastHeaded
  <2>5. ASSUME NEW kind \in BlockKinds, NEW i \in Headed(more, kind)
        PROVE  Ended(more, i) \/ (kind = b /\ LastHeaded(more, b, i))
    <3>1. i \in Headed(ls, kind) /\ kind \in RecordKinds
      BY <1>9, <2>5, Keywords
    <3>2. ls[i][1] # END /\ i \in 1 .. Len(ls)
      BY <1>12, <3>1, Keywords DEF Headed
    <3>3. CASE Ended(ls, i)
      BY <3>2, <3>3, BlockGoesOn DEF more
    <3>4. CASE kind = b /\ i = o
      BY <2>4, <3>4
    <3> QED
      BY <1>13, <2>5, <3>1, <3>3, <3>4
  <2> QED
    BY <1>2, <2>1, <2>3, <2>4, <2>5 DEF OneIsOpen
<1> QED
  BY <1>6, <1>8, <1>14, <1>15 DEF Blocks, l, more, new

LEMMA BlockTyped ==
  ASSUME NEW ls \in Seq(Line), NEW i \in 1 .. Len(ls), ls[i][1] # END
  PROVE  Block(ls, i) \in Seq(Line)
<1>1. ASSUME NEW e \in i + 1 .. Len(ls) + 1 PROVE SubSeq(ls, i + 1, e - 1) \in Seq(Line)
  OBVIOUS
<1>2. CASE Ended(ls, i)
  <2>1. PICK e \in i + 1 .. Len(ls) : ls[e][1] = END /\ \A j \in i .. e - 1 : ls[j][1] # END
    BY <1>2, EndedAt
  <2>2. e \in i + 1 .. Len(ls) + 1
    OBVIOUS
  <2>3. Block(ls, i) = SubSeq(ls, i + 1, e - 1)
    BY <2>1, <2>2, BlockIs
  <2> QED
    BY <1>1, <2>2, <2>3
<1>3. CASE ~Ended(ls, i)
  <2> DEFINE e == Len(ls) + 1
  <2>1. e \in i + 1 .. Len(ls) + 1 /\ ~(e <= Len(ls)) /\ e - 1 = Len(ls)
    OBVIOUS
  <2>2. \A j \in i .. e - 1 : ls[j][1] # END
    BY <1>3, <2>1 DEF Ended
  <2> HIDE DEF e
  <2>3. Block(ls, i) = SubSeq(ls, i + 1, e - 1)
    BY <2>1, <2>2, BlockIs
  <2> QED
    BY <1>1, <2>1, <2>3
<1> QED
  BY <1>2, <1>3

(* The line that ends a block.                                                    *)
LEMMA BlockEnds ==
  ASSUME NEW ls \in Seq(Line), NEW recs, NEW b, Blocks(ls, recs, b), b # None,
         NEW line \in Line, line[1] = END
  PROVE  Blocks(Append(ls, line), recs, None)
<1> DEFINE more == Append(ls, line)
<1>1. RecordsTyped(recs) /\ RecordsDescribe(ls, recs) /\ ~TopAt(ls, Len(ls) + 1)
  BY DEF Blocks, OneIsOpen
<1>2. \A kind : Headed(more, kind) = Headed(ls, kind)
  BY <1>1, HeadedAppended
<1>3. \A kind : Headed(ls, kind) \subseteq 1 .. Len(ls)
  BY HeadedFinite
<1>4. \A i \in 1 .. Len(ls) : Rank(more, i) = Rank(ls, i)
  BY RankStays
<1>5. RecordsDescribe(more, recs)
  <2> SUFFICES ASSUME NEW kind \in RecordKinds
               PROVE  /\ Len(recs[kind]) = Cardinality(Headed(more, kind))
                      /\ \A i \in Headed(more, kind) : Describes(kind, recs[kind][Rank(more, i)], more, i)
    BY DEF RecordsDescribe
  <2>1. ASSUME NEW i \in Headed(ls, kind) PROVE Describes(kind, recs[kind][Rank(more, i)], more, i)
    <3>1. Describes(kind, recs[kind][Rank(ls, i)], ls, i) /\ i \in 1 .. Len(ls)
      BY <1>1, <1>3, <2>1 DEF RecordsDescribe
    <3>2. Describes(kind, recs[kind][Rank(ls, i)], more, i)
      BY <2>1, <3>1, DescriptionStays
    <3> QED
      BY <1>4, <3>1, <3>2
  <2> HIDE DEF more
  <2> QED
    BY <1>1, <1>2, <2>1 DEF RecordsDescribe
<1>6. TopAt(more, Len(more) + 1)
  BY TopAfter
<1>7. ASSUME NEW kind \in BlockKinds, NEW i \in Headed(more, kind) PROVE Ended(more, i)
  <2>1. i \in 1 .. Len(ls) /\ ls[i][1] # END
    BY <1>2, <1>3, <1>7, Keywords DEF Headed
  <2> QED
    BY <2>1, BlockGoesOn
<1>8. OneIsOpen(more, None)
  BY <1>6, <1>7 DEF OneIsOpen
<1> QED
  BY <1>1, <1>5, <1>8 DEF Blocks

(* What a heading begins.                                                         *)
LEMMA RecordBegun ==
  ASSUME NEW line \in Line, IsHeading(line)
  PROVE  /\ line[1] \in RecordKinds
         /\ Begun(line) \in RecordsOf(line[1])
         /\ Begun(line).name = NameIn(line)
         /\ line[1] \in FieldKinds => HasFields(Begun(line), <<>>)
         /\ line[1] = Keyword("ENUM") => HasValues(Begun(line), <<>>)
<1>1. \A s, t : Keyword(s) = Keyword(t) => s = t
  BY DEF Keyword
<1>2. /\ Len(line) \in Nat /\ \A i \in 1 .. Len(line) : line[i] \in Token
      /\ \A t : IsNumber(t) => Number[t] \in Int
  BY DirectiveFilesAssumption DEF Line, IsNumber
<1>3. <<>> \in Seq(LineFields) /\ <<>> \in Seq(Int)
  OBVIOUS
<1>4. CASE line[1] = Keyword("STRUCT")
  <2>1. Len(line) = 2 /\ line[2] \in Token
    BY <1>1, <1>2, <1>4 DEF IsHeading
  <2>2. Begun(line) = [name |-> line[2], fields |-> <<>>]
    BY <1>1, <1>4 DEF Begun
  <2>3. RecordsOf(line[1]) = StructRecords /\ NameIn(line) = line[2]
    BY <1>1, <1>4 DEF RecordsOf, NameIn
  <2>4. HasFields(Begun(line), <<>>)
    BY <2>2 DEF HasFields
  <2>5. line[1] \in RecordKinds /\ line[1] # Keyword("ENUM")
    BY <1>1, <1>4 DEF RecordKinds
  <2>6. [name |-> line[2], fields |-> <<>>] \in StructRecords
    BY <1>3, <2>1 DEF StructRecords
  <2> QED
    BY <2>2, <2>3, <2>4, <2>5, <2>6
<1>5. CASE line[1] = Keyword("DEF")
  <2> DEFINE version == IF Len(line) > 3 THEN Number[Last(line)] ELSE 0
  <2>1. IsDef(line)
    BY <1>1, <1>5 DEF IsHeading
  <2>2. line[3] \in Token /\ Number[line[2]] \in Int
    BY <1>2, <2>1 DEF IsDef
  <2>3. version \in Int
    <3>1. CASE Len(line) > 3
      <4>1. Len(line) \in 4 .. Len(line) /\ Len(line) % 2 # 0
        BY <1>2, <2>1, <3>1 DEF IsDef
      <4>2. IsNumber(line[Len(line)])
        BY <2>1, <4>1 DEF IsDef
      <4> QED
        BY <1>2, <3>1, <4>2 DEF Last
    <3> QED
      BY <3>1
  <2>4. Begun(line) = [name |-> line[3], defIndex |-> Number[line[2]], fields |-> <<>>,
                       version |-> version]
    BY <1>1, <1>5 DEF Begun
  <2> HIDE DEF version
  <2>5. RecordsOf(line[1]) = DefRecords /\ NameIn(line) = line[3]
    BY <1>1, <1>5 DEF RecordsOf, NameIn
  <2>6. HasFields(Begun(line), <<>>)
    BY <2>4 DEF HasFields
  <2>7. line[1] \in RecordKinds /\ line[1] # Keyword("ENUM")
    BY <1>1, <1>5 DEF RecordKinds
  <2>8. [name |-> line[3], defIndex |-> Number[line[2]], fields |-> <<>>, version |-> version] \in DefRecords
    BY <1>3, <2>2, <2>3 DEF DefRecords
  <2> QED
    BY <2>4, <2>5, <2>6, <2>7, <2>8
<1>6. CASE line[1] = Keyword("ENUM")
  <2>1. Len(line) = 2 /\ line[2] \in Token
    BY <1>1, <1>2, <1>6 DEF IsHeading
  <2>2. Begun(line) = [name |-> line[2], values |-> <<>>, valueNames |-> <<>>]
    BY <1>1, <1>6 DEF Begun
  <2>3. RecordsOf(line[1]) = EnumRecords /\ NameIn(line) = line[2]
    BY <1>1, <1>6 DEF RecordsOf, NameIn
  <2>4. HasValues(Begun(line), <<>>)
    <3>1. ToSet(<<>>) = {} /\ DOMAIN <<>> = {}
      BY DEF ToSet
    <3> QED
      BY <2>2, <3>1 DEF HasValues
  <2>5. <<>> \in NameMaps
    <3>1. <<>> \in [{} -> Token] /\ {} \in SUBSET Int
      OBVIOUS
    <3> QED
      BY <3>1 DEF NameMaps
  <2>6. line[1] \in RecordKinds /\ line[1] \notin FieldKinds
    BY <1>1, <1>6 DEF RecordKinds, FieldKinds
  <2>7. [name |-> line[2], values |-> <<>>, valueNames |-> <<>>] \in EnumRecords
    BY <1>3, <2>1, <2>5 DEF EnumRecords
  <2> QED
    BY <2>2, <2>3, <2>4, <2>6, <2>7
<1>7. CASE line[1] = Keyword("DEF_ALIAS")
  <2>1. line[3] \in Token /\ line[4] \in Token /\ Number[line[2]] \in Int
    BY <1>1, <1>2, <1>7 DEF IsHeading
  <2>2. Begun(line) = [name |-> line[3], defIndex |-> Number[line[2]], targetName |-> line[4]]
    BY <1>1, <1>7 DEF Begun
  <2>3. RecordsOf(line[1]) = AliasRecords /\ NameIn(line) = line[3]
    BY <1>1, <1>7 DEF RecordsOf, NameIn
  <2>4. line[1] \in RecordKinds /\ line[1] \notin FieldKinds /\ line[1] # Keyword("ENUM")
    BY <1>1, <1>7 DEF RecordKinds, FieldKinds
  <2>5. [name |-> line[3], defIndex |-> Number[line[2]], targetName |-> line[4]] \in AliasRecords
    BY <2>1 DEF AliasRecords
  <2> QED
    BY <2>2, <2>3, <2>4, <2>5
<1> QED
  BY <1>4, <1>5, <1>6, <1>7 DEF IsHeading

(* The line that begins a block, or is an alias.                                   *)
LEMMA BlockIsBegun ==
  ASSUME NEW ls \in Seq(Line), NEW recs, Blocks(ls, recs, None),
         NEW line \in Line, IsHeading(line)
  PROVE  Blocks(Append(ls, line), [recs EXCEPT ![line[1]] = Append(@, Begun(line))],
                IF line[1] = Keyword("DEF_ALIAS") THEN None ELSE line[1])
<1> DEFINE more == Append(ls, line)
           l == Len(ls)
           k == line[1]
           s == Append(recs[k], Begun(line))
           new == [recs EXCEPT ![k] = s]
           b == IF k = Keyword("DEF_ALIAS") THEN None ELSE k
<1>1. RecordsTyped(recs) /\ RecordsDescribe(ls, recs) /\ OneIsOpen(ls, None)
  BY DEF Blocks
<1>2. /\ k \in RecordKinds /\ Begun(line) \in RecordsOf(k)
      /\ Begun(line).name = NameIn(line)
      /\ k \in FieldKinds => HasFields(Begun(line), <<>>)
      /\ k = Keyword("ENUM") => HasValues(Begun(line), <<>>)
  BY RecordBegun
<1>3. k # END /\ TopAt(ls, l + 1)
  BY <1>1, <1>2, Keywords DEF OneIsOpen
<1>4. more \in Seq(Line) /\ Len(more) = l + 1 /\ l \in Nat /\ more[l + 1] = line
  OBVIOUS
<1>5. \A kind : Headed(more, kind) = Headed(ls, kind) \cup (IF k = kind THEN {l + 1} ELSE {})
  BY <1>3, HeadedAppended
<1>6. \A kind : Headed(ls, kind) \subseteq 1 .. l /\ IsFiniteSet(Headed(ls, kind))
                /\ Cardinality(Headed(ls, kind)) \in Nat
  BY HeadedFinite
<1>7. \A i \in 1 .. l : Rank(more, i) = Rank(ls, i)
  BY RankStays
<1>8. Block(more, l + 1) = <<>> /\ ~Ended(more, l + 1)
  BY <1>3, BlockBegins
<1>9. \A kind \in BlockKinds : \A i \in Headed(ls, kind) : Ended(ls, i)
  BY <1>1, Keywords DEF OneIsOpen
<1>10. \A kind \in BlockKinds : \A i \in Headed(ls, kind) : Ended(more, i)
  <2> SUFFICES ASSUME NEW kind \in BlockKinds, NEW i \in Headed(ls, kind) PROVE Ended(more, i)
    OBVIOUS
  <2>1. i \in 1 .. Len(ls) /\ ls[i][1] # END /\ Ended(ls, i)
    BY <1>6, <1>9, Keywords DEF Headed
  <2> QED
    BY <2>1, BlockGoesOn
<1>11. /\ k \in DOMAIN recs /\ RecordKinds \subseteq DOMAIN recs
       /\ \A kind \in RecordKinds : recs[kind] \in Seq(RecordsOf(kind))
  BY <1>1, <1>2 DEF RecordsTyped
<1>12. LastHeaded(more, k, l + 1) /\ l + 1 \in Headed(more, k)
  <2>1. \A j \in Headed(more, k) : j <= l + 1
    BY <1>4, <1>5, <1>6
  <2> QED
    BY <1>5, <2>1 DEF LastHeaded
<1>13. TopAt(more, Len(more) + 1) <=> k \in {END, Keyword("DEF_ALIAS")}
  BY TopAfter
<1>14. \A kind \in RecordKinds : \A i \in Headed(ls, kind) :
         \A record : Describes(kind, record, ls, i) => Describes(kind, record, more, i)
  BY <1>9, DescriptionStays
<1> HIDE DEF more, k, l
<1>15. Rank(more, l + 1) = Cardinality(Headed(more, k))
  <2>1. \A j \in Headed(more, k) : j <= l + 1
    BY <1>12 DEF LastHeaded
  <2> QED
    BY <1>4, <1>12, <2>1, RanksAreNumbers
<1>16. Cardinality(Headed(more, k)) = Cardinality(Headed(ls, k)) + 1
  <2>1. l + 1 \notin Headed(ls, k)
    BY <1>4, <1>6
  <2>2. Headed(more, k) = Headed(ls, k) \cup {l + 1}
    BY <1>5
  <2> QED
    BY <1>6, <2>1, <2>2, FS_AddElement
<1>17. /\ s \in Seq(RecordsOf(k)) /\ Len(s) = Len(recs[k]) + 1 /\ Len(recs[k]) \in Nat
       /\ s[Len(recs[k]) + 1] = Begun(line)
       /\ \A n \in 1 .. Len(recs[k]) : s[n] = recs[k][n]
  BY <1>2, <1>11
<1> HIDE DEF s
<1>18. DOMAIN new = DOMAIN recs /\ new[k] = s /\ \A kind \in RecordKinds \ {k} : new[kind] = recs[kind]
  BY <1>11
<1> HIDE DEF new
<1>19. RecordsTyped(new)
  BY <1>11, <1>17, <1>18 DEF RecordsTyped
<1>20. RecordsDescribe(more, new)
  <2> SUFFICES ASSUME NEW kind \in RecordKinds
               PROVE  /\ Len(new[kind]) = Cardinality(Headed(more, kind))
                      /\ \A i \in Headed(more, kind) : Describes(kind, new[kind][Rank(more, i)], more, i)
    BY DEF RecordsDescribe
  <2>1. Len(recs[kind]) = Cardinality(Headed(ls, kind))
        /\ \A i \in Headed(ls, kind) : Describes(kind, recs[kind][Rank(ls, i)], ls, i)
    BY <1>1 DEF RecordsDescribe
  <2>2. ASSUME NEW i \in Headed(ls, kind) PROVE Describes(kind, new[kind][Rank(more, i)], more, i)
    <3>1. Rank(more, i) = Rank(ls, i) /\ Rank(ls, i) \in 1 .. Len(recs[kind])
      <4>1. i \in 1 .. l /\ Rank(ls, i) \in 1 .. Cardinality(Headed(ls, kind))
        BY <1>6, <2>2, RanksAreNumbers
      <4> QED
        BY <1>7, <2>1, <4>1
    <3>2. new[kind][Rank(ls, i)] = recs[kind][Rank(ls, i)]
      BY <1>17, <1>18, <3>1
    <3> QED
      BY <1>14, <2>1, <2>2, <3>1, <3>2
  <2>3. CASE kind # k
    <3>1. Headed(more, kind) = Headed(ls, kind) /\ new[kind] = recs[kind]
      BY <1>5, <1>18, <2>3
    <3> QED
      BY <2>1, <2>2, <3>1
  <2>4. CASE kind = k
    <3>1. Len(new[kind]) = Cardinality(Headed(more, kind))
      BY <1>16, <1>17, <1>18, <2>1, <2>4
    <3>2. Describes(kind, new[kind][Rank(more, l + 1)], more, l + 1)
      <4>1. new[kind][Rank(more, l + 1)] = Begun(line)
        BY <1>15, <1>16, <1>17, <1>18, <2>1, <2>4
      <4> QED
        BY <1>2, <1>4, <1>8, <2>4, <4>1 DEF Describes
    <3>3. \A i \in Headed(more, kind) : i \in Headed(ls, kind) \/ i = l + 1
      BY <1>5
    <3> QED
      BY <2>2, <3>1, <3>2, <3>3
  <2> QED
    BY <2>3, <2>4
<1>21. OneIsOpen(more, b)
  <2>1. b \in BlockKinds \cup {None} /\ (b = None <=> k = Keyword("DEF_ALIAS"))
        /\ (b # None => b = k)
    BY <1>2, Keywords
  <2>2. b # None => \E i \in 1 .. Len(more) : LastHeaded(more, b, i) /\ ~Ended(more, i)
    <3>1. l + 1 \in 1 .. Len(more)
      BY <1>4
    <3> QED
      BY <1>8, <1>12, <2>1, <3>1
  <2>3. ASSUME NEW kind \in BlockKinds, NEW i \in Headed(more, kind)
        PROVE  Ended(more, i) \/ (kind = b /\ LastHeaded(more, b, i))
    <3>1. CASE i \in Headed(ls, kind)
      BY <1>10, <2>3, <3>1
    <3>2. CASE i \notin Headed(ls, kind)
      <4>1. k = kind /\ i = l + 1
        BY <1>5, <2>3, <3>2
      <4>2. b = k
        BY <2>1, <2>3, <4>1, Keywords
      <4> QED
        BY <1>12, <4>1, <4>2
    <3> QED
      BY <3>1, <3>2
  <2> HIDE DEF b
  <2> QED
    BY <1>3, <1>13, <2>1, <2>2, <2>3 DEF OneIsOpen
<1> QED
  BY <1>19, <1>20, <1>21 DEF Blocks, new, s, more, k

(* A line of a block of fields adds its field.                                     *)
LEMMA FieldIsAdded ==
  ASSUME NEW ls \in Seq(Line), NEW recs, NEW b \in FieldKinds, Blocks(ls, recs, b),
         NEW line \in Line, line[1] # END, IsField(line)
  PROVE  Blocks(Append(ls, line),
                [recs EXCEPT ![b][Len(recs[b])].fields = Append(@, Field(line))], b)
<1> DEFINE old == recs[b][Len(recs[b])]
           grown == [old EXCEPT !.fields = Append(@, Field(line))]
           more == Append(ls, line)
<1>1. b # None /\ b # Keyword("ENUM") /\ b \in RecordKinds
  BY Keywords
<1>2. line[1] \notin {END, Keyword("DEF_ALIAS")}
  <2>1. line[1] \in FieldTypes
    BY DEF IsField, TypeAt, ARRAY, FieldTypes
  <2> QED
    BY <2>1, Keywords
<1>3. ASSUME NEW i \in Headed(ls, b), Describes(b, old, ls, i), ~Ended(ls, i)
      PROVE  grown \in RecordsOf(b) /\ Describes(b, grown, more, i)
  <2> DEFINE s == Append(old.fields, Field(line))
             block == Block(ls, i)
  <2>1. i \in 1 .. Len(ls) /\ ls[i][1] = b /\ ls[i][1] # END
    BY <1>1, Keywords DEF Headed
  <2>2. Block(more, i) = Append(block, line)
    BY <1>2, <1>3, <2>1, BlockGoesOn
  <2>3. more[i] = ls[i]
    BY <2>1
  <2>4. HasFields(old, block) /\ old.name = NameIn(ls[i])
    BY <1>3 DEF Describes
  <2>5. old \in RecordsOf(b)
    <3>1. recs[b] \in Seq(RecordsOf(b)) /\ Len(recs[b]) = Cardinality(Headed(ls, b))
          /\ Rank(ls, i) \in 1 .. Cardinality(Headed(ls, b))
      BY <1>1, <1>3, RanksAreNumbers DEF Blocks, RecordsTyped, RecordsDescribe
    <3>2. Len(recs[b]) \in 1 .. Len(recs[b])
      BY <3>1
    <3> QED
      BY <3>1, <3>2
  <2>6. old.fields \in Seq(LineFields) /\ RecordsOf(b) \in {StructRecords, DefRecords}
    BY <2>5, Keywords DEF RecordsOf, FieldKinds, StructRecords, DefRecords
  <2>7. Field(line) \in LineFields
    BY DEF LineFields
  <2>8. block \in Seq(Line)
    BY <2>1, BlockTyped
  <2>9. /\ s \in Seq(LineFields) /\ Len(s) = Len(old.fields) + 1
        /\ s[Len(old.fields) + 1] = Field(line) /\ \A n \in 1 .. Len(old.fields) : s[n] = old.fields[n]
    BY <2>6, <2>7
  <2> HIDE DEF s, old, block, more
  <2>10. grown = [old EXCEPT !.fields = s]
    BY DEF s
  <2> HIDE DEF grown
  <2>11. grown \in RecordsOf(b) /\ grown.fields = s /\ grown.name = old.name
    <3>1. CASE RecordsOf(b) = StructRecords
      BY <2>5, <2>9, <2>10, <3>1 DEF StructRecords
    <3>2. CASE RecordsOf(b) = DefRecords
      BY <2>5, <2>9, <2>10, <3>2 DEF DefRecords
    <3> QED
      BY <2>6, <3>1, <3>2
  <2>12. HasFields(grown, Append(block, line))
    <3>1. Len(old.fields) = Len(block) /\ \A n \in 1 .. Len(block) : Spells(old.fields[n], block[n])
      BY <2>4, <2>8 DEF HasFields
    <3>2. Spells(Field(line), line)
      BY FieldSpells
    <3>3. /\ Len(Append(block, line)) = Len(block) + 1 /\ DOMAIN Append(block, line) = 1 .. Len(block) + 1
          /\ Append(block, line)[Len(block) + 1] = line
          /\ \A n \in 1 .. Len(block) : Append(block, line)[n] = block[n]
          /\ Len(block) \in Nat
      BY <2>8
    <3>4. \A n \in 1 .. Len(block) + 1 : n \in 1 .. Len(block) \/ n = Len(block) + 1
      BY <3>3
    <3>5. \A n \in 1 .. Len(block) + 1 : Spells(s[n], Append(block, line)[n])
      BY <2>9, <3>1, <3>2, <3>3, <3>4
    <3> QED
      BY <2>9, <2>11, <3>1, <3>3, <3>5 DEF HasFields
  <2> QED
    BY <1>1, <2>2, <2>3, <2>4, <2>11, <2>12 DEF Describes
<1> HIDE DEF grown
<1>4. Blocks(more, LastReplaced(recs, b, grown), b)
  BY <1>1, <1>2, <1>3, BlockGrows
<1>5. LastReplaced(recs, b, grown) = [recs EXCEPT ![b][Len(recs[b])].fields = Append(@, Field(line))]
  BY DEF LastReplaced, grown
<1> QED
  BY <1>4, <1>5

(* A line of an enum adds its values.                                              *)
LEMMA ValuesAreAdded ==
  ASSUME NEW ls \in Seq(Line), NEW recs, Blocks(ls, recs, Keyword("ENUM")),
         NEW line \in Line, IsValues(line)
  PROVE  LET b == Keyword("ENUM")
         IN  Blocks(Append(ls, line),
                    [recs EXCEPT ![b][Len(recs[b])] = WithValues(@, line)], b)
<1> DEFINE b == Keyword("ENUM")
           old == recs[b][Len(recs[b])]
           grown == WithValues(old, line)
           more == Append(ls, line)
<1>1. b # None /\ b \notin FieldKinds /\ b \in RecordKinds /\ RecordsOf(b) = EnumRecords
  <2>1. b # Keyword("STRUCT") /\ b # Keyword("DEF")
    BY DEF Keyword
  <2> QED
    BY <2>1, Keywords DEF RecordsOf
<1>2. line[1] \notin {END, Keyword("DEF_ALIAS")}
  BY Keywords DEF IsValues
<1>3. ASSUME NEW i \in Headed(ls, b), Describes(b, old, ls, i), ~Ended(ls, i)
      PROVE  grown \in RecordsOf(b) /\ Describes(b, grown, more, i)
  <2> DEFINE block == Block(ls, i)
  <2>1. i \in 1 .. Len(ls) /\ ls[i][1] = b /\ ls[i][1] # END
    BY <1>1, Keywords DEF Headed
  <2>2. Block(more, i) = Append(block, line)
    BY <1>2, <1>3, <2>1, BlockGoesOn
  <2>3. more[i] = ls[i]
    BY <2>1
  <2>4. HasValues(old, block) /\ old.name = NameIn(ls[i])
    BY <1>3 DEF Describes
  <2>5. old \in EnumRecords
    <3>1. recs[b] \in Seq(RecordsOf(b)) /\ Len(recs[b]) = Cardinality(Headed(ls, b))
          /\ Rank(ls, i) \in 1 .. Cardinality(Headed(ls, b))
      BY <1>1, <1>3, RanksAreNumbers DEF Blocks, RecordsTyped, RecordsDescribe
    <3>2. Len(recs[b]) \in 1 .. Len(recs[b])
      BY <3>1
    <3> QED
      BY <1>1, <3>1, <3>2
  <2>6. block \in Seq(Line)
    BY <2>1, BlockTyped
  <2> HIDE DEF old, block, more, b
  <2>7. grown \in EnumRecords /\ grown.name = old.name /\ HasValues(grown, Append(block, line))
    BY <2>4, <2>5, <2>6, ValuesAdded
  <2> HIDE DEF grown
  <2> QED
    BY <1>1, <2>2, <2>3, <2>4, <2>7 DEF Describes
<1> HIDE DEF grown
<1>4. Blocks(more, LastReplaced(recs, b, grown), b)
  BY <1>1, <1>2, <1>3, BlockGrows
<1>5. LastReplaced(recs, b, grown) = [recs EXCEPT ![b][Len(recs[b])] = WithValues(@, line)]
  BY DEF LastReplaced, grown
<1> QED
  BY <1>4, <1>5

-----------------------------------------------------------------------------
(* The parse.                                                                   *)

DirectivesTyped ==
  /\ file \in Files
  /\ tokens \in Seq(Token)
  /\ tokenBuffer \in Token
  /\ lines \in Seq(Line)

BlocksRecorded == file.kind = "database" /\ stage # "failed" => Blocks(lines, records, building)

ParseInv == DirectivesTyped /\ BlocksRecorded

LEMMA ParseInitInv == ParseInit => ParseInv
<1> SUFFICES ASSUME ParseInit PROVE ParseInv
  OBVIOUS
<1> DEFINE vectors == {Keyword(s) : s \in {"STRUCT", "DEF", "DEF_ALIAS", "ENUM", "MANIFEST",
                                           "FILE_TABLE", "PREFIX", "SUPPORTED_VERSION"}}
<1>1. DirectivesTyped
  BY DEF ParseInit, DirectivesTyped, Token, Line
<1>2. lines = <<>> /\ building = None /\ records = [k \in vectors |-> <<>>]
  BY DEF ParseInit
<1>3. RecordKinds \subseteq vectors
  BY DEF RecordKinds
<1> HIDE DEF vectors
<1>4. \A kind \in RecordKinds : records[kind] = <<>>
  BY <1>2, <1>3
<1>5. \A kind : Headed(<<>>, kind) = {}
  BY DEF Headed
<1>6. Cardinality({}) = 0
  BY FS_EmptySet
<1>7. RecordsTyped(records)
  BY <1>2, <1>3, <1>4 DEF RecordsTyped
<1>8. RecordsDescribe(<<>>, records)
  <2>1. \A kind \in RecordKinds : Len(records[kind]) = Cardinality(Headed(<<>>, kind))
    <3>1. Len(<<>>) = 0
      OBVIOUS
    <3> QED
      BY <1>4, <1>5, <1>6, <3>1
  <2> QED
    BY <1>5, <2>1 DEF RecordsDescribe
<1>9. OneIsOpen(<<>>, None)
  <2>1. TopAt(<<>>, Len(<<>>) + 1)
    BY DEF TopAt
  <2> QED
    BY <1>5, <2>1 DEF OneIsOpen
<1> QED
  BY <1>1, <1>2, <1>7, <1>8, <1>9 DEF ParseInv, BlocksRecorded, Blocks

LEMMA LineProcessed ==
  ASSUME ParseInv, NEW line \in Line, ProcessLine(line), UNCHANGED file, stage = "reading"
  PROVE  lines' \in Seq(Line) /\ BlocksRecorded'
<1>1. lines' = Append(lines, line) /\ lines \in Seq(Line)
  BY DEF ProcessLine, ParseInv, DirectivesTyped
<1>2. lines' \in Seq(Line)
  BY <1>1
<1> SUFFICES ASSUME file.kind = "database", stage' # "failed"
             PROVE  Blocks(lines', records', building')
  BY <1>2 DEF BlocksRecorded
<1>3. Blocks(lines, records, building)
  BY DEF ParseInv, BlocksRecorded
<1>4. ~IsEntry(line)
  BY DEF IsEntry
<1>5. AddHeading(line) \/ AddEnd(line) \/ AddField(line) \/ AddValues(line)
  BY <1>4 DEF ProcessLine, AddEntry
<1>6. CASE AddHeading(line)
  <2>1. building = None /\ IsHeading(line)
        /\ records' = [records EXCEPT ![line[1]] = Append(@, Begun(line))]
        /\ building' = IF line[1] = Keyword("DEF_ALIAS") THEN None ELSE line[1]
    BY <1>6 DEF AddHeading, Add
  <2> QED
    BY <1>1, <1>3, <2>1, BlockIsBegun
<1>7. CASE AddEnd(line)
  BY <1>1, <1>3, <1>7, BlockEnds DEF AddEnd
<1>8. CASE AddField(line)
  <2>1. building \in FieldKinds /\ line[1] # END /\ IsField(line) /\ building' = building
        /\ records' = [records EXCEPT ![building][Len(records[building])].fields = Append(@, Field(line))]
    BY <1>8 DEF AddField, Current, FieldKinds
  <2> QED
    BY <1>1, <1>3, <2>1, FieldIsAdded
<1>9. CASE AddValues(line)
  <2> DEFINE b == Keyword("ENUM")
  <2>1. building = b /\ IsValues(line) /\ building' = building
    BY <1>9 DEF AddValues
  <2>2. records' = [records EXCEPT ![b][Len(records[b])] = WithValues(@, line)]
    BY <1>9, <2>1 DEF AddValues, Current
  <2> QED
    BY <1>1, <1>3, <2>1, <2>2, ValuesAreAdded
<1> QED
  BY <1>5, <1>6, <1>7, <1>8, <1>9

LEMMA ParseStepInv == ParseInv /\ [ParseNext]_directiveVars => ParseInv'
<1> SUFFICES ASSUME ParseInv, [ParseNext]_directiveVars PROVE ParseInv'
  OBVIOUS
<1>1. file \in Files /\ tokens \in Seq(Token) /\ tokenBuffer \in Token /\ lines \in Seq(Line)
  BY DEF ParseInv, DirectivesTyped
<1>2. Finished \in Line
  BY <1>1 DEF Finished, Line
<1>3. <<>> \in Token /\ <<>> \in Seq(Token)
  BY DEF Token
<1>4. ToSet(file.text) \subseteq Letter
  BY <1>1 DEF Letter
<1>5. ASSUME NoLine, UNCHANGED file, tokens' \in Seq(Token), tokenBuffer' \in Token PROVE ParseInv'
  <2>1. UNCHANGED <<file, building, records, stage, lines>>
    BY <1>5 DEF NoLine
  <2>2. DirectivesTyped'
    BY <1>1, <1>5, <2>1 DEF DirectivesTyped
  <2>3. BlocksRecorded
    BY DEF ParseInv
  <2> QED
    BY <2>1, <2>2, <2>3 DEF ParseInv, BlocksRecorded
<1>6. CASE EndLine
  <2>1. UNCHANGED file /\ stage = "reading" /\ tokens' = <<>> /\ tokenBuffer' = <<>>
    BY <1>6 DEF EndLine, Reads, EndToken
  <2>2. CASE Finished = <<>>
    BY <1>3, <1>5, <1>6, <2>1, <2>2 DEF EndLine
  <2>3. CASE Finished # <<>>
    <3>1. ProcessLine(Finished)
      BY <1>6, <2>3 DEF EndLine
    <3>2. lines' \in Seq(Line) /\ BlocksRecorded'
      BY <1>2, <2>1, <3>1, LineProcessed
    <3> QED
      BY <1>1, <1>3, <2>1, <3>2 DEF ParseInv, DirectivesTyped
  <2> QED
    BY <2>2, <2>3
<1>7. CASE ReadBlank
  BY <1>2, <1>3, <1>5, <1>7 DEF ReadBlank, Reads, EndToken, Line
<1>8. CASE OpenQuote
  BY <1>1, <1>5, <1>8 DEF OpenQuote, Reads
<1>9. CASE OpenComment
  BY <1>1, <1>5, <1>9 DEF OpenComment, Reads
<1>10. CASE ReadComment
  BY <1>1, <1>5, <1>10 DEF ReadComment, Reads, lexer
<1>11. CASE Escape
  BY <1>1, <1>5, <1>11 DEF Escape, Reads
<1>12. CASE CloseQuote
  BY <1>1, <1>5, <1>12 DEF CloseQuote, Reads
<1>13. CASE ReadLetter
  <2>1. PICK c \in Literal : Reads(c) /\ tokenBuffer' = Append(tokenBuffer, c)
    BY <1>13 DEF ReadLetter
  <2>2. c \in Letter
    BY <1>4 DEF Literal
  <2>3. tokenBuffer' \in Token
    BY <1>1, <2>1, <2>2 DEF Token
  <2> QED
    BY <1>1, <1>5, <1>13, <2>1, <2>3 DEF ReadLetter, Reads
<1>14. CASE EndOfFile
  <2>1. stage = "reading" /\ UNCHANGED <<file, tokens, tokenBuffer, building, records, lines>>
    BY <1>14 DEF EndOfFile, lexer
  <2>2. DirectivesTyped'
    BY <1>1, <2>1 DEF DirectivesTyped
  <2>3. BlocksRecorded
    BY DEF ParseInv
  <2> QED
    BY <2>1, <2>2, <2>3 DEF ParseInv, BlocksRecorded
<1>15. CASE UNCHANGED directiveVars
  BY <1>1, <1>5, <1>15 DEF directiveVars, lexer, NoLine
<1> QED
  BY <1>6, <1>7, <1>8, <1>9, <1>10, <1>11, <1>12, <1>13, <1>14, <1>15 DEF ParseNext

LEMMA BlocksAreRecords == ParseInv => RecordsAreBlocks
<1> SUFFICES ASSUME ParseInv, file.kind = "database", stage # "failed",
                    NEW kind \in RecordKinds
             PROVE  /\ Len(records[kind]) = Cardinality(Headed(lines, kind))
                    /\ \A i \in Headed(lines, kind) :
                         LET record == records[kind][Rank(lines, i)] IN
                         /\ record.name = NameIn(lines[i])
                         /\ kind \in FieldKinds => HasFields(record, Block(lines, i))
                         /\ kind = Keyword("ENUM") => HasValues(record, Block(lines, i))
  <2>1. FieldKinds = {Keyword("STRUCT"), Keyword("DEF")}
    BY DEF FieldKinds
  <2> QED
    BY <2>1 DEF RecordsAreBlocks, RecordKinds
<1> QED
  BY DEF ParseInv, BlocksRecorded, Blocks, RecordsDescribe, Describes

(* The records of a database are the blocks of its text, in order, with a field    *)
(* for each line and no token of it dropped, or the values their lines give, for    *)
(* any text and numbers (DatabaseDirectiveFile::processLine).                       *)
THEOREM RecordsStandForBlocks == ParseSpec => []RecordsAreBlocks
<1>1. ParseInit => ParseInv
  BY ParseInitInv
<1>2. ParseInv /\ [ParseNext]_directiveVars => ParseInv'
  BY ParseStepInv
<1>3. ParseInv => RecordsAreBlocks
  BY BlocksAreRecords
<1> QED
  BY <1>1, <1>2, <1>3, PTL DEF ParseSpec
=============================================================================
