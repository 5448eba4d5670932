-------------------------- MODULE DirectoryListing --------------------------
(***************************************************************************)
(* What listing a directory promises to its callers, whatever the thread    *)
(* pool, the buffers and the kind of directory: once a listing has begun,    *)
(* every entry it owes is delivered once, in the order of the names, and     *)
(* the end is announced when, and only when, nothing is owed.  A listing may  *)
(* be begun again or abandoned at any time.                                  *)
(***************************************************************************)
EXTENDS Integers

CONSTANTS Guids,
          Wants,       \* the sets of entries that a listing may have to deliver
          NotListing   \* no listing is in progress

VARIABLE listing       \* GUID to the listing in progress

Init == listing = [g \in Guids |-> NotListing]

Begin(g) ==
  \E want \in Wants :
     listing' = [listing EXCEPT ![g] = [want |-> want, got |-> {}, ended |-> FALSE]]

Owed(g) == listing[g].want \ listing[g].got

Deliver(g) ==
  /\ listing[g] # NotListing /\ ~listing[g].ended
  /\ \E entry \in Owed(g) :
       /\ \A other \in Owed(g) : entry.name <= other.name
       /\ listing' = [listing EXCEPT ![g].got = @ \cup {entry}]

End(g) ==
  /\ listing[g] # NotListing /\ Owed(g) = {}
  /\ listing' = [listing EXCEPT ![g].ended = TRUE]

Abandon(g) == listing' = [listing EXCEPT ![g] = NotListing]

Next == \E g \in Guids : Begin(g) \/ Deliver(g) \/ End(g) \/ Abandon(g)

Spec == Init /\ [][Next]_listing
=============================================================================
