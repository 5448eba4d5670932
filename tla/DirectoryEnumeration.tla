------------------------ MODULE DirectoryEnumeration ------------------------
(***************************************************************************)
(* The three directory enumeration callbacks of ProjectedFilesystem, called *)
(* by the ProjFS thread pool, and the callers they serve.                   *)
(*                                                                         *)
(* A caller opens a directory (startDirectoryEnumeration), fetches entries  *)
(* into buffers of any size, possibly restarting the scan with another      *)
(* search expression (getDirectoryEnumeration), and closes it               *)
(* (endDirectoryEnumeration).  Each callback runs on one of Threads.  The    *)
(* mutex m_directoryEnumerationMutex only covers the accesses to            *)
(* m_directoryEnumerations, each of which is one step; between them the     *)
(* callback uses its own frame and, in getDirectoryEnumeration, the          *)
(* DirectoryEnumeration it found, through a raw pointer kept after the      *)
(* unlock.                                                                  *)
(*                                                                         *)
(* ProjFS is external.  It gives every open directory its own GUID and does  *)
(* not overlap two callbacks for one GUID, calls for different GUIDs overlap *)
(* freely, and a call that returns S_OK without entries tells the caller     *)
(* that the scan has ended.  A search expression is the set of names that    *)
(* PrjFileNameMatch accepts for it, a buffer is the number of entries that   *)
(* still fit.                                                                *)
(***************************************************************************)
EXTENDS MountContents

CONSTANTS Threads,       \* the ProjFS thread pool
          Guids,         \* identities of open directories
          Paths,         \* the paths that callers try to list
          Expressions,   \* the search expressions that callers use
          NoExpression,  \* no (or an empty) search expression
          MaxRoom,       \* bound: entries that fit the largest buffer
          MaxRestarts    \* bound: restarts of one open directory

ASSUME CallerAssumption ==
  /\ Paths \subseteq Path
  /\ \A expression \in Expressions : expression \subseteq Name
  /\ NoExpression \notin Expressions
  /\ MaxRoom \in Nat
  /\ MaxRestarts \in Nat

VARIABLES m_directoryEnumerations,  \* GUID to DirectoryEnumeration, the open ones
          pc,                       \* where each thread is
          frame,                    \* the arguments and locals of its callback
          session,                  \* what ProjFS knows of each GUID
          scan                      \* what the caller has seen of each listing

vars == <<m_directoryEnumerations, pc, frame, session, scan>>

Expression == Expressions \cup {NoExpression}
Matches(expression, name) == expression = NoExpression \/ name \in expression

Enumeration ==
  [path : Paths, byID : BOOLEAN, scanInProgress : BOOLEAN, filter : BOOLEAN,
   pattern : Expression, firstID : Keys, lastID : Keys, posID : Keys,
   iterator : SUBSET Name]

(* Both kinds of callback in one record: guid is the key a start will insert *)
(* or the DirectoryEnumeration a get points to.                              *)
Frame ==
  [guid : Guids, path : Paths, cursor : Cursor, byID : BOOLEAN,
   restart : BOOLEAN, expression : Expression, room : 0 .. MaxRoom,
   writtenEntry : BOOLEAN]

Scan ==
  [path : Paths, expression : Expression, started : BOOLEAN,
   got : SUBSET Entry, ended : BOOLEAN, restarts : 0 .. MaxRestarts]

-----------------------------------------------------------------------------
TypeOK ==
  /\ DOMAIN m_directoryEnumerations \subseteq Guids
  /\ \A g \in DOMAIN m_directoryEnumerations :
        m_directoryEnumerations[g] \in Enumeration
  /\ pc \in [Threads -> {"idle", "parse", "register", "lookup", "prepare", "fill"}]
  /\ DOMAIN frame = Threads
  /\ \A t \in Threads : pc[t] # "idle" => frame[t] \in Frame
  /\ session \in [Guids -> {"closed", "calling", "open"}]
  /\ DOMAIN scan = Guids
  /\ \A g \in Guids : session[g] # "closed" => scan[g] \in Scan

NoFrame == <<>>
NoScan == <<>>

Init ==
  /\ m_directoryEnumerations = <<>>
  /\ pc = [t \in Threads |-> "idle"]
  /\ frame = [t \in Threads |-> NoFrame]
  /\ session = [g \in Guids |-> "closed"]
  /\ scan = [g \in Guids |-> NoScan]

Return(t, g, outcome) ==
  /\ pc' = [pc EXCEPT ![t] = "idle"]
  /\ frame' = [frame EXCEPT ![t] = NoFrame]
  /\ session' = [session EXCEPT ![g] = outcome]

-----------------------------------------------------------------------------
(* startDirectoryEnumeration                                               *)

OpenDirectory(t, g, path) ==
  /\ pc[t] = "idle" /\ session[g] = "closed"
  /\ pc' = [pc EXCEPT ![t] = "parse"]
  /\ frame' = [frame EXCEPT ![t] =
       [guid |-> g, path |-> path, cursor |-> ParseBegin, byID |-> FALSE,
        restart |-> FALSE, expression |-> NoExpression, room |-> 0,
        writtenEntry |-> FALSE]]
  /\ session' = [session EXCEPT ![g] = "calling"]
  /\ scan' = [scan EXCEPT ![g] =
       [path |-> path, expression |-> NoExpression, started |-> FALSE,
        got |-> {}, ended |-> FALSE, restarts |-> 0]]
  /\ UNCHANGED m_directoryEnumerations

(* One iteration of the loop of parseByIDName, or its end.                 *)
ParseComponent(t) ==
  LET path == frame[t].path
      cursor == frame[t].cursor
  IN  /\ pc[t] = "parse"
      /\ \/ /\ ParseDone(path, cursor)
            /\ frame' = [frame EXCEPT ![t].byID = Len(path) > 0]
            /\ pc' = [pc EXCEPT ![t] = "register"]
         \/ /\ ~ParseDone(path, cursor) /\ ParseRejects(path, cursor)
            /\ frame' = [frame EXCEPT ![t].byID = FALSE]
            /\ pc' = [pc EXCEPT ![t] = "register"]
         \/ /\ ~ParseDone(path, cursor) /\ ~ParseRejects(path, cursor)
            /\ frame' = [frame EXCEPT ![t].cursor = ParseNext(path, cursor)]
            /\ UNCHANGED pc
      /\ UNCHANGED <<m_directoryEnumerations, session, scan>>

IsDirectory(f) ==
  IF f.byID THEN f.cursor.firstID # f.cursor.lastID
            ELSE f.path \in DOMAIN Inodes /\ Inodes[f.path].info.isDirectory

NewEnumeration(f) ==
  [path |-> f.path, byID |-> f.byID, scanInProgress |-> FALSE, filter |-> FALSE,
   pattern |-> NoExpression, firstID |-> f.cursor.firstID,
   lastID |-> f.cursor.lastID, posID |-> 0, iterator |-> {}]

RegisterFails(t) ==
  /\ pc[t] = "register" /\ ~IsDirectory(frame[t])
  /\ Return(t, frame[t].guid, "closed")
  /\ scan' = [scan EXCEPT ![frame[t].guid] = NoScan]
  /\ UNCHANGED m_directoryEnumerations

(* emplace: an enumeration that is already filed under the GUID stays.     *)
Register(t) ==
  LET g == frame[t].guid
  IN  /\ pc[t] = "register" /\ IsDirectory(frame[t])
      /\ m_directoryEnumerations' =
           [e \in DOMAIN m_directoryEnumerations \cup {g} |->
              IF e \in DOMAIN m_directoryEnumerations
              THEN m_directoryEnumerations[e] ELSE NewEnumeration(frame[t])]
      /\ Return(t, g, "open")
      /\ UNCHANGED scan

-----------------------------------------------------------------------------
(* endDirectoryEnumeration.  Its two outcomes, S_OK and ERROR_GEN_FAILURE,  *)
(* differ by whether the erase found the GUID.                              *)

(* Mutant of CloseDirectory: clear() in place of erase().                    *)
CloseEveryDirectory(t, g) ==
  /\ pc[t] = "idle" /\ session[g] = "open"
  /\ m_directoryEnumerations' = <<>>
  /\ session' = [session EXCEPT ![g] = "closed"]
  /\ scan' = [scan EXCEPT ![g] = NoScan]
  /\ UNCHANGED <<pc, frame>>

CloseDirectory(t, g) ==
  /\ pc[t] = "idle" /\ session[g] = "open"
  /\ m_directoryEnumerations' =
       [e \in DOMAIN m_directoryEnumerations \ {g} |-> m_directoryEnumerations[e]]
  /\ session' = [session EXCEPT ![g] = "closed"]
  /\ scan' = [scan EXCEPT ![g] = NoScan]
  /\ UNCHANGED <<pc, frame>>

-----------------------------------------------------------------------------
(* getDirectoryEnumeration                                                 *)

(* The caller asks for entries.  The first call and a restart begin a scan   *)
(* for the call's expression; in between the expression is ignored.         *)
FetchEntries(t, g, restart, expression, room) ==
  LET begins == restart \/ ~scan[g].started
  IN  /\ pc[t] = "idle" /\ session[g] = "open"
      /\ restart => scan[g].restarts < MaxRestarts
      /\ pc' = [pc EXCEPT ![t] = "lookup"]
      /\ frame' = [frame EXCEPT ![t] =
           [guid |-> g, path |-> scan[g].path, cursor |-> ParseBegin,
            byID |-> FALSE, restart |-> restart, expression |-> expression,
            room |-> room, writtenEntry |-> FALSE]]
      /\ session' = [session EXCEPT ![g] = "calling"]
      /\ scan' = [scan EXCEPT
           ![g].started = TRUE,
           ![g].expression = IF begins THEN expression ELSE @,
           ![g].got = IF begins THEN {} ELSE @,
           ![g].ended = IF begins THEN FALSE ELSE @,
           ![g].restarts = IF restart THEN @ + 1 ELSE @]
      /\ UNCHANGED m_directoryEnumerations

(* Under the mutex: the pointer to the enumeration, or ERROR_GEN_FAILURE.  *)
Lookup(t) ==
  LET g == frame[t].guid
  IN  /\ pc[t] = "lookup"
      /\ \/ /\ g \in DOMAIN m_directoryEnumerations
            /\ pc' = [pc EXCEPT ![t] = "prepare"]
            /\ UNCHANGED <<frame, session>>
         \/ /\ g \notin DOMAIN m_directoryEnumerations
            /\ Return(t, g, "open")
      /\ UNCHANGED <<m_directoryEnumerations, scan>>

(* The enumeration at the begin of a scan.                                 *)
Begun(enumeration, expression) ==
  LET filtered == expression # NoExpression
  IN  [enumeration EXCEPT
         !.scanInProgress = TRUE,
         !.filter = filtered,
         !.pattern = IF filtered THEN expression ELSE @,
         !.posID = IF enumeration.byID THEN enumeration.firstID ELSE @,
         !.iterator = IF enumeration.byID THEN @ ELSE Children(enumeration.path)]

(* Mutant of Begins: the scan begins again on every call.                   *)
AlwaysBegins(enumeration, restart) == TRUE

(* Mutant of Begins: PRJ_CB_DATA_FLAG_ENUM_RESTART_SCAN is ignored.          *)
BeginsOnce(enumeration, restart) == ~enumeration.scanInProgress

(* A scan begins on the first call and on PRJ_CB_DATA_FLAG_ENUM_RESTART_SCAN. *)
Begins(enumeration, restart) == ~enumeration.scanInProgress \/ restart

Prepare(t) ==
  LET g == frame[t].guid
      enumeration == m_directoryEnumerations[g]
  IN  /\ pc[t] = "prepare"
      /\ m_directoryEnumerations' =
           IF Begins(enumeration, frame[t].restart)
           THEN [m_directoryEnumerations EXCEPT
                   ![g] = Begun(enumeration, frame[t].expression)]
           ELSE m_directoryEnumerations
      /\ pc' = [pc EXCEPT ![t] = "fill"]
      /\ UNCHANGED <<frame, session, scan>>

(* The next entry and the position after it, for both kinds of directory;   *)
(* iterator is the set of children that begin()..end() has still to visit.  *)
AtEnd(enumeration) ==
  IF enumeration.byID
  THEN LowerBound(enumeration.posID) = UpperBound(enumeration.lastID)
  ELSE enumeration.iterator = {}

Split(enumeration) ==
  ByIdSplit(LowerBound(enumeration.posID), enumeration.firstID, enumeration.lastID)

NextEntry(enumeration) ==
  IF enumeration.byID
  THEN [name |-> Split(enumeration).byte,
        info |-> IF enumeration.lastID - enumeration.firstID = Base - 1
                 THEN FileInfo(m_files[LowerBound(enumeration.posID)])
                 ELSE DirectoryInfo]
  ELSE LET name == Min(enumeration.iterator)
       IN  [name |-> name, info |-> Inodes[Append(enumeration.path, name)].info]

(* Mutant of Advance: the position moves on by a key, not by a child.        *)
AdvanceByKey(enumeration) ==
  IF enumeration.byID
  THEN [enumeration EXCEPT !.posID = (LowerBound(@) + 1) % KeySpace]
  ELSE [enumeration EXCEPT !.iterator = @ \ {Min(@)}]

Advance(enumeration) ==
  IF enumeration.byID
  THEN [enumeration EXCEPT !.posID = Split(enumeration).next]
  ELSE [enumeration EXCEPT !.iterator = @ \ {Min(@)}]

(* The condition of the do-while loop, tested after an advance; the loop     *)
(* over an inode's children tests for the end only.                          *)
Continues(enumeration) ==
  enumeration.byID => /\ enumeration.posID > enumeration.firstID
                      /\ enumeration.posID <= enumeration.lastID

(* S_OK; the caller takes a call without entries for the end of the scan.   *)
FetchReturns(t) ==
  LET g == frame[t].guid
  IN  /\ Return(t, g, "open")
      /\ scan' = [scan EXCEPT ![g].ended = ~frame[t].writtenEntry]

FillAtEnd(t) ==
  /\ pc[t] = "fill"
  /\ AtEnd(m_directoryEnumerations[frame[t].guid])
  /\ FetchReturns(t)
  /\ UNCHANGED m_directoryEnumerations

Selected(enumeration) ==
  enumeration.filter => Matches(enumeration.pattern, NextEntry(enumeration).name)

(* One iteration that passes an entry: written to the buffer when it is      *)
(* selected, skipped otherwise.                                              *)
FillEntry(t) ==
  LET g == frame[t].guid
      enumeration == m_directoryEnumerations[g]
      selected == Selected(enumeration)
      written == selected \/ frame[t].writtenEntry
  IN  /\ pc[t] = "fill" /\ ~AtEnd(enumeration)
      /\ selected => frame[t].room > 0
      /\ m_directoryEnumerations' =
           [m_directoryEnumerations EXCEPT ![g] = Advance(enumeration)]
      /\ \/ /\ Continues(Advance(enumeration))
            /\ frame' = [frame EXCEPT ![t].writtenEntry = written,
                                      ![t].room = IF selected THEN @ - 1 ELSE @]
            /\ UNCHANGED <<pc, session>>
         \/ /\ ~Continues(Advance(enumeration))
            /\ Return(t, g, "open")
      /\ scan' = [scan EXCEPT
           ![g].got = IF selected THEN @ \cup {NextEntry(enumeration)} ELSE @,
           ![g].ended = ~Continues(Advance(enumeration)) /\ ~written]

(* Mutant of FillBufferFull: the entry that did not fit is passed over.      *)
FillBufferFullSkips(t) ==
  LET g == frame[t].guid
      enumeration == m_directoryEnumerations[g]
  IN  /\ pc[t] = "fill" /\ ~AtEnd(enumeration)
      /\ Selected(enumeration) /\ frame[t].room = 0
      /\ m_directoryEnumerations' =
           [m_directoryEnumerations EXCEPT ![g] = Advance(enumeration)]
      /\ Return(t, g, "open")
      /\ UNCHANGED scan

(* PrjFillDirEntryBuffer fails: the entry stays for the next call, which is  *)
(* reported as an error only when this call has written nothing.             *)
FillBufferFull(t) ==
  LET g == frame[t].guid
      enumeration == m_directoryEnumerations[g]
  IN  /\ pc[t] = "fill" /\ ~AtEnd(enumeration)
      /\ Selected(enumeration) /\ frame[t].room = 0
      /\ Return(t, g, "open")
      /\ UNCHANGED <<m_directoryEnumerations, scan>>

-----------------------------------------------------------------------------
ThreadStep(t) ==
  \/ ParseComponent(t) \/ RegisterFails(t) \/ Register(t)
  \/ Lookup(t) \/ Prepare(t)
  \/ FillAtEnd(t) \/ FillEntry(t) \/ FillBufferFull(t)

CallerStep(t, g) ==
  \/ \E path \in Paths : OpenDirectory(t, g, path)
  \/ CloseDirectory(t, g)
  \/ \E restart \in BOOLEAN, expression \in Expression, room \in 0 .. MaxRoom :
        FetchEntries(t, g, restart, expression, room)

Next == \E t \in Threads : ThreadStep(t) \/ \E g \in Guids : CallerStep(t, g)

Spec == Init /\ [][Next]_vars

(* Callbacks run to completion, and the caller keeps asking: infinitely      *)
(* many chances to call with room for an entry are not all passed over.      *)
FetchMore(g) ==
  \E t \in Threads, expression \in Expression, room \in 1 .. MaxRoom :
     FetchEntries(t, g, FALSE, expression, room)

Fairness ==
  /\ \A t \in Threads : WF_vars(ThreadStep(t))
  /\ \A g \in Guids : SF_vars(FetchMore(g))

FairSpec == Spec /\ Fairness
-----------------------------------------------------------------------------
(* Properties                                                              *)

(* The raw pointer getDirectoryEnumeration keeps after unlocking always      *)
(* points to a live enumeration of the directory the caller opened, a GUID    *)
(* that is open is never answered with ERROR_GEN_FAILURE, and an enumeration  *)
(* outlives neither its end callback nor a start that failed.                *)
NoDanglingPointer ==
  /\ \A t \in Threads : pc[t] \in {"lookup", "prepare", "fill"} =>
        /\ frame[t].guid \in DOMAIN m_directoryEnumerations
        /\ m_directoryEnumerations[frame[t].guid].path = scan[frame[t].guid].path
  /\ \A g \in Guids : CASE session[g] = "open" -> g \in DOMAIN m_directoryEnumerations
                        [] session[g] = "closed" -> g \notin DOMAIN m_directoryEnumerations
                        [] OTHER -> TRUE

Wanted(path, expression) ==
  {entry \in Contents(path) : Matches(expression, entry.name)}

(* The directories of \by-id whose listing goes wrong: the last child of the   *)
(* key space has a file, the key after it is 0, and a call that finds it there *)
(* goes on from key 0.                                                      *)
WrapsAround(path) ==
  /\ IsByIDDirectory(path)
  /\ \E name \in Bytes : /\ KeySpace - 1 \in KeysUnder(Append(path, name))
                          /\ FilesUnder(Append(path, name)) # {}

(* What a caller has been given in a scan exists, with the kind and size     *)
(* given, and matches the expression the scan began with; when the scan has   *)
(* ended the caller was given all of it.  The reference is digit by digit     *)
(* for \by-id, where the callback works on ranges of 64-bit keys.            *)
ListingExact ==
  \A g \in Guids : session[g] # "closed" /\ ~WrapsAround(scan[g].path) =>
     LET wanted == Wanted(scan[g].path, scan[g].expression)
     IN  scan[g].got \subseteq wanted /\ (scan[g].ended => scan[g].got = wanted)

(* Listing a directory in any number of calls, with any buffers, restarts    *)
(* and concurrent listings, implements the abstract listing: in order, no      *)
(* entry twice, the end announced exactly when nothing is owed.              *)
NotListing == <<>>

Listings ==
  [g \in Guids |->
    IF session[g] = "closed" \/ ~scan[g].started \/ WrapsAround(scan[g].path)
    THEN NotListing
    ELSE [want |-> Wanted(scan[g].path, scan[g].expression),
          got |-> scan[g].got, ended |-> scan[g].ended]]

Listing == INSTANCE DirectoryListing WITH
  Wants <- {Wanted(path, expression) : path \in Paths, expression \in Expression},
  listing <- Listings

ImplementsListing == Listing!Spec

(* An entry is written to the buffer only after every entry of a smaller      *)
(* name, as ProjFS requires, hence never twice in one scan.                  *)
DeliveredInOrder ==
  [][\A t \in Threads :
       LET enumeration == m_directoryEnumerations[frame[t].guid]
       IN  FillEntry(t) /\ Selected(enumeration) /\ ~WrapsAround(enumeration.path) =>
             \A entry \in scan[frame[t].guid].got :
                entry.name < NextEntry(enumeration).name]_vars

(* A caller that keeps fetching with room for an entry reaches the end of    *)
(* the listing, unless it closes the directory.                              *)
ScanEnds ==
  \A g \in Guids :
     session[g] # "closed" ~>
       (session[g] = "closed" \/ scan[g].ended \/ WrapsAround(scan[g].path))
=============================================================================
