--------------------------- MODULE WorkBoardCache ---------------------------
(***************************************************************************)
(* The cached read of a room's board (project_room_with_cache of           *)
(* airc-lib/src/work.rs and work_board_cache.rs) against the daemon's log. *)
(* A projection is the sequence of the events folded into it, so two       *)
(* projections are equal exactly when they folded the same events in the   *)
(* same order.  A cursor is the sequence number of an event; numbers only  *)
(* grow, across restarts too, because the epoch leads.                     *)
(***************************************************************************)
EXTENDS Naturals, Sequences, SequencesExt, FiniteSets

CONSTANTS
  Readers,      \* board reads running at once, of one scope home
  PageSize,     \* events per page of the inbox
  MaxStamp,     \* bound on the events published
  MaxStamping,  \* publishes between their stamp and their insertion
  MaxCrashes    \* bound on the crashes of the daemon

ASSUME WorkBoardCacheAssumption ==
  /\ {MaxStamp, MaxStamping, MaxCrashes} \subseteq Nat
  /\ PageSize \in Nat \ {0}

VARIABLES
  log,       \* the events a reader can see: in the ring or in the sink
  stored,    \* those of them in the durable sink
  stamped,   \* publishes that have a sequence number and are not in the log
  lastStamp, \* the last number given out
  crashes,   \* crashes of the daemon so far
  file,      \* the snapshot on disk
  read       \* reader -> its running read

cacheVars == <<log, stored, stamped, lastStamp, crashes, file, read>>

NoFile == [cursor |-> 0, fold |-> <<>>]

Ended == [pc |-> "idle", resumed |-> FALSE, base |-> NoFile, got |-> <<>>, seen |-> {},
          view |-> {}, answer |-> <<>>]

CacheInit ==
  /\ log = {} /\ stored = {} /\ stamped = {} /\ lastStamp = 0 /\ crashes = 0
  /\ file = NoFile
  /\ read = [r \in Readers |-> Ended]

InOrder(S) == SetToSortSeq(S, <)

SetLast(s, default) == IF s = <<>> THEN default ELSE s[Len(s)]

(***************************************************************************)
(* The log, as the router keeps it.                                        *)
(***************************************************************************)
StampEvent ==
  /\ lastStamp < MaxStamp
  /\ Cardinality(stamped) < MaxStamping
  /\ lastStamp' = lastStamp + 1
  /\ stamped' = stamped \cup {lastStamp + 1}
  /\ UNCHANGED <<log, stored, crashes, file, read>>

InsertEvent ==
  \E n \in stamped :
    /\ log' = log \cup {n}
    /\ stamped' = stamped \ {n}
    /\ UNCHANGED <<stored, lastStamp, crashes, file, read>>

PersistEvent ==
  /\ log # stored
  /\ stored' = stored \cup {CHOOSE n \in log \ stored : \A k \in log \ stored : n <= k}
  /\ UNCHANGED <<log, stamped, lastStamp, crashes, file, read>>

\* The daemon dies: what was not persisted is gone, and the reads that were
\* paging or probing get a transport error.  Files on disk survive.
CrashDaemon ==
  /\ crashes < MaxCrashes
  /\ crashes' = crashes + 1
  /\ log' = stored
  /\ stamped' = {}
  /\ read' = [r \in Readers |-> IF read[r].pc \in {"page", "tip"} THEN Ended ELSE read[r]]
  /\ UNCHANGED <<stored, lastStamp, file>>

(***************************************************************************)
(* A read.                                                                 *)
(***************************************************************************)
\* project_room_with_cache: load the snapshot, or start from event zero.  A
\* file that cannot be read or parsed, or of another version, channel or
\* source, loads as none.
LoadCache(r) ==
  /\ read[r].pc \in {"idle", "served"}
  /\ \E base \in {file, NoFile} :
       read' = [read EXCEPT ![r] = [Ended EXCEPT !.pc = "page", !.base = base, !.seen = log,
                                                 !.resumed = base # NoFile]]
  /\ UNCHANGED <<log, stored, stamped, lastStamp, crashes, file>>

PageAfter(c) == LET rest == InOrder({n \in log : n > c})
                IN  SubSeq(rest, 1, IF Len(rest) < PageSize THEN Len(rest) ELSE PageSize)

\* room_transcripts_since: a short page ends the walk.  view is the log as the
\* last answer of the daemon found it.
FetchPage(r) ==
  /\ read[r].pc = "page"
  /\ LET page == PageAfter(SetLast(read[r].got, read[r].base.cursor))
         got == read[r].got \o page
     IN  read' = [read EXCEPT
           ![r].got = got,
           ![r].view = log,
           ![r].pc = IF Len(page) = PageSize THEN "page"
                     ELSE IF read[r].resumed /\ got = <<>> THEN "tip"
                     ELSE "fold"]
  /\ UNCHANGED <<log, stored, stamped, lastStamp, crashes, file>>

Tip == SetLast(InOrder(log), 0)

Serving(r, fold) == [read[r] EXCEPT !.pc = "served", !.answer = fold]

\* Slip: nothing new after the cursor means that the snapshot is current.
CheckTipNever(r) ==
  /\ read[r].pc = "tip"
  /\ read' = [read EXCEPT ![r] = [Serving(r, read[r].base.fold) EXCEPT !.view = log]]
  /\ UNCHANGED <<log, stored, stamped, lastStamp, crashes, file>>

\* resume_projection with no new event: the cursor must be the tip of the
\* room, or the snapshot is dropped and the read starts from event zero.
CheckTip(r) ==
  /\ read[r].pc = "tip"
  /\ read' = [read EXCEPT
       ![r] = IF Tip = read[r].base.cursor THEN [Serving(r, read[r].base.fold) EXCEPT !.view = log]
              ELSE [@ EXCEPT !.pc = "page", !.base = NoFile, !.resumed = FALSE]]
  /\ UNCHANGED <<log, stored, stamped, lastStamp, crashes, file>>

\* Fold what was fetched, save the snapshot under the cursor of its newest
\* event (atomically, or not at all), and return it.  An empty room is not
\* saved.
FoldAndSave(r) ==
  /\ read[r].pc = "fold"
  /\ LET fold == read[r].base.fold \o read[r].got
     IN  /\ read' = [read EXCEPT ![r] = Serving(r, fold)]
         /\ \/ file' = file
            \/ /\ fold # <<>>
               /\ file' = [cursor |-> SetLast(fold, 0), fold |-> fold]
  /\ UNCHANGED <<log, stored, stamped, lastStamp, crashes>>

CacheNext ==
  \/ StampEvent
  \/ InsertEvent
  \/ PersistEvent
  \/ CrashDaemon
  \/ \E r \in Readers : LoadCache(r) \/ FetchPage(r) \/ CheckTip(r) \/ FoldAndSave(r)

CacheSpec == CacheInit /\ [][CacheNext]_cacheVars

(***************************************************************************)
(* Properties.                                                             *)
(***************************************************************************)
\* The log up to the newest event of a projection, as the read last saw it.
Replay(r) == InOrder({n \in read[r].view : n <= SetLast(read[r].answer, 0)})

\* What is served is the replay of the log up to its cursor: "resuming from
\* snapshot S at cursor c with events (c, tip] is the same fold as replaying
\* [0, tip]" and "stale state is never served silently" (work_board_cache.rs). It
\* does not hold once the log grew past an event it lost.
ServedIsReplay == \A r \in Readers : read[r].pc = "served" => read[r].answer = Replay(r)

\* The same as long as the log did not grow past an event it lost: until then
\* the tip of the room betrays every snapshot that folded the lost event. And
\* the board folds every event the room showed when the read began: a gate that
\* read it has seen everything published before, but for what a crash took.
ServedIsReplayUnlessRegrown ==
  \A r \in Readers :
    read[r].pc = "served" =>
      /\ \/ read[r].answer = Replay(r)
         \/ \E lost \in Range(read[r].answer) \ read[r].view, n \in read[r].view : n > lost
      /\ read[r].seen \cap log \subseteq Range(read[r].answer)
=============================================================================
