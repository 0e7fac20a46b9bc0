---------------------------- MODULE WebAnalytics ----------------------------
(***************************************************************************)
(* Page views and visitors of one site.  Receive goroutines record access  *)
(* lines into a pending aggregate under a mutex; Flush takes the aggregate *)
(* out, writes it in one transaction and, once a day, forgets the salts    *)
(* and visitor hashes of finished days.  Flushes fail, midnight passes     *)
(* between any two steps, and the leader restarts.                         *)
(*                                                                         *)
(* A hash is what goes into it: salt and client.  Hourly and breakdown     *)
(* rows are added up in the same transaction as the daily ones and left    *)
(* out, and so are lines that are no page views.  MaxDay is far below the  *)
(* retention.                                                              *)
(***************************************************************************)
EXTENDS Naturals, FiniteSets, Functions

CONSTANTS Clients,     \* pairs of ClientHost and User-Agent
          Writers,     \* receive goroutines that call record
          MaxDay,      \* bound on the days
          MaxViews,    \* bound on the page views
          MaxFailures, \* bound on the transactions that fail
          MaxRestarts  \* bound on the restarts of the leader

ASSUME BoundsAssumption ==
  /\ MaxDay \in Nat \ {0}
  /\ MaxViews \in Nat /\ MaxFailures \in Nat /\ MaxRestarts \in Nat

Days  == 1..MaxDay
Salts == Nat \ {0}               \* random salts, numbered in the order they are made
NoSalt == [day |-> 0, id |-> 0, dirty |-> FALSE]
Hashes == [day : Days, salt : Salts, client : Clients]

VARIABLES
  today,      \* the UTC day
  call,       \* record: the line a writer is about to count, with its clock
  salt,       \* saltDay, salt, saltDirty
  minted,     \* how many salts were made
  views,      \* pend.daily: page views by day
  hashes,     \* pend.hashes
  flush,      \* the Flush under way and the aggregate it took
  maintained, \* maintainedDay, 0 after a start
  webDaily,   \* web_daily: page views and visitors by day
  webHashes,  \* web_visitor_hashes
  webSalts,   \* web_visitor_salts: the salt of a day, 0 without a row
  recorded,   \* page views counted so far, by day
  dropped,    \* those of them that a failed write or a restart lost
  lost,       \* days whose new salt went into a write that failed
  late,       \* days before and after a midnight that overtook a record
  failures, restarts

memory == <<salt, views, hashes, maintained>>
tables == <<webDaily, webHashes, webSalts>>
ghosts == <<recorded, dropped, lost, late>>
bounds == <<failures, restarts>>
vars == <<today, call, memory, minted, flush, tables, ghosts, bounds>>

NoViews == [d \in Days |-> 0]
NoCall == [now |-> 0]
Calls == [now : Days, day : Days, client : Clients]
NoFlush == [at |-> "idle", day |-> 0, views |-> NoViews, hashes |-> {}, salt |-> NoSalt]
SaltsInUse == {NoSalt} \cup [day : Days, id : Salts, dirty : BOOLEAN]
Counts == [Days -> Nat]

TypeOK ==
  /\ today \in Days
  /\ call \in [Writers -> {NoCall} \cup Calls]
  /\ salt \in SaltsInUse /\ minted \in Nat
  /\ views \in Counts /\ hashes \subseteq Hashes
  /\ flush.at \in {"idle", "write", "rollover"} /\ flush.day \in 0..MaxDay
  /\ flush.views \in Counts /\ flush.hashes \subseteq Hashes
  /\ flush.salt \in SaltsInUse
  /\ maintained \in 0..MaxDay
  /\ webDaily \in [Days -> [views : Nat, visitors : Nat]]
  /\ webHashes \subseteq Hashes
  /\ webSalts \in [Days -> {0} \cup Salts]
  /\ recorded \in Counts /\ dropped \in Counts
  /\ lost \subseteq Days /\ late \subseteq Days
  /\ failures \in 0..MaxFailures /\ restarts \in 0..MaxRestarts

Init ==
  /\ today = 1 /\ call = [w \in Writers |-> NoCall]
  /\ salt = NoSalt /\ minted = 0 /\ views = NoViews /\ hashes = {}
  /\ flush = NoFlush /\ maintained = 0
  /\ webDaily = [d \in Days |-> [views |-> 0, visitors |-> 0]]
  /\ webHashes = {} /\ webSalts = NoViews
  /\ recorded = NoViews /\ dropped = NoViews /\ lost = {} /\ late = {}
  /\ failures = 0 /\ restarts = 0

Plus(f, g) == [d \in Days |-> f[d] + g[d]]

-----------------------------------------------------------------------------
(* Ingest, on the receive goroutines.                                      *)

\* record reads the clock before it takes the mutex.  A line may be of an
\* earlier day, or of the next one when the proxy's clock is up to five minutes
\* ahead; one further ahead counts as of now.
ReadClock(w) ==
  /\ call[w] = NoCall
  /\ SumFunction(recorded) + Cardinality({v \in Writers : call[v] # NoCall}) < MaxViews
  /\ \E d \in {e \in Days : e <= today + 1}, c \in Clients :
       call' = [call EXCEPT ![w] = [now |-> today, day |-> d, client |-> c]]
  /\ UNCHANGED <<today, memory, minted, flush, tables, ghosts, bounds>>

\* ensureSaltLocked: the salt for the day of the caller's clock.
ensureSalt(now) ==
  IF salt.day = now THEN salt ELSE [day |-> now, id |-> minted + 1, dirty |-> TRUE]

\* Visitors only for the day of the salt, which is the day of the clock.
Visitor(c, s) ==
  IF c.day = s.day THEN {[day |-> c.day, salt |-> s.id, client |-> c.client]} ELSE {}

record(w) ==
  /\ call[w] # NoCall
  /\ LET c == call[w]
         s == ensureSalt(c.now)
     IN /\ salt' = s
        /\ minted' = IF s = salt THEN minted ELSE s.id
        /\ views' = [views EXCEPT ![c.day] = @ + 1]
        /\ hashes' = hashes \cup Visitor(c, s)
        /\ recorded' = [recorded EXCEPT ![c.day] = @ + 1]
        /\ late' = IF c.now < today THEN late \cup (c.now..today) ELSE late
  /\ call' = [call EXCEPT ![w] = NoCall]
  /\ UNCHANGED <<today, flush, maintained, tables, dropped, lost, bounds>>

-----------------------------------------------------------------------------
(* Flush, serialised by flushMu.                                           *)

\* Mutant: the aggregate is copied and not replaced.
TakeCopy ==
  /\ flush.at = "idle"
  /\ flush' = [at |-> "write", day |-> today, views |-> views, hashes |-> hashes,
               salt |-> salt]
  /\ salt' = [day |-> salt.day, id |-> salt.id, dirty |-> FALSE]
  /\ UNCHANGED <<today, call, views, hashes, maintained, minted, tables, ghosts, bounds>>

\* Flush reads the clock and takes the aggregate under the mutex.
Take ==
  /\ flush.at = "idle"
  /\ flush' = [at |-> "write", day |-> today, views |-> views, hashes |-> hashes,
               salt |-> salt]
  /\ views' = NoViews /\ hashes' = {}
  /\ salt' = [day |-> salt.day, id |-> salt.id, dirty |-> FALSE]
  /\ UNCHANGED <<today, call, maintained, minted, tables, ghosts, bounds>>

\* Rollover follows on the first flush of a day.
AfterWrite ==
  IF maintained = flush.day THEN NoFlush
  ELSE [at |-> "rollover", day |-> flush.day, views |-> NoViews, hashes |-> {},
        salt |-> NoSalt]

\* INSERT OR IGNORE of a new salt.
SaltRows ==
  IF flush.salt.dirty /\ webSalts[flush.salt.day] = 0
  THEN [webSalts EXCEPT ![flush.salt.day] = flush.salt.id] ELSE webSalts

\* The visitors of the days that have new hashes are counted again.
Visitors(d, hs) ==
  IF \E h \in flush.hashes : h.day = d
  THEN Cardinality({h \in hs : h.day = d}) ELSE webDaily[d].visitors

writePending ==
  /\ flush.at = "write"
  /\ webSalts' = SaltRows
  /\ webHashes' = webHashes \cup flush.hashes
  /\ webDaily' = [d \in Days |-> [views |-> webDaily[d].views + flush.views[d],
                                  visitors |-> Visitors(d, webHashes \cup flush.hashes)]]
  /\ flush' = AfterWrite
  /\ UNCHANGED <<today, call, memory, minted, ghosts, bounds>>

\* The transaction is rolled back: the interval is dropped, and the salt is not
\* dirty any more.
writeFails ==
  /\ flush.at = "write"
  /\ failures < MaxFailures /\ failures' = failures + 1
  /\ dropped' = Plus(dropped, flush.views)
  /\ lost' = IF flush.salt.dirty THEN lost \cup {flush.salt.day} ELSE lost
  /\ flush' = NoFlush
  /\ UNCHANGED <<today, call, memory, minted, tables, recorded, late, restarts>>

\* The days whose salts and hashes rollover leaves.
Keeps(d) == d >= flush.day

rollover ==
  /\ flush.at = "rollover"
  /\ webHashes' = {h \in webHashes : Keeps(h.day)}
  /\ webSalts' = [d \in Days |-> IF Keeps(d) THEN webSalts[d] ELSE 0]
  /\ maintained' = flush.day
  /\ flush' = NoFlush
  /\ UNCHANGED <<today, call, salt, views, hashes, minted, webDaily, ghosts, bounds>>

\* Mutant: a day whose rollover failed counts as maintained.
rolloverForgotten ==
  /\ flush.at = "rollover"
  /\ failures < MaxFailures /\ failures' = failures + 1
  /\ maintained' = flush.day
  /\ flush' = NoFlush
  /\ UNCHANGED <<today, call, salt, views, hashes, minted, tables, ghosts, restarts>>

\* The next flush tries again.
rolloverFails ==
  /\ flush.at = "rollover"
  /\ failures < MaxFailures /\ failures' = failures + 1
  /\ flush' = NoFlush
  /\ UNCHANGED <<today, call, memory, minted, tables, ghosts, restarts>>

-----------------------------------------------------------------------------
(* The process and the clock.                                              *)

\* Mutant: a new process makes a new salt.
LoadNothing == NoSalt

\* Load picks up the salt of the running day.
Load ==
  IF webSalts[today] = 0 THEN NoSalt
  ELSE [day |-> today, id |-> webSalts[today], dirty |-> FALSE]

\* The leader goes down and comes back: what was not written is lost.
Restart ==
  /\ restarts < MaxRestarts /\ restarts' = restarts + 1
  /\ salt' = Load
  /\ views' = NoViews /\ hashes' = {} /\ maintained' = 0
  /\ flush' = NoFlush
  /\ call' = [w \in Writers |-> NoCall]
  /\ dropped' = Plus(dropped, Plus(views, flush.views))
  /\ UNCHANGED <<today, minted, tables, recorded, lost, late, failures>>

\* Midnight.
NextDay ==
  /\ today < MaxDay /\ today' = today + 1
  /\ UNCHANGED <<call, memory, minted, flush, tables, ghosts, bounds>>

-----------------------------------------------------------------------------

Ingest == \E w \in Writers : ReadClock(w) \/ record(w)

Flush == Take \/ writePending \/ writeFails \/ rollover \/ rolloverFails

Next == Ingest \/ Flush \/ Restart \/ NextDay

Spec == Init /\ [][Next]_vars

\* The flush ticker fires, and a flush that began goes on.
Fairness == WF_vars(Take) /\ WF_vars(writePending \/ writeFails)
            /\ WF_vars(rollover \/ rolloverFails)

FairSpec == Spec /\ Fairness

-----------------------------------------------------------------------------
(* Properties.                                                             *)

\* Every page view that record counted is pending, being written, written once, or
\* lost with a failed write or a restart: concurrent ingest, flush and midnight
\* neither duplicate nor lose one (the exchange of pend in Flush).
Accounted ==
  \A d \in Days :
    recorded[d] = views[d] + flush.views[d] + webDaily[d].views + dropped[d]

\* A client is hashed once a day, also across restarts, unless a salt was lost with
\* a failed write or a line was counted after the midnight it was read before
\* (Load, ensureSaltLocked).
VisitorOnce ==
  \A h, k \in webHashes :
    h.day = k.day /\ h.client = k.client /\ h.day \notin lost \cup late => h = k

\* The salts and hashes of a finished day are forgotten for good, after failed
\* flushes and restarts as well, except for lines counted after their midnight
\* (rollover and maintainedDay).
Forgotten ==
  \A d \in Days :
    (today > d) ~> []( \/ d \in late
                       \/ webSalts[d] = 0 /\ \A h \in webHashes : h.day # d )
=============================================================================
