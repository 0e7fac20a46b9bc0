------------------------- MODULE WebAnalyticsProofs -------------------------
(***************************************************************************)
(* Page views are accounted for and a client is hashed once a day, for any *)
(* clients, receive goroutines, days, failures and restarts.               *)
(***************************************************************************)
EXTENDS WebAnalytics, FiniteSetTheorems, TLAPS

-----------------------------------------------------------------------------
(* The inductive invariant behind VisitorOnce.                             *)

\* A hash is pending, being written, or in the table.
AllHashes == webHashes \cup hashes \cup flush.hashes

NoneOf(d, hs) == \A h \in hs : h.day # d

\* Nothing is of a day that has not begun, except lines of a clock that is ahead.
NothingAhead ==
  /\ salt.day <= today /\ flush.salt.day <= today /\ flush.day <= today
  /\ \A h \in AllHashes : h.day <= today
  /\ \A d \in Days : d > today => webSalts[d] = 0
  /\ \A w \in Writers : call[w] # NoCall => call[w].now <= today

\* The hashes of a day are made with one salt, the one in memory if it is of that day.
OneSalt ==
  \A d \in Days \ (lost \cup late) :
    /\ \A h, k \in AllHashes : h.day = d /\ k.day = d => h.salt = k.salt
    /\ \A h \in AllHashes : h.day = d /\ salt.day = d => h.salt = salt.id

\* A new salt of the running day that Flush took is the one in memory.
SaltTaken == flush.salt.dirty /\ flush.salt.day = today

\* The salt of the running day is in the table, or it is on its way there and no
\* hash made with it can arrive earlier.
SaltSaved ==
  today \notin lost \cup late =>
    IF salt.day = today
    THEN /\ SaltTaken => flush.salt.id = salt.id
         /\ \/ webSalts[today] = salt.id
            \/ /\ webSalts[today] = 0
               /\ NoneOf(today, webHashes)
               /\ \/ SaltTaken
                  \/ salt.dirty /\ NoneOf(today, flush.hashes)
    ELSE ~SaltTaken /\ webSalts[today] = 0 /\ NoneOf(today, AllHashes)

\* A flush holds nothing before and after its write.
EmptyHanded ==
  flush.at # "write" => flush.views = NoViews /\ flush.hashes = {} /\ flush.salt = NoSalt

SaltInv == NothingAhead /\ OneSalt /\ SaltSaved

-----------------------------------------------------------------------------
(* Types.                                                                  *)

\* Visitor counts are numbers because the sets of hashes are finite.
Finite == IsFiniteSet(webHashes) /\ IsFiniteSet(hashes) /\ IsFiniteSet(flush.hashes)

Typed == TypeOK /\ Finite

\* The salt record uses after it called ensureSaltLocked is of the caller's day.
LEMMA SaltEnsured ==
  ASSUME TypeOK, NEW now \in Days
  PROVE  /\ ensureSalt(now) \in SaltsInUse \ {NoSalt}
         /\ ensureSalt(now).day = now /\ ensureSalt(now).id \in Salts
<1>1. CASE salt.day = now
  <2>1. salt # NoSalt  BY <1>1 DEF NoSalt, Days
  <2> QED  BY <1>1, <2>1 DEF TypeOK, ensureSalt, SaltsInUse
<1>2. CASE salt.day # now
  <2>1. minted + 1 \in Salts  BY DEF TypeOK, Salts
  <2>2. ensureSalt(now) = [day |-> now, id |-> minted + 1, dirty |-> TRUE]
    BY <1>2 DEF ensureSalt
  <2>3. ensureSalt(now) # NoSalt  BY <2>2 DEF NoSalt, Days
  <2> QED  BY <2>1, <2>2, <2>3 DEF SaltsInUse
<1> QED  BY <1>1, <1>2

\* record adds at most one hash, of the day of its line and with the salt in use.
LEMMA VisitorHashed ==
  ASSUME NEW c \in Calls, NEW s \in SaltsInUse, s.id \in Salts
  PROVE  /\ Visitor(c, s) \subseteq Hashes /\ IsFiniteSet(Visitor(c, s))
         /\ \A h \in Visitor(c, s) : h.day = c.day /\ c.day = s.day /\ h.salt = s.id
<1> DEFINE v == [day |-> c.day, salt |-> s.id, client |-> c.client]
<1>1. v \in Hashes  BY DEF Calls, Hashes
<1>2. IsFiniteSet({v}) /\ IsFiniteSet({})  BY FS_Singleton, FS_EmptySet, Zenon
<1>3. CASE c.day = s.day  BY <1>1, <1>2, <1>3 DEF Visitor
<1>4. CASE c.day # s.day  BY <1>2, <1>4 DEF Visitor
<1> QED  BY <1>3, <1>4

\* The count of a day's hashes is a number.
LEMMA VisitorsType ==
  ASSUME TypeOK, Finite, NEW d \in Days
  PROVE  Visitors(d, webHashes \cup flush.hashes) \in Nat
<1> DEFINE hs == webHashes \cup flush.hashes
<1>1. IsFiniteSet(hs)  BY FS_Union, Zenon DEF Finite
<1>2. IsFiniteSet({h \in hs : h.day = d})  BY <1>1, FS_Subset
<1>3. Cardinality({h \in hs : h.day = d}) \in Nat  BY <1>2, FS_CardinalityType
<1>4. webDaily[d].visitors \in Nat  BY DEF TypeOK
<1> QED  BY <1>3, <1>4 DEF Visitors

\* Every variable has its type at the start.
LEMMA InitTyped == Init => Typed
<1> SUFFICES ASSUME Init PROVE Typed  OBVIOUS
<1>1. NoViews \in Counts  BY DEF NoViews, Counts
<1>2. webSalts \in [Days -> {0} \cup Salts]  BY DEF Init, NoViews
<1>3. call \in [Writers -> {NoCall} \cup Calls]  BY DEF Init
<1>4. webDaily \in [Days -> [views : Nat, visitors : Nat]]  BY DEF Init
<1>5. TypeOK
  BY <1>1, <1>2, <1>3, <1>4, BoundsAssumption DEF Init, TypeOK, NoFlush, Days, SaltsInUse
<1>6. Finite  BY FS_EmptySet DEF Init, Finite, NoFlush
<1> QED  BY <1>5, <1>6 DEF Typed

\* record keeps the types.
LEMMA RecordTyped ==
  ASSUME Typed, NEW w \in Writers, record(w)
  PROVE  Typed'
<1> DEFINE c == call[w]
           s == ensureSalt(c.now)
<1> USE DEF Typed
<1>1. c \in Calls  BY DEF record, TypeOK
<1>2. c.now \in Days /\ c.day \in Days  BY <1>1 DEF Calls
<1>3. s \in SaltsInUse /\ s.id \in Salts  BY <1>2, SaltEnsured
<1>4. Visitor(c, s) \subseteq Hashes /\ IsFiniteSet(Visitor(c, s))
  BY <1>1, <1>3, VisitorHashed
<1>5. salt' \in SaltsInUse  BY <1>3 DEF record
<1>6. minted' \in Nat  BY <1>3 DEF record, TypeOK, Salts
<1>7. views' \in Counts /\ recorded' \in Counts  BY <1>2 DEF record, TypeOK, Counts
<1>8. hashes' \subseteq Hashes  BY <1>4 DEF record, TypeOK
<1>9. call' \in [Writers -> {NoCall} \cup Calls]  BY DEF record, TypeOK
<1>10. late' \subseteq Days
  <2>1. c.now..today \subseteq Days
    <3>1. c.now \in 1..MaxDay /\ today \in 1..MaxDay  BY <1>2 DEF TypeOK, Days
    <3> HIDE DEF c
    <3> QED  BY <3>1, BoundsAssumption DEF Days
  <2> QED  BY <2>1 DEF record, TypeOK
<1>11. TypeOK'
  BY <1>5, <1>6, <1>7, <1>8, <1>9, <1>10 DEF record, TypeOK, tables, bounds
<1>12. IsFiniteSet(hashes')  BY <1>4, FS_Union, Zenon DEF record, Finite
<1>13. Finite'  BY <1>12 DEF record, Finite, tables
<1> QED  BY <1>11, <1>13

\* Every step of Flush keeps the types.
LEMMA FlushTyped ==
  ASSUME Typed, Flush
  PROVE  Typed'
<1> USE DEF Typed
<1>0. NoViews \in Counts  BY DEF NoViews, Counts
<1>1. CASE Take
  <2>0. salt' = [day |-> salt.day, id |-> salt.id, dirty |-> FALSE]  BY <1>1 DEF Take
  <2>1. salt' \in SaltsInUse
    <3>1. CASE salt = NoSalt  BY <2>0, <3>1 DEF SaltsInUse, NoSalt
    <3>2. CASE salt # NoSalt
      <4>1. salt.day \in Days /\ salt.id \in Salts  BY <3>2 DEF TypeOK, SaltsInUse
      <4> QED  BY <2>0, <4>1 DEF SaltsInUse
    <3> QED  BY <3>1, <3>2
  <2>2. today \in 0..MaxDay  BY BoundsAssumption DEF TypeOK, Days
  <2>3. TypeOK'  BY <1>0, <1>1, <2>1, <2>2 DEF Take, TypeOK, tables, ghosts, bounds
  <2>4. Finite'  BY <1>1, FS_EmptySet DEF Take, Finite, tables
  <2> QED  BY <2>3, <2>4
<1>2. CASE writePending
  <2>1. SaltRows \in [Days -> {0} \cup Salts]
    BY DEF SaltRows, TypeOK, SaltsInUse, NoSalt
  <2>2. webDaily' \in [Days -> [views : Nat, visitors : Nat]]
    <3>1. \A d \in Days : webDaily[d].views + flush.views[d] \in Nat
      BY DEF TypeOK, Counts
    <3>2. \A d \in Days : Visitors(d, webHashes \cup flush.hashes) \in Nat
      BY VisitorsType
    <3> QED  BY <1>2, <3>1, <3>2, Zenon DEF writePending
  <2>3. /\ AfterWrite.at \in {"idle", "rollover"} /\ AfterWrite.day \in 0..MaxDay
        /\ AfterWrite.views \in Counts /\ AfterWrite.hashes = {}
        /\ AfterWrite.salt \in SaltsInUse
    BY <1>0, BoundsAssumption DEF AfterWrite, NoFlush, SaltsInUse, TypeOK
  <2>4. TypeOK'
    BY <1>2, <2>1, <2>2, <2>3, Zenon DEF writePending, TypeOK, memory, ghosts, bounds
  <2>5. Finite'  BY <1>2, <2>3, FS_EmptySet, FS_Union, Zenon DEF writePending, Finite, memory
  <2> QED  BY <2>4, <2>5
<1>3. CASE writeFails
  <2>1. Plus(dropped, flush.views) \in Counts  BY DEF TypeOK, Counts, Plus
  <2>2. lost' \subseteq Days  BY <1>3 DEF writeFails, TypeOK, SaltsInUse, NoSalt
  <2>3. failures' \in 0..MaxFailures  BY <1>3, BoundsAssumption DEF writeFails, TypeOK
  <2>4. TypeOK'
    BY <1>0, <1>3, <2>1, <2>2, <2>3, BoundsAssumption
       DEF writeFails, TypeOK, memory, tables, NoFlush, SaltsInUse
  <2>5. Finite'  BY <1>3, FS_EmptySet DEF writeFails, Finite, memory, tables, NoFlush
  <2> QED  BY <2>4, <2>5
<1>4. CASE rollover
  <2>1. webSalts' \in [Days -> {0} \cup Salts]  BY <1>4 DEF rollover, TypeOK
  <2>2. webHashes' \subseteq webHashes  BY <1>4 DEF rollover
  <2>3. TypeOK'
    BY <1>0, <1>4, <2>1, <2>2, BoundsAssumption
       DEF rollover, TypeOK, ghosts, bounds, NoFlush, SaltsInUse
  <2>4. Finite'  BY <1>4, <2>2, FS_EmptySet, FS_Subset DEF rollover, Finite, NoFlush
  <2> QED  BY <2>3, <2>4
<1>5. CASE rolloverFails
  <2>1. failures' \in 0..MaxFailures  BY <1>5, BoundsAssumption DEF rolloverFails, TypeOK
  <2>2. TypeOK'
    BY <1>0, <1>5, <2>1, BoundsAssumption
       DEF rolloverFails, TypeOK, memory, tables, ghosts, NoFlush, SaltsInUse
  <2>3. Finite'  BY <1>5, FS_EmptySet DEF rolloverFails, Finite, memory, tables, NoFlush
  <2> QED  BY <2>2, <2>3
<1> QED  BY <1>1, <1>2, <1>3, <1>4, <1>5 DEF Flush

\* Every step keeps the types.
LEMMA NextTyped ==
  ASSUME Typed, [Next]_vars
  PROVE  Typed'
<1> USE DEF Typed
<1>1. ASSUME NEW w \in Writers, ReadClock(w) PROVE Typed'
  <2>1. PICK d \in Days, c \in Clients :
          call' = [call EXCEPT ![w] = [now |-> today, day |-> d, client |-> c]]
    BY <1>1, Zenon DEF ReadClock
  <2>2. [now |-> today, day |-> d, client |-> c] \in Calls  BY DEF Calls, TypeOK
  <2>3. call' \in [Writers -> {NoCall} \cup Calls]  BY <2>1, <2>2 DEF TypeOK
  <2>4. TypeOK'
    BY <1>1, <2>3 DEF ReadClock, TypeOK, memory, tables, ghosts, bounds
  <2> QED  BY <1>1, <2>4 DEF ReadClock, Finite, memory, tables
<1>2. CASE Restart
  <2>1. Load \in SaltsInUse  BY DEF Load, TypeOK, SaltsInUse
  <2>2. NoViews \in Counts  BY DEF NoViews, Counts
  <2>3. Plus(dropped, Plus(views, flush.views)) \in Counts  BY DEF TypeOK, Counts, Plus
  <2>4. restarts' \in 0..MaxRestarts  BY <1>2, BoundsAssumption DEF Restart, TypeOK
  <2>5. call' \in [Writers -> {NoCall} \cup Calls]  BY <1>2 DEF Restart
  <2>6. TypeOK'
    BY <1>2, <2>1, <2>2, <2>3, <2>4, <2>5, BoundsAssumption
       DEF Restart, TypeOK, tables, NoFlush, SaltsInUse
  <2>7. Finite'  BY <1>2, FS_EmptySet DEF Restart, Finite, tables, NoFlush
  <2> QED  BY <2>6, <2>7
<1>3. CASE NextDay
  <2>1. today' \in Days  BY <1>3, BoundsAssumption DEF NextDay, TypeOK, Days
  <2>2. TypeOK'  BY <1>3, <2>1 DEF NextDay, TypeOK, memory, tables, ghosts, bounds
  <2> QED  BY <1>3, <2>2 DEF NextDay, Finite, memory, tables
<1>4. CASE UNCHANGED vars
  BY <1>4 DEF vars, memory, tables, ghosts, bounds, TypeOK, Finite
<1> QED  BY <1>1, <1>2, <1>3, <1>4, RecordTyped, FlushTyped DEF Next, Ingest

\* Type correctness: salts, counts, hashes and the flush under way (webAnalytics and
\* webPending).
THEOREM TypeInvariant == Spec => []TypeOK
<1>1. Init => Typed  BY InitTyped
<1>2. Typed /\ [Next]_vars => Typed'  BY NextTyped
<1>3. Typed => TypeOK  BY DEF Typed
<1> QED  BY <1>1, <1>2, <1>3, PTL DEF Spec

-----------------------------------------------------------------------------
(* Page views.                                                             *)

\* Every step keeps the aggregate of a flush empty unless one is under way.
LEMMA NextEmptyHanded ==
  ASSUME EmptyHanded, [Next]_vars
  PROVE  EmptyHanded'
<1>1. CASE flush' = flush  BY <1>1 DEF EmptyHanded
<1>2. CASE flush' = NoFlush  BY <1>2 DEF EmptyHanded, NoFlush
<1>3. CASE Take  BY <1>3 DEF Take, EmptyHanded
<1>4. CASE writePending  BY <1>4 DEF writePending, AfterWrite, NoFlush, EmptyHanded
<1>5. ASSUME NEW w \in Writers, ReadClock(w) \/ record(w) PROVE flush' = flush
  BY <1>5 DEF ReadClock, record
<1>6. writeFails \/ rollover \/ rolloverFails \/ Restart => flush' = NoFlush
  BY DEF writeFails, rollover, rolloverFails, Restart
<1>7. NextDay \/ UNCHANGED vars => flush' = flush  BY DEF NextDay, vars
<1> QED  BY <1>1, <1>2, <1>3, <1>4, <1>5, <1>6, <1>7 DEF Next, Ingest, Flush

\* Every step keeps the page views accounted for.
LEMMA NextAccounted ==
  ASSUME Typed, EmptyHanded, Accounted, [Next]_vars
  PROVE  Accounted'
<1> DEFINE Balance(d) ==
      recorded[d] = views[d] + flush.views[d] + webDaily[d].views + dropped[d]
<1> SUFFICES ASSUME NEW d \in Days PROVE Balance(d)'
  BY DEF Accounted
<1>0. /\ Balance(d)
      /\ recorded[d] \in Nat /\ views[d] \in Nat /\ flush.views[d] \in Nat
      /\ webDaily[d].views \in Nat /\ dropped[d] \in Nat
  BY DEF Accounted, Typed, TypeOK, Counts
<1>1. NoViews[d] = 0 /\ NoFlush.views[d] = 0 /\ AfterWrite.views[d] = 0
  BY DEF NoViews, NoFlush, AfterWrite
<1>2. flush.at # "write" => flush.views[d] = 0  BY <1>1 DEF EmptyHanded
<1>3. ASSUME NEW w \in Writers, ReadClock(w) PROVE Balance(d)'
  BY <1>0, <1>3 DEF ReadClock, memory, tables, ghosts
<1>4. ASSUME NEW w \in Writers, record(w) PROVE Balance(d)'
  <2>1. call[w].day \in Days  BY <1>4 DEF record, Typed, TypeOK, Calls
  <2>2. /\ views' = [views EXCEPT ![call[w].day] = @ + 1]
        /\ recorded' = [recorded EXCEPT ![call[w].day] = @ + 1]
        /\ flush' = flush /\ webDaily' = webDaily /\ dropped' = dropped
    BY <1>4 DEF record, tables
  <2>3. views \in [Days -> Nat] /\ recorded \in [Days -> Nat]
    BY DEF Typed, TypeOK, Counts
  <2>4. CASE d = call[w].day
    <3>1. views'[d] = views[d] + 1 /\ recorded'[d] = recorded[d] + 1
      BY <2>1, <2>2, <2>3, <2>4
    <3> QED  BY <1>0, <2>2, <3>1
  <2>5. CASE d # call[w].day
    <3>1. views'[d] = views[d] /\ recorded'[d] = recorded[d]
      BY <2>1, <2>2, <2>3, <2>5
    <3> QED  BY <1>0, <2>2, <3>1
  <2> QED  BY <2>4, <2>5
<1>5. CASE Take
  BY <1>0, <1>1, <1>2, <1>5 DEF Take, tables, ghosts
<1>6. CASE writePending
  <2>1. webDaily'[d].views = webDaily[d].views + flush.views[d]
    BY <1>6 DEF writePending
  <2> QED  BY <1>0, <1>1, <1>6, <2>1 DEF writePending, memory, ghosts
<1>7. CASE writeFails
  <2>1. dropped'[d] = dropped[d] + flush.views[d]  BY <1>7 DEF writeFails, Plus
  <2> QED  BY <1>0, <1>1, <1>7, <2>1 DEF writeFails, memory, tables
<1>8. CASE rollover
  BY <1>0, <1>1, <1>2, <1>8 DEF rollover, ghosts
<1>9. CASE rolloverFails
  BY <1>0, <1>1, <1>2, <1>9 DEF rolloverFails, memory, tables, ghosts
<1>10. CASE Restart
  <2>1. dropped'[d] = dropped[d] + (views[d] + flush.views[d])  BY <1>10 DEF Restart, Plus
  <2> QED  BY <1>0, <1>1, <1>10, <2>1 DEF Restart, tables
<1>11. CASE NextDay \/ UNCHANGED vars
  BY <1>0, <1>11 DEF NextDay, vars, memory, tables, ghosts
<1> QED
  BY <1>3, <1>4, <1>5, <1>6, <1>7, <1>8, <1>9, <1>10, <1>11 DEF Next, Ingest, Flush

\* No page view is duplicated or lost between ingest, flush, failed writes,
\* midnights and restarts, except where the code drops it (the exchange of pend).
THEOREM ViewsAccounted == Spec => []Accounted
<1> DEFINE Inv == Typed /\ EmptyHanded /\ Accounted
<1>1. Init => Inv
  <2> SUFFICES ASSUME Init PROVE Inv  OBVIOUS
  <2>1. EmptyHanded  BY DEF Init, EmptyHanded, NoFlush
  <2>2. Accounted  BY DEF Init, Accounted, NoFlush, NoViews
  <2> QED  BY <2>1, <2>2, InitTyped
<1>2. Inv /\ [Next]_vars => Inv'  BY NextTyped, NextEmptyHanded, NextAccounted
<1>3. Inv => Accounted  OBVIOUS
<1> HIDE DEF Inv
<1> QED  BY <1>1, <1>2, <1>3, PTL DEF Spec

-----------------------------------------------------------------------------
(* Visitors.                                                               *)

\* record keeps the invariant: a clock that midnight has not overtaken is of the
\* running day, and one that it has overtaken spoils the days since.
LEMMA RecordSalt ==
  ASSUME Typed, SaltInv, NEW w \in Writers, record(w)
  PROVE  SaltInv'
<1> DEFINE c == call[w]
           s == ensureSalt(c.now)
<1>1. c \in Calls /\ c.now \in Days /\ c.now <= today
  BY DEF record, Typed, TypeOK, Calls, SaltInv, NothingAhead
<1>2. s \in SaltsInUse /\ s.day = c.now /\ s.id \in Salts
  BY <1>1, SaltEnsured DEF Typed
<1>3. /\ salt' = s /\ hashes' = hashes \cup Visitor(c, s)
      /\ late' = IF c.now < today THEN late \cup (c.now..today) ELSE late
      /\ UNCHANGED <<today, flush, webHashes, webSalts, lost>>
  BY DEF record, tables
<1>4. \A h \in Visitor(c, s) : h.day = c.now /\ h.salt = s.id
  BY <1>1, <1>2, VisitorHashed
<1>5. AllHashes' = AllHashes \cup Visitor(c, s)  BY <1>3 DEF AllHashes
<1>6. today \in Nat /\ c.now \in Nat  BY <1>1 DEF Typed, TypeOK, Days
<1>7. \A v \in Writers : call'[v] # NoCall => call'[v] = call[v]
  BY DEF record, Typed, TypeOK
<1> HIDE DEF c, s
<1>8. NothingAhead'
  BY <1>1, <1>2, <1>3, <1>4, <1>5, <1>6, <1>7 DEF SaltInv, NothingAhead
<1>9. CASE c.now < today
  <2>1. c.now \in late' /\ today \in late' /\ late \subseteq late'
    BY <1>3, <1>6, <1>9
  <2>2. OneSalt'
    BY <1>2, <1>3, <1>4, <1>5, <2>1 DEF SaltInv, OneSalt
  <2>3. SaltSaved'  BY <1>3, <2>1 DEF SaltSaved
  <2> QED  BY <1>8, <2>2, <2>3 DEF SaltInv
<1>10. CASE c.now = today
  <2>1. late' = late  BY <1>3, <1>6, <1>10
  <2>2. CASE salt.day = today
    <3>1. s = salt  BY <1>10, <2>2 DEF s, ensureSalt
    <3>2. OneSalt'
      BY <1>3, <1>4, <1>5, <1>10, <2>1, <2>2, <3>1 DEF SaltInv, OneSalt
    <3>3. SaltSaved'
      BY <1>3, <2>1, <2>2, <3>1 DEF SaltInv, SaltSaved, SaltTaken, NoneOf
    <3> QED  BY <1>8, <3>2, <3>3 DEF SaltInv
  <2>3. CASE salt.day # today
    <3>1. s.dirty = TRUE  BY <1>10, <2>3 DEF s, ensureSalt
    <3>2. today \notin lost \cup late =>
             ~SaltTaken /\ webSalts[today] = 0 /\ NoneOf(today, AllHashes)
      BY <2>3 DEF SaltInv, SaltSaved
    <3>3. OneSalt'
      BY <1>2, <1>3, <1>4, <1>5, <1>10, <2>1, <3>2 DEF SaltInv, OneSalt, NoneOf
    <3>4. SaltSaved'
      BY <1>2, <1>3, <1>10, <2>1, <3>1, <3>2
         DEF SaltSaved, SaltTaken, NoneOf, AllHashes
    <3> QED  BY <1>8, <3>3, <3>4 DEF SaltInv
  <2> QED  BY <2>2, <2>3
<1> QED  BY <1>1, <1>6, <1>9, <1>10

\* Every step of Flush keeps the salt that the hashes of a day were made with.
LEMMA FlushSalt ==
  ASSUME Typed, EmptyHanded, SaltInv, Flush
  PROVE  SaltInv'
<1> USE DEF SaltInv
<1>0. today \in Nat /\ today \in Days /\ NoSalt.day = 0 /\ NoSalt.dirty = FALSE
  BY DEF Typed, TypeOK, Days, NoSalt
<1>1. CASE Take
  <2>1. /\ flush.hashes = {} /\ flush.salt = NoSalt  BY <1>1 DEF Take, EmptyHanded
  <2>2. /\ flush'.hashes = hashes /\ flush'.salt = salt /\ flush'.day = today
        /\ hashes' = {} /\ salt'.day = salt.day /\ salt'.id = salt.id
        /\ UNCHANGED <<today, call, webHashes, webSalts, lost, late>>
    BY <1>1 DEF Take, tables, ghosts
  <2>3. AllHashes' = AllHashes  BY <2>1, <2>2 DEF AllHashes
  <2>4. NothingAhead'
    <3>1. salt'.day <= today' /\ flush'.salt.day <= today' /\ flush'.day <= today'
      BY <1>0, <2>2 DEF NothingAhead
    <3>2. \A h \in AllHashes' : h.day <= today'  BY <2>2, <2>3 DEF NothingAhead
    <3> QED  BY <2>2, <3>1, <3>2 DEF NothingAhead
  <2>5. OneSalt'  BY <2>2, <2>3 DEF OneSalt
  <2>6. SaltSaved'
    BY <1>0, <2>1, <2>2, <2>3 DEF SaltSaved, SaltTaken, NoneOf
  <2> QED  BY <2>4, <2>5, <2>6
<1>2. CASE writePending
  <2>1. /\ flush'.hashes = {} /\ flush'.salt = NoSalt /\ flush'.day \in {0, flush.day}
        /\ webHashes' = webHashes \cup flush.hashes /\ webSalts' = SaltRows
        /\ UNCHANGED <<today, call, salt, hashes, lost, late>>
    BY <1>2 DEF writePending, AfterWrite, NoFlush, memory, ghosts
  <2>2. AllHashes' = AllHashes  BY <2>1 DEF AllHashes
  <2>3. /\ \A d \in Days : d # flush.salt.day => SaltRows[d] = webSalts[d]
        /\ ~SaltTaken => SaltRows[today] = webSalts[today]
        /\ SaltTaken => SaltRows[today] = IF webSalts[today] = 0 THEN flush.salt.id
                                          ELSE webSalts[today]
    BY <1>0 DEF SaltRows, SaltTaken, Typed, TypeOK
  <2>4. flush.salt.day \in Nat  BY DEF Typed, TypeOK, SaltsInUse, NoSalt, Days
  <2>5. NothingAhead'
    <3>1. \A d \in Days : d > today => webSalts'[d] = 0
      BY <1>0, <2>1, <2>3, <2>4 DEF NothingAhead, Days
    <3>2. salt'.day <= today' /\ flush'.salt.day <= today' /\ flush'.day <= today'
      BY <1>0, <2>1 DEF NothingAhead
    <3>3. \A h \in AllHashes' : h.day <= today'  BY <2>1, <2>2 DEF NothingAhead
    <3> QED  BY <2>1, <3>1, <3>2, <3>3 DEF NothingAhead
  <2>6. OneSalt'  BY <2>1, <2>2 DEF OneSalt
  <2>7. ~SaltTaken'  BY <1>0, <2>1 DEF SaltTaken
  <2>8. SaltSaved'
    BY <1>0, <2>1, <2>2, <2>3, <2>7 DEF SaltSaved, NoneOf
  <2> QED  BY <2>5, <2>6, <2>8
<1>3. CASE writeFails
  <2>1. /\ flush'.hashes = {} /\ flush'.salt = NoSalt /\ flush'.day = 0
        /\ lost' = IF flush.salt.dirty THEN lost \cup {flush.salt.day} ELSE lost
        /\ UNCHANGED <<today, call, salt, hashes, webHashes, webSalts, late>>
    BY <1>3 DEF writeFails, NoFlush, memory, tables
  <2>2. AllHashes' \subseteq AllHashes  BY <2>1 DEF AllHashes
  <2>3. NothingAhead'
    <3>1. salt'.day <= today' /\ flush'.salt.day <= today' /\ flush'.day <= today'
      BY <1>0, <2>1 DEF NothingAhead
    <3>2. \A h \in AllHashes' : h.day <= today'  BY <2>1, <2>2 DEF NothingAhead
    <3> QED  BY <2>1, <3>1, <3>2 DEF NothingAhead
  <2>4. OneSalt'  BY <2>1, <2>2 DEF OneSalt
  <2>5. ~SaltTaken'  BY <1>0, <2>1 DEF SaltTaken
  <2>6. SaltTaken => today \in lost'  BY <2>1 DEF SaltTaken
  <2>7. lost \subseteq lost'  BY <2>1
  <2>8. SaltSaved'
    BY <2>1, <2>2, <2>5, <2>6, <2>7 DEF SaltSaved, NoneOf
  <2> QED  BY <2>3, <2>4, <2>8
<1>4. CASE rollover
  <2>1. /\ flush'.hashes = {} /\ flush'.salt = NoSalt /\ flush'.day = 0
        /\ webHashes' \subseteq webHashes
        /\ \A d \in Days : webSalts'[d] \in {0, webSalts[d]}
        /\ UNCHANGED <<today, call, salt, hashes, lost, late>>
    BY <1>4 DEF rollover, NoFlush, ghosts
  <2>2. AllHashes' \subseteq AllHashes  BY <2>1 DEF AllHashes
  <2>3. webSalts'[today] = webSalts[today]
    BY <1>0, <1>4 DEF rollover, Keeps, NothingAhead, Typed, TypeOK
  <2>4. NothingAhead'
    <3>1. salt'.day <= today' /\ flush'.salt.day <= today' /\ flush'.day <= today'
      BY <1>0, <2>1 DEF NothingAhead
    <3>2. \A h \in AllHashes' : h.day <= today'  BY <2>1, <2>2 DEF NothingAhead
    <3> QED  BY <1>0, <2>1, <3>1, <3>2 DEF NothingAhead
  <2>5. OneSalt'  BY <2>1, <2>2 DEF OneSalt
  <2>6. ~SaltTaken /\ ~SaltTaken'
    BY <1>0, <1>4, <2>1 DEF SaltTaken, EmptyHanded, rollover
  <2>7. SaltSaved'  BY <2>1, <2>2, <2>3, <2>6 DEF SaltSaved, NoneOf
  <2> QED  BY <2>4, <2>5, <2>7
<1>5. CASE rolloverFails
  <2>1. /\ flush'.hashes = {} /\ flush'.salt = NoSalt /\ flush'.day = 0
        /\ UNCHANGED <<today, call, salt, hashes, webHashes, webSalts, lost, late>>
    BY <1>5 DEF rolloverFails, NoFlush, memory, tables, ghosts
  <2>2. AllHashes' \subseteq AllHashes  BY <2>1 DEF AllHashes
  <2>3. NothingAhead'
    <3>1. salt'.day <= today' /\ flush'.salt.day <= today' /\ flush'.day <= today'
      BY <1>0, <2>1 DEF NothingAhead
    <3>2. \A h \in AllHashes' : h.day <= today'  BY <2>1, <2>2 DEF NothingAhead
    <3> QED  BY <2>1, <3>1, <3>2 DEF NothingAhead
  <2>4. OneSalt'  BY <2>1, <2>2 DEF OneSalt
  <2>5. ~SaltTaken /\ ~SaltTaken'
    BY <1>0, <1>5, <2>1 DEF SaltTaken, EmptyHanded, rolloverFails
  <2>6. SaltSaved'  BY <2>1, <2>2, <2>5 DEF SaltSaved, NoneOf
  <2> QED  BY <2>3, <2>4, <2>6
<1> QED  BY <1>1, <1>2, <1>3, <1>4, <1>5 DEF Flush

\* Every step keeps the salt that the hashes of a day were made with.
LEMMA NextSalt ==
  ASSUME Typed, EmptyHanded, SaltInv, [Next]_vars
  PROVE  SaltInv'
<1> USE DEF SaltInv
<1>0. today \in Nat /\ today \in Days /\ NoSalt.day = 0 /\ NoSalt.dirty = FALSE
  BY DEF Typed, TypeOK, Days, NoSalt
<1>1. ASSUME UNCHANGED <<today, memory, flush, tables, ghosts>>,
             \A w \in Writers : call'[w] # NoCall => call'[w].now <= today \/ call'[w] = call[w]
      PROVE  SaltInv'
  <2>1. UNCHANGED <<today, salt, hashes, flush, webHashes, webSalts, lost, late>>
    BY <1>1 DEF memory, tables, ghosts
  <2>2. AllHashes' = AllHashes  BY <2>1 DEF AllHashes
  <2>3. NothingAhead'  BY <1>1, <2>1, <2>2, Zenon DEF NothingAhead
  <2>4. OneSalt' /\ SaltSaved'  BY <2>1, <2>2 DEF OneSalt, SaltSaved, SaltTaken, NoneOf
  <2> QED  BY <2>3, <2>4
<1>2. ASSUME NEW w \in Writers, ReadClock(w) PROVE SaltInv'
  <2>1. PICK d \in Days, c \in Clients :
          call' = [call EXCEPT ![w] = [now |-> today, day |-> d, client |-> c]]
    BY <1>2, Zenon DEF ReadClock
  <2>2. \A v \in Writers : call'[v].now <= today \/ call'[v] = call[v]
    BY <1>0, <2>1 DEF Typed, TypeOK
  <2> QED  BY <1>1, <1>2, <2>2 DEF ReadClock
<1>3. CASE Restart
  <2>1. /\ flush'.hashes = {} /\ flush'.salt = NoSalt /\ flush'.day = 0
        /\ hashes' = {} /\ salt' = Load
        /\ \A w \in Writers : call'[w] = NoCall
        /\ UNCHANGED <<today, webHashes, webSalts, lost, late>>
    BY <1>3 DEF Restart, NoFlush, tables
  <2>2. AllHashes' = webHashes /\ webHashes \subseteq AllHashes  BY <2>1 DEF AllHashes
  <2>3. ~SaltTaken'  BY <1>0, <2>1 DEF SaltTaken
  <2>4. CASE webSalts[today] = 0
    <3>1. salt' = NoSalt /\ salt'.day # today  BY <1>0, <2>1, <2>4 DEF Load, Days
    <3>2. NothingAhead'  BY <1>0, <2>1, <2>2, <3>1 DEF NothingAhead
    <3>3. OneSalt'
      <4>1. \A d \in Days : salt'.day # d  BY <1>0, <3>1 DEF Days
      <4> QED  BY <2>1, <2>2, <4>1 DEF OneSalt
    <3>4. today \notin lost \cup late => NoneOf(today, webHashes)
      <4>1. salt.day = today /\ today \notin lost \cup late => salt.id # 0
        BY <1>0 DEF Typed, TypeOK, SaltsInUse, NoSalt, Salts, Days
      <4> QED  BY <2>2, <2>4, <4>1 DEF SaltSaved, NoneOf
    <3>5. SaltSaved'  BY <2>1, <2>2, <2>3, <2>4, <3>1, <3>4 DEF SaltSaved, NoneOf
    <3> QED  BY <3>2, <3>3, <3>5
  <2>5. CASE webSalts[today] # 0
    <3>1. salt'.day = today /\ salt'.id = webSalts[today]  BY <2>1, <2>5 DEF Load
    <3>2. NothingAhead'  BY <1>0, <2>1, <2>2, <3>1 DEF NothingAhead
    <3>3. today \notin lost \cup late => salt.day = today /\ webSalts[today] = salt.id
      BY <2>5 DEF SaltSaved
    <3>4. OneSalt'  BY <2>1, <2>2, <3>1, <3>3 DEF OneSalt
    <3>5. SaltSaved'  BY <2>1, <2>3, <3>1 DEF SaltSaved
    <3> QED  BY <3>2, <3>4, <3>5
  <2> QED  BY <2>4, <2>5
<1>4. CASE NextDay
  <2>1. /\ today' = today + 1 /\ today' \in Days
        /\ UNCHANGED <<call, salt, hashes, flush, webHashes, webSalts, lost, late>>
    BY <1>0, <1>4, BoundsAssumption DEF NextDay, memory, tables, ghosts, Days
  <2>2. AllHashes' = AllHashes  BY <2>1 DEF AllHashes
  <2>3. /\ salt.day \in Nat /\ flush.salt.day \in Nat /\ flush.day \in Nat
        /\ \A h \in AllHashes : h.day \in Nat
        /\ \A w \in Writers : call[w].now \in Nat
    <3>1. AllHashes \subseteq Hashes  BY DEF AllHashes, Typed, TypeOK
    <3>2. \A h \in AllHashes : h.day \in Nat  BY <3>1 DEF Hashes, Days
    <3>3. \A w \in Writers : call[w].now \in Nat
      BY DEF Typed, TypeOK, Calls, NoCall, Days
    <3> QED  BY <3>2, <3>3 DEF Typed, TypeOK, SaltsInUse, NoSalt, Days
  <2>4. NothingAhead'
    <3>1. \A d \in Days : d > today' => webSalts'[d] = 0
      BY <1>0, <2>1 DEF NothingAhead, Days
    <3>2. \A h \in AllHashes' : h.day <= today'  BY <1>0, <2>1, <2>2, <2>3 DEF NothingAhead
    <3>3. \A w \in Writers : call'[w] # NoCall => call'[w].now <= today'
      BY <1>0, <2>1, <2>3 DEF NothingAhead
    <3>4. salt'.day <= today' /\ flush'.salt.day <= today' /\ flush'.day <= today'
      BY <1>0, <2>1, <2>3 DEF NothingAhead
    <3> QED  BY <3>1, <3>2, <3>3, <3>4 DEF NothingAhead
  <2>5. OneSalt'  BY <2>1, <2>2 DEF OneSalt
  <2>6. SaltSaved'
    <3>1. salt'.day # today' /\ flush'.salt.day # today' /\ webSalts'[today'] = 0
      BY <1>0, <2>1, <2>3 DEF NothingAhead, Days
    <3>2. NoneOf(today', AllHashes')
      BY <1>0, <2>1, <2>2, <2>3 DEF NothingAhead, NoneOf
    <3> QED  BY <3>1, <3>2 DEF SaltSaved, SaltTaken, NoneOf
  <2> QED  BY <2>4, <2>5, <2>6
<1>5. CASE UNCHANGED vars  BY <1>1, <1>5 DEF vars
<1> QED  BY <1>2, <1>3, <1>4, <1>5, RecordSalt, FlushSalt DEF Next, Ingest

\* A client is hashed once a day through flushes, restarts and midnights, unless a
\* salt was lost with a failed write or midnight overtook a record call (Load,
\* ensureSaltLocked, saltDirty).
THEOREM HashedOnce == Spec => []VisitorOnce
<1> DEFINE Inv == Typed /\ EmptyHanded /\ SaltInv
<1>1. Init => Inv
  <2> SUFFICES ASSUME Init PROVE Inv  OBVIOUS
  <2>1. EmptyHanded  BY DEF Init, EmptyHanded, NoFlush
  <2>2. NothingAhead
    BY DEF Init, NothingAhead, NoFlush, NoSalt, NoViews, AllHashes
  <2>3. OneSalt /\ SaltSaved
    BY InitTyped DEF Init, OneSalt, SaltSaved, SaltTaken, NoneOf, NoFlush, NoSalt, NoViews,
                     AllHashes, Typed, TypeOK
  <2> QED  BY <2>1, <2>2, <2>3, InitTyped DEF SaltInv
<1>2. Inv /\ [Next]_vars => Inv'  BY NextTyped, NextEmptyHanded, NextSalt
<1>3. Inv => VisitorOnce
  <2> SUFFICES ASSUME Inv, NEW h \in webHashes, NEW k \in webHashes, h.day = k.day,
                      h.client = k.client, h.day \notin lost \cup late
               PROVE  h = k
    BY DEF VisitorOnce
  <2>1. h \in Hashes /\ k \in Hashes  BY DEF Typed, TypeOK
  <2>2. h.salt = k.salt  BY <2>1 DEF SaltInv, OneSalt, AllHashes, Hashes
  <2> QED  BY <2>1, <2>2 DEF Hashes
<1> HIDE DEF Inv
<1> QED  BY <1>1, <1>2, <1>3, PTL DEF Spec
=============================================================================
