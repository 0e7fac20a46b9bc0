---------------------------- MODULE AlertDelivery ----------------------------
(***************************************************************************)
(* How an alert leaves the leader once AlertEngine decided to fire it      *)
(* (fire): over the SSE hub (sse.go) to the browsers, and over a webhook   *)
(* whose URL the engine caches (webhookURL, InvalidateWebhook) while the   *)
(* handlers of handlers_monitoring.go change its row.                      *)
(*                                                                         *)
(* One webhook: rows share nothing, and a deleted id does not come back.   *)
(* An event is not told from another, so a channel of events is the number *)
(* it holds.                                                               *)
(***************************************************************************)
EXTENDS Integers, Sequences

CONSTANTS Clients,     \* requests to Hub.ServeHTTP
          Admins,      \* requests to the webhook handlers
          LongURLs, ShortURLs, \* URLs, by whether they have 16 characters
          NoURL,       \* no URL
          Masked,      \* what maskURL makes of a long URL: it holds the character it looks for
          Bullets,     \* what it makes of a short one
          Tries,       \* attempts of Client.Post
          BusCap, QueueCap, ChanCap, \* capacities: broadcast, register and unregister, a client
          MaxFires,    \* bound on the alerts
          MaxEdits     \* bound on the requests to the webhook handlers

ASSUME CapsAssumption == {BusCap, QueueCap, ChanCap, Tries} \subseteq Nat \ {0}

VARIABLES
  hook,      \* the row of webhook_configs
  cache,     \* AlertEngine.webhooks
  engine,    \* the engine's goroutine in fire
  admin,     \* the handlers: "idle", or "invalidate" after the row was written
  posts,     \* goroutines in Client.Post
  bus, register, unregister, \* the channels of the hub
  hub, subs, \* Hub.Run: "running" or "stopped", and the map it owns
  client,    \* the requests: control and channel
  panicked,  \* a send on a closed channel, or a second close
  fires, edits, sent,
  \* Ghosts: the cached URL was stored over an edit; an alert was accepted twice.
  raced, doubled

webhook == <<hook, cache, engine, admin, raced>>
posting == <<posts, sent, doubled>>
channels == <<register, unregister, hub, subs, client, panicked>>
deliveryVars == <<webhook, posting, bus, channels, fires, edits>>

URLs  == LongURLs \cup ShortURLs
NoRow == [url |-> NoURL, enabled |-> FALSE]
Idle  == [at |-> "idle", url |-> NoURL, stale |-> FALSE]
\* The rows CreateWebhook inserts; it asks for a URL and makes a new id.
Created == [url : URLs, enabled : BOOLEAN]
NewClient == [at |-> "new", ch |-> 0, closed |-> FALSE]

DeliveryInit ==
  /\ hook \in {NoRow} \cup Created
  /\ cache = NoURL /\ engine = Idle /\ admin = [h \in Admins |-> "idle"] /\ raced = FALSE
  /\ posts = {} /\ sent = 0 /\ doubled = FALSE
  /\ bus = 0 /\ register = <<>> /\ unregister = <<>>
  /\ hub = "running" /\ subs = {} /\ client = [c \in Clients |-> NewClient]
  /\ panicked = FALSE /\ fires = 0 /\ edits = 0

-----------------------------------------------------------------------------
(* AlertEngine.fire.                                                       *)

\* Publish does not wait: a full bus loses the event.
Publish == bus' = IF bus < BusCap THEN bus + 1 ELSE bus

\* The row of alert_history, the event, and on to the webhook of the rule, if any.
fire ==
  /\ engine = Idle /\ fires < MaxFires
  /\ fires' = fires + 1 /\ Publish
  /\ engine' \in {Idle, [Idle EXCEPT !.at = "cached"]}
  /\ UNCHANGED <<hook, cache, admin, raced, posting, channels, edits>>

\* go func() { ... c.Post ... }
StartPost(url) ==
  /\ sent' = sent + 1
  /\ posts' = posts \cup {[id |-> sent + 1, url |-> url, attempt |-> 1, got |-> 0]}
  /\ UNCHANGED doubled

\* webhookURL finds the URL in the cache, under the read lock, or does not.
CacheLookup ==
  /\ engine.at = "cached"
  /\ IF cache # NoURL THEN engine' = Idle /\ StartPost(cache)
                     ELSE engine' = [engine EXCEPT !.at = "query"] /\ UNCHANGED posting
  /\ UNCHANGED <<hook, cache, admin, raced, bus, channels, fires, edits>>

\* It reads the row, unless the webhook is disabled or gone or the query fails ...
QueryRow ==
  /\ engine.at = "query"
  /\ \/ engine' = Idle
     \/ hook.enabled /\ engine' = [engine EXCEPT !.at = "store", !.url = hook.url]
  /\ UNCHANGED <<hook, cache, admin, raced, posting, bus, channels, fires, edits>>

\* ... and caches what it read, under the write lock.
StoreURL ==
  /\ engine.at = "store" /\ engine' = Idle
  /\ cache' = engine.url /\ raced' = engine.stale
  /\ StartPost(engine.url)
  /\ UNCHANGED <<hook, admin, bus, channels, fires, edits>>

-----------------------------------------------------------------------------
(* discord.Client.                                                         *)

\* What an attempt ends with, and whether the message was accepted: a reply may
\* be lost.  What is not a URL reaches nobody.
Answers(url) ==
  (IF url \in URLs THEN [is : {"ok"}, got : {1}] \cup [is : {"limited", "refused"}, got : {0}]
                        \cup [is : {"lost"}, got : {0, 1}]
   ELSE {}) \cup {[is |-> "lost", got |-> 0]}

\* Mutant: an error of the transport is retried as well.
RetriesErrors(answer) == answer.is \in {"limited", "lost"}

\* Only a 429 is retried.
Retries(answer) == answer.is = "limited"

\* One attempt of Post; a pause after a 429, unless the attempts are used up.
Post ==
  \E p \in posts : \E answer \in Answers(p.url) :
    LET q == [p EXCEPT !.attempt = @ + 1, !.got = @ + answer.got] IN
    /\ posts' = (posts \ {p}) \cup (IF Retries(answer) /\ p.attempt < Tries THEN {q} ELSE {})
    /\ doubled' = (doubled \/ q.got > 1)
    /\ UNCHANGED <<webhook, bus, channels, fires, edits, sent>>

-----------------------------------------------------------------------------
(* The webhook handlers.                                                   *)

maskURL(u) == IF u = NoURL THEN NoURL ELSE IF u \in LongURLs THEN Masked ELSE Bullets
isMaskedURL(u) == u = Masked

Request(h) == admin[h] = "idle" /\ edits < MaxEdits /\ edits' = edits + 1

\* A row that is read already will be cached over the change.
WriteRow(row) ==
  /\ hook' = row
  /\ engine' = [engine EXCEPT !.stale = engine.at = "store" /\ (@ \/ row # hook)]

\* The URL of an update: a new one, or none or what ListWebhooks showed.
Inputs == URLs \cup {NoURL, maskURL(hook.url)}
Kept(u) == IF u = NoURL \/ isMaskedURL(u) THEN hook.url ELSE u

\* Mutant: the cache is dropped only when there is a new URL.
UpdateForURL(h) ==
  /\ Request(h)
  /\ \E u \in Inputs, on \in BOOLEAN :
       /\ IF hook = NoRow THEN UNCHANGED <<hook, engine>> ELSE WriteRow([url |-> Kept(u), enabled |-> on])
       /\ admin' = [admin EXCEPT ![h] = IF Kept(u) = hook.url THEN "idle" ELSE "invalidate"]
  /\ UNCHANGED <<cache, raced, posting, bus, channels, fires>>

\* An empty or masked URL keeps the one in the row.
UpdateWebhook(h) ==
  /\ Request(h)
  /\ \E u \in Inputs, on \in BOOLEAN :
       IF hook = NoRow THEN UNCHANGED <<hook, engine>> ELSE WriteRow([url |-> Kept(u), enabled |-> on])
  /\ admin' = [admin EXCEPT ![h] = "invalidate"]
  /\ UNCHANGED <<cache, raced, posting, bus, channels, fires>>

DeleteWebhook(h) ==
  /\ Request(h)
  /\ WriteRow(NoRow)
  /\ admin' = [admin EXCEPT ![h] = "invalidate"]
  /\ UNCHANGED <<cache, raced, posting, bus, channels, fires>>

\* Both go on to the cache.
InvalidateWebhook(h) ==
  /\ admin[h] = "invalidate" /\ admin' = [admin EXCEPT ![h] = "idle"]
  /\ cache' = NoURL /\ raced' = FALSE
  /\ UNCHANGED <<hook, engine, posting, bus, channels, fires, edits>>

\* The probe goes to the URL of the row, enabled or not.
TestWebhook(h) ==
  /\ Request(h) /\ hook # NoRow
  /\ StartPost(hook.url)
  /\ UNCHANGED <<webhook, bus, channels, fires>>

-----------------------------------------------------------------------------
(* Hub.ServeHTTP.                                                          *)

\* h.register <- sub waits for room.
Subscribe(c) ==
  /\ client[c].at = "new" /\ Len(register) < QueueCap
  /\ register' = Append(register, c)
  /\ client' = [client EXCEPT ![c].at = "open"]
  /\ UNCHANGED <<webhook, posting, bus, unregister, hub, subs, panicked, fires, edits>>

\* An event is written to the browser, or the closed channel ends the request.
Show(c) ==
  /\ client[c].at = "open"
  /\ \/ client[c].ch > 0 /\ client' = [client EXCEPT ![c].ch = @ - 1]
     \/ client[c].ch = 0 /\ client[c].closed /\ client' = [client EXCEPT ![c].at = "leaving"]
  /\ UNCHANGED <<webhook, posting, bus, register, unregister, hub, subs, panicked, fires, edits>>

\* The browser is gone.
Hangup(c) ==
  /\ client[c].at = "open"
  /\ client' = [client EXCEPT ![c].at = "leaving"]
  /\ UNCHANGED <<webhook, posting, bus, register, unregister, hub, subs, panicked, fires, edits>>

\* The deferred h.unregister <- sub; what is left in the channel nobody reads.
Unsubscribe(c) ==
  /\ client[c].at = "leaving" /\ Len(unregister) < QueueCap
  /\ unregister' = Append(unregister, c)
  /\ client' = [client EXCEPT ![c].at = "gone", ![c].ch = 0]
  /\ UNCHANGED <<webhook, posting, bus, register, hub, subs, panicked, fires, edits>>

-----------------------------------------------------------------------------
(* Hub.Run, one goroutine that selects among what is ready.                *)

TakeRegister ==
  /\ hub = "running" /\ register # <<>>
  /\ register' = Tail(register) /\ subs' = subs \cup {Head(register)}
  /\ UNCHANGED <<webhook, posting, bus, unregister, hub, client, panicked, fires, edits>>

\* close(s.ch) of the subscribers in a set.
Close(set) ==
  /\ client' = [c \in Clients |-> IF c \in set THEN [client[c] EXCEPT !.closed = TRUE] ELSE client[c]]
  /\ panicked' = (panicked \/ \E c \in set : client[c].closed)

\* Mutant: the channel is closed without a look at the map.
TakeUnregisterUnchecked ==
  /\ hub = "running" /\ unregister # <<>>
  /\ unregister' = Tail(unregister) /\ subs' = subs \ {Head(unregister)}
  /\ Close({Head(unregister)})
  /\ UNCHANGED <<webhook, posting, bus, register, hub, fires, edits>>

\* A subscriber that is not in the map, its registration may still wait, is left alone.
TakeUnregister ==
  /\ hub = "running" /\ unregister # <<>>
  /\ unregister' = Tail(unregister) /\ subs' = subs \ {Head(unregister)}
  /\ Close(subs \cap {Head(unregister)})
  /\ UNCHANGED <<webhook, posting, bus, register, hub, fires, edits>>

\* To every subscriber with room; a slow one misses the event.
SendAll ==
  /\ client' = [c \in Clients |-> IF c \in subs /\ client[c].at # "gone" /\ client[c].ch < ChanCap
                                  THEN [client[c] EXCEPT !.ch = @ + 1] ELSE client[c]]
  /\ panicked' = (panicked \/ \E c \in subs : client[c].closed)

\* Mutant: the hub waits for a slow subscriber.
TakeBroadcastWaits ==
  /\ UNCHANGED <<webhook, posting, register, unregister, subs, fires, edits>>
  /\ \/ hub = "running" /\ bus > 0 /\ bus' = bus - 1 /\ hub' = "sending" /\ UNCHANGED <<client, panicked>>
     \/ hub = "sending" /\ (\A c \in subs : client[c].ch < ChanCap)
        /\ SendAll /\ hub' = "running" /\ UNCHANGED bus

TakeBroadcast ==
  /\ hub = "running" /\ bus > 0 /\ bus' = bus - 1
  /\ SendAll
  /\ UNCHANGED <<webhook, posting, register, unregister, hub, subs, fires, edits>>

\* The ticker's ping.
Ping ==
  /\ hub = "running" /\ SendAll
  /\ UNCHANGED <<webhook, posting, bus, register, unregister, hub, subs, fires, edits>>

\* The leader shuts down: the hub closes the channels it knows and returns.
Stop ==
  /\ hub = "running" /\ hub' = "stopped"
  /\ Close(subs)
  /\ UNCHANGED <<webhook, posting, bus, register, unregister, subs, fires, edits>>

-----------------------------------------------------------------------------

Fire    == fire \/ CacheLookup \/ QueryRow \/ StoreURL
Edit(h) == UpdateWebhook(h) \/ DeleteWebhook(h) \/ InvalidateWebhook(h) \/ TestWebhook(h)
Run     == TakeRegister \/ TakeUnregister \/ TakeBroadcast \/ Ping \/ Stop
ServeHTTP(c) == Subscribe(c) \/ Show(c) \/ Hangup(c) \/ Unsubscribe(c)

DeliveryNext ==
  \/ Fire \/ Post \/ Run
  \/ \E h \in Admins : Edit(h)
  \/ \E c \in Clients : ServeHTTP(c)

DeliverySpec == DeliveryInit /\ [][DeliveryNext]_deliveryVars

\* select takes each case that stays ready in the end; requests go on.
DeliveryFairness ==
  /\ WF_deliveryVars(TakeRegister) /\ WF_deliveryVars(TakeUnregister) /\ WF_deliveryVars(TakeBroadcast)
  /\ \A c \in Clients : WF_deliveryVars(Show(c)) /\ WF_deliveryVars(Unsubscribe(c))

DeliveryFairSpec == DeliverySpec /\ DeliveryFairness

-----------------------------------------------------------------------------
(* Properties.                                                             *)

\* A cached URL is the one of the row, and the webhook is enabled, but for a handler
\* that has written the row and not yet dropped the cache: with one exception, a
\* lookup that read the row before an edit and stores what it read after it.
CacheIsCurrent ==
  cache # NoURL /\ ~raced =>
    hook = [url |-> cache, enabled |-> TRUE] \/ \E h \in Admins : admin[h] = "invalidate"

\* A message is accepted at most once: Post repeats it only after a 429, never when
\* the reply was lost.
AtMostOnce == ~doubled

\* The hub never sends on a channel it closed and closes none twice, also when a
\* client's unregister overtakes its register.
HubNeverPanics == ~panicked

\* Nobody waits for a slow browser: while the hub runs, a request whose browser is
\* gone gets rid of its subscription and ends.
HandlersLeave ==
  \A c \in Clients : client[c].at = "leaving" ~> client[c].at = "gone" \/ hub = "stopped"
==============================================================================
