------------------------------ MODULE Terminal ------------------------------
(***************************************************************************)
(* Browser terminals on one node.  The WebSocket handler Serve on the      *)
(* leader opens and closes a shell with requests on the agent's stream;    *)
(* the agent's receive loop handles them one after the other, and a        *)
(* ptyManager keeps one privileged helper container for each session.      *)
(* The stream may drop and come back, requests time out while the agent    *)
(* still works on them, and a session may be ended from several sides.     *)
(*                                                                         *)
(* The output of the shells is module PtyOutput.  Docker is external: what *)
(* it is asked to remove it removes.                                       *)
(***************************************************************************)
EXTENDS Naturals, Sequences, FiniteSets, Functions

CONSTANTS Sessions,        \* terminal sessions, one per call of Serve
          MaxPtySessions,  \* maxPtySessions (8 in the code)
          MaxStreams,      \* bound on the streams the agent opens
          MaxInputs        \* bound on what is typed

ASSUME BoundsAssumption == MaxPtySessions \in Nat \ {0} /\ MaxStreams \in Nat \ {0} /\ MaxInputs \in Nat

Streams == 1..MaxStreams
Ops == {"open", "close", "input"}
Commands == [op : Ops, s : Sessions]
Idle == [at |-> "idle"]
Loops == {Idle} \cup [at : {"create", "insert", "remove", "write"}, s : Sessions]

VARIABLES
  serve,       \* control point of Serve for a session
  conn,        \* the stream its AgentConn belongs to, 0 before it has one
  opened,      \* the sessions whose PtyOpen was answered in time
  typing,      \* the sessions whose readLoop waits for an answer
  inputs,      \* what was typed so far
  epoch,       \* the agent's latest stream
  client,      \* connectAndServe of that stream
  inbox,       \* commands sent on it and not yet received
  replies,     \* results sent on it and not yet received
  loop,        \* recvLoop of each stream: what it is doing, and for whom
  sessions,    \* ptyManager.sessions
  finishing,   \* sessions closed and dropped whose container is being removed
  closing,     \* the sessions CloseAll works on, one after the other
  containers   \* sessions with a helper container on the node

leader == <<serve, conn, opened, typing, inputs>>
wire   == <<inbox, replies>>
pty    == <<sessions, finishing, containers>>
vars == <<leader, epoch, client, wire, loop, pty, closing>>

TypeOK ==
  /\ serve \in [Sessions -> {"idle", "opening", "attached", "cancelled", "closing", "done"}]
  /\ conn \in [Sessions -> 0..MaxStreams]
  /\ opened \subseteq Sessions /\ typing \subseteq Sessions /\ inputs \in 0..MaxInputs
  /\ epoch \in Streams
  /\ client \in {"serving", "ended", "closeall"}
  /\ inbox \in Seq(Commands)
  /\ replies \subseteq [op : Ops, s : Sessions, ok : BOOLEAN]
  /\ loop \in [Streams -> Loops]
  /\ sessions \subseteq Sessions /\ finishing \subseteq Sessions
  /\ closing \in Seq(Sessions) /\ containers \subseteq Sessions

Init ==
  /\ serve = [s \in Sessions |-> "idle"]
  /\ conn = [s \in Sessions |-> 0]
  /\ opened = {} /\ typing = {} /\ inputs = 0
  /\ epoch = 1 /\ client = "serving"
  /\ inbox = <<>> /\ replies = {}
  /\ loop = [e \in Streams |-> Idle]
  /\ sessions = {} /\ finishing = {} /\ containers = {} /\ closing = <<>>

Goto(s, l) == serve' = [serve EXCEPT ![s] = l]
Works(e, w) == loop' = [loop EXCEPT ![e] = w]

\* Is stream e the one that is connected?
Up(e) == client = "serving" /\ e = epoch

-----------------------------------------------------------------------------
(* The leader: Serve and the requests it makes.                            *)

\* A command sent on a stream that is gone reaches nobody.
Send(e, op, s) ==
  inbox' = IF Up(e) THEN Append(inbox, [op |-> op, s |-> s]) ELSE inbox

\* RequireAgent, subscribe, then the PtyOpen request.  The registry may still
\* hold a stream that is gone.
ServeOpen(s) ==
  /\ serve[s] = "idle"
  /\ Goto(s, "opening")
  /\ conn' = [conn EXCEPT ![s] = epoch]
  /\ Send(epoch, "open", s)
  /\ UNCHANGED <<opened, typing, inputs, epoch, client, replies, loop, pty, closing>>

\* dispatchResult finds the waiter of a PtyOpen, or nobody.
OpenReply(m) ==
  /\ m.op = "open"
  /\ replies' = replies \ {m}
  /\ IF serve[m.s] = "opening"
     THEN /\ Goto(m.s, IF m.ok THEN "attached" ELSE "done")
          /\ opened' = IF m.ok THEN opened \cup {m.s} ELSE opened
     ELSE UNCHANGED <<serve, opened>>
  /\ UNCHANGED <<conn, typing, inputs, epoch, client, inbox, loop, pty, closing>>

\* openCtx expires, or the send failed: Serve returns without a PtyClose.
OpenTimeout(s) ==
  /\ serve[s] = "opening"
  /\ Goto(s, "done")
  /\ UNCHANGED <<conn, opened, typing, inputs, epoch, client, wire, loop, pty, closing>>

\* readLoop takes a keystroke or a new size from the browser and sends it; it reads
\* on when the agent has answered.
ReadInput(s) ==
  /\ serve[s] = "attached" /\ s \notin typing
  /\ inputs < MaxInputs /\ inputs' = inputs + 1
  /\ typing' = typing \cup {s}
  /\ Send(conn[s], "input", s)
  /\ UNCHANGED <<serve, conn, opened, epoch, client, replies, loop, pty, closing>>

\* The agent refuses an input when the session is gone: readLoop cancels Serve.
InputReply(m) ==
  /\ m.op = "input"
  /\ replies' = replies \ {m}
  /\ typing' = typing \ {m.s}
  /\ IF serve[m.s] = "attached" /\ ~m.ok THEN Goto(m.s, "cancelled") ELSE UNCHANGED serve
  /\ UNCHANGED <<conn, opened, inputs, epoch, client, inbox, loop, pty, closing>>

\* So it does when no answer comes.
InputTimeout(s) ==
  /\ serve[s] = "attached" /\ s \in typing
  /\ typing' = typing \ {s} /\ Goto(s, "cancelled")
  /\ UNCHANGED <<conn, opened, inputs, epoch, client, wire, loop, pty, closing>>

\* Mutant: the deferred PtyClose is not sent.
DetachSilently(s) ==
  /\ serve[s] \in {"attached", "cancelled"}
  /\ Goto(s, "done") /\ typing' = typing \ {s}
  /\ UNCHANGED <<conn, opened, inputs, epoch, client, wire, loop, pty, closing>>

\* The loop of Serve ends, for whatever reason; the deferred PtyClose follows.
Detach(s) ==
  /\ serve[s] \in {"attached", "cancelled"}
  /\ Goto(s, "closing") /\ typing' = typing \ {s}
  /\ Send(conn[s], "close", s)
  /\ UNCHANGED <<conn, opened, inputs, epoch, client, replies, loop, pty, closing>>

CloseReply(m) ==
  /\ m.op = "close"
  /\ replies' = replies \ {m}
  /\ IF serve[m.s] = "closing" THEN Goto(m.s, "done") ELSE UNCHANGED serve
  /\ UNCHANGED <<conn, opened, typing, inputs, epoch, client, inbox, loop, pty, closing>>

\* closeCtx expires, or the send failed: logged, and the session is done.
CloseTimeout(s) ==
  /\ serve[s] = "closing"
  /\ Goto(s, "done")
  /\ UNCHANGED <<conn, opened, typing, inputs, epoch, client, wire, loop, pty, closing>>

-----------------------------------------------------------------------------
(* The agent: recvLoop and the ptyManager.                                 *)

\* The result of a command; it is lost when the stream is gone.
Reply(e, op, s, ok) ==
  replies' = IF Up(e) THEN replies \cup {[op |-> op, s |-> s, ok |-> ok]}
                      ELSE replies

\* Too many sessions are open on this node.
Full == Cardinality(sessions) >= MaxPtySessions

\* Open up to the container: the limit is checked and the image resolved.
RecvOpen ==
  /\ Up(epoch) /\ loop[epoch] = Idle
  /\ inbox # <<>> /\ Head(inbox).op = "open"
  /\ inbox' = Tail(inbox)
  /\ IF Full
     THEN Reply(epoch, "open", Head(inbox).s, FALSE) /\ UNCHANGED loop
     ELSE Works(epoch, [at |-> "create", s |-> Head(inbox).s]) /\ UNCHANGED replies
  /\ UNCHANGED <<leader, epoch, client, pty, closing>>

\* Create, attach and start, on the stream's context.
StartContainer(e) ==
  /\ loop[e].at = "create" /\ Up(e)
  /\ containers' = containers \cup {loop[e].s}
  /\ Works(e, [at |-> "insert", s |-> loop[e].s])
  /\ UNCHANGED <<leader, epoch, client, wire, sessions, finishing, closing>>

\* One of them fails, as all do once the context is cancelled: the container is
\* removed again, and PtyOpen refused.
StartFails(e) ==
  /\ loop[e].at = "create"
  /\ Works(e, Idle)
  /\ Reply(e, "open", loop[e].s, FALSE)
  /\ UNCHANGED <<leader, epoch, client, inbox, pty, closing>>

\* The session becomes known, its pump starts, and PtyOpen is answered.
InsertSession(e) ==
  /\ loop[e].at = "insert"
  /\ sessions' = sessions \cup {loop[e].s}
  /\ Works(e, Idle)
  /\ Reply(e, "open", loop[e].s, TRUE)
  /\ UNCHANGED <<leader, epoch, client, inbox, finishing, containers, closing>>

\* A Write to the session holds its writeMu.
Locked(s) == \E e \in Streams : loop[e] = [at |-> "write", s |-> s]

\* Write looks the session up, takes writeMu and hands the input to the shell; Resize
\* asks Docker, who may refuse.
RecvInput ==
  /\ Up(epoch) /\ loop[epoch] = Idle
  /\ inbox # <<>> /\ Head(inbox).op = "input"
  /\ inbox' = Tail(inbox)
  /\ LET s == Head(inbox).s IN
       \/ s \in sessions /\ Works(epoch, [at |-> "write", s |-> s]) /\ UNCHANGED replies
       \/ /\ \E ok \in BOOLEAN : (ok => s \in sessions) /\ Reply(epoch, "input", s, ok)
          /\ UNCHANGED loop
  /\ UNCHANGED <<leader, epoch, client, pty, closing>>

\* The shell has taken the input, or is gone: Docker closed the connection.  A shell
\* that reads nothing may keep Write waiting.
WriteReturns(e) ==
  /\ loop[e].at = "write"
  /\ Works(e, Idle)
  /\ \E ok \in BOOLEAN : Reply(e, "input", loop[e].s, ok)
  /\ UNCHANGED <<leader, epoch, client, inbox, pty, closing>>

\* finish of a session in the table, up to the removal of its container.
finish(s) ==
  /\ ~Locked(s)
  /\ sessions' = sessions \ {s}
  /\ finishing' = finishing \cup {s}

\* Close: an unknown session is already gone.
RecvClose ==
  /\ Up(epoch) /\ loop[epoch] = Idle
  /\ inbox # <<>> /\ Head(inbox).op = "close"
  /\ inbox' = Tail(inbox)
  /\ LET s == Head(inbox).s IN
       IF s \in sessions
       THEN finish(s) /\ Works(epoch, [at |-> "remove", s |-> s]) /\ UNCHANGED replies
       ELSE Reply(epoch, "close", s, TRUE) /\ UNCHANGED <<sessions, finishing, loop>>
  /\ UNCHANGED <<leader, epoch, client, containers, closing>>

\* Close returns once finish has removed the container.
CloseReturns(e) ==
  /\ loop[e].at = "remove" /\ loop[e].s \notin finishing
  /\ Works(e, Idle)
  /\ Reply(e, "close", loop[e].s, TRUE)
  /\ UNCHANGED <<leader, epoch, client, inbox, pty, closing>>

\* The snapshot CloseAll works on, without a session it will find closed.
Without(snapshot, s) ==
  IF s \notin Range(snapshot) THEN snapshot
  ELSE LET i == CHOOSE k \in DOMAIN snapshot : snapshot[k] = s
       IN  SubSeq(snapshot, 1, i - 1) \o SubSeq(snapshot, i + 1, Len(snapshot))

\* Mutant: no lifetime cap, pump ends when its output cannot be sent.
PumpEndsUncapped(s) ==
  /\ s \in sessions /\ client # "serving"
  /\ finish(s)
  /\ closing' = Without(closing, s)
  /\ UNCHANGED <<leader, epoch, client, wire, loop, containers>>

\* pump ends a session: the shell exits, output cannot be sent, or the cap fires.
\* A later finish of the same session, by CloseAll too, returns at once.
PumpEnds(s) ==
  /\ s \in sessions
  /\ finish(s)
  /\ closing' = Without(closing, s)
  /\ UNCHANGED <<leader, epoch, client, wire, loop, containers>>

removeContainer(s) ==
  /\ s \in finishing
  /\ finishing' = finishing \ {s}
  /\ containers' = containers \ {s}
  /\ UNCHANGED <<leader, epoch, client, wire, loop, sessions, closing>>

-----------------------------------------------------------------------------
(* The stream: connectAndServe and Run of the agent's client.              *)

\* Receiving or a heartbeat fails; what was under way is lost.
StreamDrops ==
  /\ client = "serving" /\ epoch < MaxStreams
  /\ client' = "ended"
  /\ inbox' = <<>> /\ replies' = {}
  /\ UNCHANGED <<leader, epoch, loop, pty, closing>>

\* The orders in which a loop may visit a set.  Of a map there are finitely many keys.
Orders(S) == {order \in Bijection(1..Cardinality(S), S) : Cardinality(S) \in Nat}

\* The deferred CloseAll, two seconds later at most: a receive loop that is still
\* busy then goes on beside the next stream's.
CloseAll ==
  /\ client = "ended" /\ client' = "closeall"
  /\ closing' \in Orders(sessions)
  /\ UNCHANGED <<leader, epoch, wire, loop, pty>>

\* One session of the snapshot after the other.
CloseAllFinish ==
  /\ client = "closeall" /\ closing # <<>>
  /\ LET s == Head(closing) IN
       \/ s \in sessions /\ finish(s) /\ UNCHANGED closing
       \/ s \notin sessions \cup finishing /\ closing' = Tail(closing) /\ UNCHANGED <<sessions, finishing>>
  /\ UNCHANGED <<leader, epoch, client, wire, loop, containers>>

\* CloseAll has removed its containers; Run backs off and connects again: a new
\* connection and stream, Hello, Welcome, the monitor and the loops.  An attempt that
\* fails changes nothing.
Reconnect ==
  /\ client = "closeall" /\ closing = <<>>
  /\ client' = "serving" /\ epoch' = epoch + 1
  /\ UNCHANGED <<leader, wire, loop, pty, closing>>

-----------------------------------------------------------------------------

Leader(s) ==
  \/ ServeOpen(s) \/ OpenTimeout(s) \/ ReadInput(s) \/ InputTimeout(s)
  \/ Detach(s) \/ CloseTimeout(s)

Dispatch == \E m \in replies : OpenReply(m) \/ InputReply(m) \/ CloseReply(m)

recvLoop(e) ==
  StartContainer(e) \/ StartFails(e) \/ InsertSession(e) \/ CloseReturns(e)

Teardown(s) == PumpEnds(s) \/ removeContainer(s)

Next ==
  \/ \E s \in Sessions : Leader(s) \/ Teardown(s)
  \/ Dispatch
  \/ RecvOpen \/ RecvInput \/ RecvClose
  \/ \E e \in Streams : recvLoop(e) \/ WriteReturns(e)
  \/ StreamDrops \/ CloseAll \/ CloseAllFinish \/ Reconnect

Spec == Init /\ [][Next]_vars

\* Goroutines run, Docker answers, timers fire: among them the lifetime cap of a
\* session (PumpEnds) and the timeouts of the requests.  A mutex is taken in the end
\* by who waits for it.  Nothing makes a shell read its input (WriteReturns).
Fairness ==
  /\ \A s \in Sessions : SF_vars(PumpEnds(s)) /\ WF_vars(removeContainer(s))
  /\ \A s \in Sessions : WF_vars(OpenTimeout(s)) /\ WF_vars(CloseTimeout(s))
  /\ \A e \in Streams : WF_vars(recvLoop(e))
  /\ WF_vars(RecvOpen \/ RecvInput \/ RecvClose) /\ WF_vars(Dispatch)
  /\ WF_vars(CloseAll) /\ WF_vars(CloseAllFinish) /\ WF_vars(Reconnect)

FairSpec == Spec /\ Fairness

-----------------------------------------------------------------------------
(* Properties.                                                             *)

\* Nothing for session s is under way: no command, no handler, no teardown.
Quiet(s) ==
  /\ client = "serving"
  /\ \A i \in 1..Len(inbox) : inbox[i].s # s
  /\ \A e \in Streams : loop[e] = Idle \/ loop[e].s # s
  /\ s \notin finishing

\* A shell that was handed to a browser is gone once its handler has returned,
\* through every order of its own end, the PtyClose and the loss of the stream
\* (the deferred PtyClose of Serve, CloseAll).
OpenedIsClosed ==
  \A s \in opened : serve[s] = "done" /\ Quiet(s) => s \notin containers

\* No helper container stays for ever: not one whose browser timed out, nor one
\* a busy receive loop started as its stream dropped (the cap in pump, finish).  The
\* one that may is that of a shell which never takes its input: Write holds writeMu
\* meanwhile, and every way to end the session waits for it.
ContainerEnds ==
  \A s \in Sessions : s \in containers ~> s \notin containers \/ []Locked(s)
=============================================================================
