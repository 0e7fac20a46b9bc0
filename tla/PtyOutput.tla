----------------------------- MODULE PtyOutput -----------------------------
(***************************************************************************)
(* Terminal output on its way to one browser: the agent channel's receive  *)
(* loop calls ptyHub.deliver, which must not block, and the WebSocket      *)
(* handler Serve takes from the subscription's buffer.  A subscriber that  *)
(* cannot keep up is marked dead, and Serve ends when its select sees it.  *)
(*                                                                         *)
(* Chunks of output are numbered; a chunk is the message, whatever bytes   *)
(* it carries.  The last one says that the shell has closed.               *)
(***************************************************************************)
EXTENDS Naturals, Sequences

CONSTANTS Chunks,   \* the number of the last chunk (bounds a shell's output)
          Buffer    \* capacity of ptySub.out (1024 in the code)

ASSUME ChunksAssumption == Chunks \in Nat \ {0}
ASSUME BufferAssumption == Buffer \in Nat \ {0}

VARIABLES
  sub,      \* the session is in ptyHub.subs
  holds,    \* deliver has looked the subscription up and is about to send
  next,     \* the chunk the receive loop handles next
  out,      \* ptySub.out
  dead,     \* ptySub.dead is closed
  serving,  \* Serve: "loop", or why it left
  got       \* the chunks written to the browser

output == <<sub, holds, next, out, dead, serving, got>>

Ends == {"closed", "overflow", "gone", "returned"}

OutputTypeOK ==
  /\ sub \in BOOLEAN /\ holds \in BOOLEAN /\ dead \in BOOLEAN
  /\ next \in 1..(Chunks + 1)
  /\ out \in Seq(1..Chunks) /\ Len(out) <= Buffer
  /\ serving \in {"loop"} \cup Ends
  /\ got \in Seq(1..Chunks)

\* subscribe comes before PtyOpen, so that the first chunk finds a subscriber.
OutputInit ==
  /\ sub = TRUE /\ holds = FALSE /\ dead = FALSE
  /\ next = 1 /\ out = <<>> /\ serving = "loop" /\ got = <<>>

-----------------------------------------------------------------------------
(* deliver, on the receive loop: the lookup under the mutex, then the send. *)

deliverLookup ==
  /\ ~holds /\ next <= Chunks
  /\ IF sub THEN holds' = TRUE /\ UNCHANGED next
            ELSE next' = next + 1 /\ UNCHANGED holds
  /\ UNCHANGED <<sub, out, dead, serving, got>>

\* Mutant: a full buffer drops the chunk and tells nobody.
deliverSendDrops ==
  /\ holds /\ holds' = FALSE
  /\ next' = next + 1
  /\ out' = IF Len(out) < Buffer THEN Append(out, next) ELSE out
  /\ UNCHANGED <<sub, dead, serving, got>>

deliverSend ==
  /\ holds /\ holds' = FALSE
  /\ next' = next + 1
  /\ IF Len(out) < Buffer THEN out' = Append(out, next) /\ UNCHANGED dead
                          ELSE dead' = TRUE /\ UNCHANGED out
  /\ UNCHANGED <<sub, serving, got>>

-----------------------------------------------------------------------------
(* The select of Serve, whose ready cases are chosen between at random.    *)

TakeOut ==
  /\ serving = "loop" /\ out # <<>>
  /\ got' = Append(got, Head(out))
  /\ out' = Tail(out)
  /\ serving' = IF Head(out) = Chunks THEN "closed" ELSE "loop"
  /\ UNCHANGED <<sub, holds, next, dead>>

\* Mutant: the loop never looks at sub.dead.
SeeDeadNever ==
  /\ FALSE
  /\ UNCHANGED output

SeeDead ==
  /\ serving = "loop" /\ dead
  /\ serving' = "overflow"
  /\ UNCHANGED <<sub, holds, next, out, dead, got>>

\* The browser is gone: ctx.Done, a failed write or a failed ping.
BrowserGone ==
  /\ serving = "loop"
  /\ serving' = "gone"
  /\ UNCHANGED <<sub, holds, next, out, dead, got>>

\* The deferred unsubscribe; out is never closed under deliver's send.
Unsubscribe ==
  /\ serving \in {"closed", "overflow", "gone"}
  /\ sub' = FALSE /\ serving' = "returned"
  /\ UNCHANGED <<holds, next, out, dead, got>>

deliver == deliverLookup \/ deliverSend
Serve == TakeOut \/ SeeDead \/ BrowserGone \/ Unsubscribe

OutputNext == deliver \/ Serve

OutputSpec == OutputInit /\ [][OutputNext]_output

\* Both goroutines run, and a select that finds a case ready again and again
\* takes it at some time.
OutputFairness ==
  /\ WF_output(deliver)
  /\ WF_output(TakeOut \/ SeeDead \/ Unsubscribe)
  /\ SF_output(SeeDead)

OutputFairSpec == OutputSpec /\ OutputFairness

-----------------------------------------------------------------------------
(* Properties.                                                             *)

\* As long as the subscription is not marked dead, what the browser got, what is
\* in the buffer and what is still to come are the shell's output without a hole
\* (deliver and the select of Serve).
GaplessUntilDead ==
  ~dead /\ sub => /\ Len(got) + Len(out) = next - 1
                  /\ \A i \in 1..Len(got) : got[i] = i
                  /\ \A i \in 1..Len(out) : out[i] = Len(got) + i

\* A subscriber that lost output is killed: the session ends, it does not wait
\* for chunks that were dropped (the case sub.dead of Serve).
DeadEnds == dead ~> serving = "returned"
=============================================================================
