--------------------------- MODULE TrafficWriter ---------------------------
(***************************************************************************)
(* The serial traffic writer of internal/web/service/traffic_writer.go:    *)
(* one goroutine applies every write to the hot traffic tables; callers    *)
(* hand it closures through a bounded channel; the panel starts and stops  *)
(* it.                                                                     *)
(*                                                                         *)
(* Each call of StartTrafficWriter that spawns a goroutine makes a fresh   *)
(* queue, context and done channel.  They are identified here by a         *)
(* generation number; generation 0 stands for the nil package variables.   *)
(* A critical section of twMu that does not block is one step.  The only   *)
(* section that blocks is the send on the queue in submitTrafficWrite, so  *)
(* twMu records the caller that sits in it.                                *)
(***************************************************************************)
EXTENDS Naturals, Sequences

CONSTANTS
    Callers,      \* goroutines that call submitTrafficWrite
    Controllers,  \* goroutines that call Start/StopTrafficWriter
    QueueSize,    \* trafficWriterQueueSize
    MaxGen,       \* bound: generations started in one behaviour
    NoOne         \* no caller

ASSUME QueueSizeAssumption == QueueSize \in Nat \ {0}
ASSUME MaxGenAssumption    == MaxGen \in Nat
ASSUME NoOneAssumption     == NoOne \notin Callers

VARIABLES
    twMu,       \* the caller blocked on the send with twMu held, or NoOne
    tw,         \* generation held by twQueue, twCtx, twCancel and twDone
    gens,       \* generations started so far
    queue,      \* per generation: the buffered requests, oldest first
    cancelled,  \* per generation: ctx.Done() is closed
    writer,     \* per generation: where runTrafficWriter is
    writing,    \* per generation: the request inside safeApply, or NoOne
    pc,         \* per caller: where submitTrafficWrite is
    gen,        \* per caller: the generation read under twMu
    answer,     \* per caller: content of req.done
    result,     \* per caller: what the last call returned
    applied,    \* per caller: times fn ran during the last call
    stopping    \* per controller: generation StopTrafficWriter waits for

vars == <<twMu, tw, gens, queue, cancelled, writer, writing,
          pc, gen, answer, result, applied, stopping>>

writerVars == <<queue, cancelled, writer, writing>>
callerVars == <<pc, gen, answer, result, applied>>

Gens == 1 .. MaxGen

Outcomes == {"ok", "err"}   \* what safeApply returns; a panic is an error

\* twDone of generation g is closed: its goroutine has returned.
Closed(g) == writer[g] = "exited"

TypeOK ==
    /\ twMu \in Callers \cup {NoOne}
    /\ tw \in 0 .. MaxGen
    /\ gens \in 0 .. MaxGen
    /\ queue \in [Gens -> Seq(Callers)]
    /\ \A g \in Gens : Len(queue[g]) <= QueueSize
    /\ cancelled \in [Gens -> BOOLEAN]
    /\ writer \in [Gens -> {"none", "serve", "drain", "exited"}]
    /\ writing \in [Gens -> Callers \cup {NoOne}]
    /\ pc \in [Callers -> {"idle", "send", "wait", "inline"}]
    /\ gen \in [Callers -> 0 .. MaxGen]
    /\ answer \in [Callers -> Outcomes \cup {"none"}]
    /\ result \in [Callers -> Outcomes \cup {"none", "full", "stopped"}]
    /\ applied \in [Callers -> Nat]
    /\ stopping \in [Controllers -> 0 .. MaxGen]

Init ==
    /\ twMu = NoOne
    /\ tw = 0
    /\ gens = 0
    /\ queue = [g \in Gens |-> << >>]
    /\ cancelled = [g \in Gens |-> FALSE]
    /\ writer = [g \in Gens |-> "none"]
    /\ writing = [g \in Gens |-> NoOne]
    /\ pc = [c \in Callers |-> "idle"]
    /\ gen = [c \in Callers |-> 0]
    /\ answer = [c \in Callers |-> "none"]
    /\ result = [c \in Callers |-> "none"]
    /\ applied = [c \in Callers |-> 0]
    /\ stopping = [k \in Controllers |-> 0]

-----------------------------------------------------------------------------
(* Start and stop *)

\* Mutant: a writer that was only told to stop no longer counts as running.
MayStartOnCancel == tw # 0 => cancelled[tw]

\* The state is left alone while a writer is up and its done channel is open:
\* then the call returns at once, and is not a step here.
MayStart == tw # 0 => Closed(tw)

StartTrafficWriter(k) ==
    /\ stopping[k] = 0
    /\ twMu = NoOne
    /\ MayStart
    /\ gens < MaxGen
    /\ gens' = gens + 1
    /\ tw' = gens + 1
    /\ writer' = [writer EXCEPT ![gens + 1] = "serve"]
    /\ UNCHANGED <<twMu, queue, cancelled, writing, callerVars, stopping>>

\* StopTrafficWriter up to the wait for done.  With nil state it returns.
StopCancel(k) ==
    /\ stopping[k] = 0
    /\ twMu = NoOne
    /\ tw # 0
    /\ cancelled' = [cancelled EXCEPT ![tw] = TRUE]
    /\ stopping' = [stopping EXCEPT ![k] = tw]
    /\ UNCHANGED <<twMu, tw, gens, queue, writer, writing, callerVars>>

\* Mutant: the state is not reset after the wait.
ClearedByNobody(k) == tw

\* StopTrafficWriter after the wait: a newer generation keeps its state.
ClearedBy(k) == IF tw = stopping[k] THEN 0 ELSE tw

StopReturn(k) ==
    /\ stopping[k] # 0
    /\ Closed(stopping[k])
    /\ twMu = NoOne
    /\ tw' = ClearedBy(k)
    /\ stopping' = [stopping EXCEPT ![k] = 0]
    /\ UNCHANGED <<twMu, gens, writerVars, callerVars>>

-----------------------------------------------------------------------------
(* The writer goroutine *)

\* Receive the next request and start to apply it, in either loop.
WriterTake(g) ==
    /\ writer[g] \in {"serve", "drain"}
    /\ writing[g] = NoOne
    /\ queue[g] # << >>
    /\ writing' = [writing EXCEPT ![g] = Head(queue[g])]
    /\ queue' = [queue EXCEPT ![g] = Tail(@)]
    /\ applied' = [applied EXCEPT ![Head(queue[g])] = @ + 1]
    /\ UNCHANGED <<twMu, tw, gens, cancelled, writer,
                   pc, gen, answer, result, stopping>>

\* safeApply returned: its error goes to req.done, which has room for it.
WriterAnswer(g) ==
    /\ writing[g] # NoOne
    /\ \E o \in Outcomes : answer' = [answer EXCEPT ![writing[g]] = o]
    /\ writing' = [writing EXCEPT ![g] = NoOne]
    /\ UNCHANGED <<twMu, tw, gens, queue, cancelled, writer,
                   pc, gen, result, applied, stopping>>

\* The outer select may take ctx.Done() even while requests are queued.
WriterSeesCancel(g) ==
    /\ writer[g] = "serve"
    /\ writing[g] = NoOne
    /\ cancelled[g]
    /\ writer' = [writer EXCEPT ![g] = "drain"]
    /\ UNCHANGED <<twMu, tw, gens, queue, cancelled, writing,
                   callerVars, stopping>>

\* Mutant: the drain loop is left with break, into the outer loop.
WriterBreak(g) ==
    /\ writer[g] = "drain"
    /\ writing[g] = NoOne
    /\ queue[g] = << >>
    /\ writer' = [writer EXCEPT ![g] = "serve"]
    /\ UNCHANGED <<twMu, tw, gens, queue, cancelled, writing,
                   callerVars, stopping>>

WriterExit(g) ==
    /\ writer[g] = "drain"
    /\ writing[g] = NoOne
    /\ queue[g] = << >>
    /\ writer' = [writer EXCEPT ![g] = "exited"]
    /\ UNCHANGED <<twMu, tw, gens, queue, cancelled, writing,
                   callerVars, stopping>>

-----------------------------------------------------------------------------
(* submitTrafficWrite *)

\* Mutant: the cancelled context is not looked at.
NoWriterState == tw = 0

\* No writer, or one that has been told to stop: the caller runs fn itself.
NoWriter == tw # 0 => cancelled[tw]

SubmitInline(c) ==
    /\ pc[c] = "idle"
    /\ twMu = NoOne
    /\ NoWriter
    /\ pc' = [pc EXCEPT ![c] = "inline"]
    /\ answer' = [answer EXCEPT ![c] = "none"]
    /\ result' = [result EXCEPT ![c] = "none"]
    /\ applied' = [applied EXCEPT ![c] = 1]
    /\ UNCHANGED <<twMu, tw, gens, writerVars, gen, stopping>>

InlineReturn(c) ==
    /\ pc[c] = "inline"
    /\ \E o \in Outcomes : result' = [result EXCEPT ![c] = o]
    /\ pc' = [pc EXCEPT ![c] = "idle"]
    /\ UNCHANGED <<twMu, tw, gens, writerVars, gen, answer, applied, stopping>>

\* The caller goes to the send without giving up twMu.
SubmitLock(c) ==
    /\ pc[c] = "idle"
    /\ twMu = NoOne
    /\ ~NoWriter
    /\ twMu' = c
    /\ gen' = [gen EXCEPT ![c] = tw]
    /\ pc' = [pc EXCEPT ![c] = "send"]
    /\ answer' = [answer EXCEPT ![c] = "none"]
    /\ result' = [result EXCEPT ![c] = "none"]
    /\ applied' = [applied EXCEPT ![c] = 0]
    /\ UNCHANGED <<tw, gens, writerVars, stopping>>

\* Mutant: one request more than the channel holds.
HasRoomOffByOne(g) == Len(queue[g]) <= QueueSize

HasRoom(g) == Len(queue[g]) < QueueSize

SubmitEnqueue(c) ==
    /\ pc[c] = "send"
    /\ HasRoom(gen[c])
    /\ queue' = [queue EXCEPT ![gen[c]] = Append(@, c)]
    /\ twMu' = NoOne
    /\ pc' = [pc EXCEPT ![c] = "wait"]
    /\ UNCHANGED <<tw, gens, cancelled, writer, writing,
                   gen, answer, result, applied, stopping>>

\* Mutant: the caller that gave up runs fn itself and still reports the error.
SubmitTimeoutInline(c) ==
    /\ pc[c] = "send"
    /\ ~HasRoom(gen[c])
    /\ twMu' = NoOne
    /\ pc' = [pc EXCEPT ![c] = "idle"]
    /\ result' = [result EXCEPT ![c] = "full"]
    /\ applied' = [applied EXCEPT ![c] = @ + 1]
    /\ UNCHANGED <<tw, gens, writerVars, gen, answer, stopping>>

\* A send that finds room is taken at once, so the timer fires on a full queue.
SubmitTimeout(c) ==
    /\ pc[c] = "send"
    /\ ~HasRoom(gen[c])
    /\ twMu' = NoOne
    /\ pc' = [pc EXCEPT ![c] = "idle"]
    /\ result' = [result EXCEPT ![c] = "full"]
    /\ UNCHANGED <<tw, gens, writerVars, gen, answer, applied, stopping>>

\* The caller has an answer, or done is closed; closing done is followed by a
\* second look at req.done, so an answer always wins.
Returned(c) == IF answer[c] # "none" THEN answer[c] ELSE "stopped"

SubmitReturn(c) ==
    /\ pc[c] = "wait"
    /\ answer[c] # "none" \/ Closed(gen[c])
    /\ pc' = [pc EXCEPT ![c] = "idle"]
    /\ result' = [result EXCEPT ![c] = Returned(c)]
    /\ UNCHANGED <<twMu, tw, gens, writerVars, gen, answer, applied, stopping>>

-----------------------------------------------------------------------------
Next ==
    \/ \E k \in Controllers :
          StartTrafficWriter(k) \/ StopCancel(k) \/ StopReturn(k)
    \/ \E g \in Gens :
          \/ WriterTake(g) \/ WriterAnswer(g)
          \/ WriterSeesCancel(g) \/ WriterExit(g)
    \/ \E c \in Callers :
          \/ SubmitInline(c) \/ InlineReturn(c) \/ SubmitLock(c)
          \/ SubmitEnqueue(c) \/ SubmitTimeout(c)
          \/ SubmitReturn(c)

Spec == Init /\ [][Next]_vars

\* The Go scheduler runs every goroutine that can run, and fn returns.  A
\* goroutine that waits for twMu gets it although others keep taking it:
\* sync.Mutex hands over to a waiter after a millisecond.
Fairness ==
    /\ \A g \in Gens :
          /\ WF_vars(WriterTake(g))
          /\ WF_vars(WriterAnswer(g))
          /\ WF_vars(WriterSeesCancel(g))
          /\ WF_vars(WriterExit(g))
    /\ \A c \in Callers :
          /\ WF_vars(SubmitEnqueue(c) \/ SubmitTimeout(c))
          /\ WF_vars(SubmitReturn(c))
          /\ WF_vars(InlineReturn(c))
    /\ \A k \in Controllers : SF_vars(StopReturn(k))

FairSpec == Spec /\ Fairness

-----------------------------------------------------------------------------
(* Properties *)

\* A write that entered the queue is never given up: submitTrafficWrite does
\* not return "traffic writer stopped before write completed", because the
\* send and the cancellation exclude each other and the writer drains its
\* queue between cancellation and the closing of done.
NoAcceptedWriteLost == \A c \in Callers : result[c] # "stopped"

\* The answer of submitTrafficWrite tells what happened: fn ran exactly once
\* when it returns fn's own outcome, not at all when the queue was full.
AppliedOnce ==
    \A c \in Callers : pc[c] = "idle" =>
        /\ result[c] \in Outcomes => applied[c] = 1
        /\ result[c] = "full" => applied[c] = 0

\* Start and stop in any order never leave two writer goroutines running.
Live(g) == writer[g] \in {"serve", "drain"}

OneWriter == \A g, h \in Gens : Live(g) /\ Live(h) => g = h

\* The package variables never point at a writer that is gone unless some
\* StopTrafficWriter is about to clear them: otherwise every later call would
\* queue behind a dead consumer, the deadlock the comment of
\* StartTrafficWriter describes.
NoDeadConsumer ==
    tw # 0 /\ Closed(tw) => \E k \in Controllers : stopping[k] = tw

\* Every call of submitTrafficWrite returns, even when it finds the queue full
\* or the writer is stopped under it; and StopTrafficWriter returns although
\* callers keep submitting.
CallsReturn ==
    /\ \A c \in Callers : pc[c] # "idle" ~> pc[c] = "idle"
    /\ \A k \in Controllers : stopping[k] # 0 ~> stopping[k] = 0
=============================================================================
