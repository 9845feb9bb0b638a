------------------------ MODULE TrafficWriterProofs ------------------------
(***************************************************************************)
(* Proofs about the serial traffic writer, for every number of callers,    *)
(* controllers, generations and every queue size.                          *)
(***************************************************************************)
EXTENDS TrafficWriter, SequenceTheorems, TLAPS

(***************************************************************************)
(* The inductive invariant.  Generations that do not exist yet are         *)
(* untouched; a goroutine drains only after cancellation and leaves an     *)
(* empty queue; the only goroutine that runs is the one the package        *)
(* variables name.                                                         *)
(***************************************************************************)
GenInv ==
    /\ tw <= gens
    /\ \A g \in Gens :
          /\ writer[g] = "none" <=> g > gens
          /\ writer[g] = "none" => ~cancelled[g]
          /\ writer[g] \in {"drain", "exited"} => cancelled[g]
          /\ ~Live(g) => queue[g] = << >> /\ writing[g] = NoOne
          /\ Live(g) => tw = g

StopInv == tw # 0 /\ cancelled[tw] => \E k \in Controllers : stopping[k] = tw

\* A caller at the send holds twMu, so its generation cannot be cancelled.
SendInv ==
    /\ twMu # NoOne => pc[twMu] = "send"
    /\ \A c \in Callers : pc[c] = "send" =>
          /\ twMu = c
          /\ gen[c] = tw
          /\ tw # 0
          /\ ~cancelled[tw]
          /\ answer[c] = "none"
          /\ applied[c] = 0

Elements(q) == {q[i] : i \in 1 .. Len(q)}

Distinct(q) == \A i, j \in 1 .. Len(q) : q[i] = q[j] => i = j

\* A request is in the queue or in the writer's hands exactly as long as its
\* caller waits for the answer.
QueueInv ==
    \A g \in Gens :
       /\ Distinct(queue[g])
       /\ Elements(queue[g]) \subseteq Callers
       /\ \A c \in Elements(queue[g]) :
             pc[c] = "wait" /\ gen[c] = g /\ answer[c] = "none" /\ applied[c] = 0
       /\ writing[g] # NoOne =>
             /\ pc[writing[g]] = "wait"
             /\ gen[writing[g]] = g
             /\ answer[writing[g]] = "none"
             /\ applied[writing[g]] = 1

WaitInv ==
    \A c \in Callers :
       /\ pc[c] = "wait" =>
             /\ gen[c] \in Gens
             /\ answer[c] = "none" =>
                   c \in Elements(queue[gen[c]]) \/ writing[gen[c]] = c
             /\ answer[c] # "none" => applied[c] = 1
       /\ pc[c] = "inline" => applied[c] = 1

IInv ==
    /\ TypeOK /\ GenInv /\ StopInv /\ SendInv /\ QueueInv /\ WaitInv
    /\ NoAcceptedWriteLost /\ AppliedOnce

-----------------------------------------------------------------------------
\* What receiving from a non-empty queue leaves: every request but the oldest.
LEMMA TakeFromQueue ==
    ASSUME NEW S, NEW q \in Seq(S), q # << >>, Distinct(q)
    PROVE  /\ Head(q) \in Elements(q)
           /\ Tail(q) \in Seq(S)
           /\ Len(Tail(q)) \in Nat
           /\ Len(Tail(q)) <= Len(q)
           /\ Elements(Tail(q)) = Elements(q) \ {Head(q)}
           /\ Distinct(Tail(q))
<1>1. /\ Len(q) \in Nat \ {0}
      /\ Head(q) = q[1]
      /\ Tail(q) \in Seq(S)
      /\ Len(Tail(q)) = Len(q) - 1
      /\ \A i \in 1 .. Len(q) - 1 : Tail(q)[i] = q[i + 1]
    BY HeadTailProperties, EmptySeq, LenProperties
<1>2. Head(q) \in Elements(q)
    BY <1>1 DEF Elements
<1>3. ASSUME NEW x \in Elements(Tail(q)) PROVE x \in Elements(q) \ {Head(q)}
  <2>1. PICK i \in 1 .. Len(q) - 1 : x = q[i + 1]
      BY <1>1, <1>3 DEF Elements
  <2>2. i + 1 \in 1 .. Len(q) /\ i + 1 # 1
      BY <1>1
  <2> QED
      BY <1>1, <2>1, <2>2 DEF Elements, Distinct
<1>4. ASSUME NEW x \in Elements(q) \ {Head(q)} PROVE x \in Elements(Tail(q))
  <2>1. PICK i \in 1 .. Len(q) : x = q[i]
      BY <1>4 DEF Elements
  <2>2. i - 1 \in 1 .. Len(q) - 1 /\ Tail(q)[i - 1] = x
      BY <1>1, <1>4, <2>1
  <2> QED
      BY <1>1, <2>2, Zenon DEF Elements
<1>5. Distinct(Tail(q))
  <2> SUFFICES ASSUME NEW i \in 1 .. Len(q) - 1, NEW j \in 1 .. Len(q) - 1,
                      Tail(q)[i] = Tail(q)[j]
               PROVE  i = j
      BY <1>1 DEF Distinct
  <2>1. i + 1 \in 1 .. Len(q) /\ j + 1 \in 1 .. Len(q) /\ q[i + 1] = q[j + 1]
      BY <1>1
  <2> QED
      BY <2>1 DEF Distinct
<1> QED
    BY <1>1, <1>2, <1>3, <1>4, <1>5

\* What sending to a queue adds: the request sent.
LEMMA SendToQueue ==
    ASSUME NEW S, NEW q \in Seq(S), NEW x \in S, Distinct(q), x \notin Elements(q)
    PROVE  /\ Append(q, x) \in Seq(S)
           /\ Len(Append(q, x)) = Len(q) + 1
           /\ Elements(Append(q, x)) = Elements(q) \cup {x}
           /\ Distinct(Append(q, x))
<1>1. /\ Len(q) \in Nat
      /\ Append(q, x) \in Seq(S)
      /\ Len(Append(q, x)) = Len(q) + 1
      /\ \A i \in 1 .. Len(q) : Append(q, x)[i] = q[i]
      /\ Append(q, x)[Len(q) + 1] = x
    BY AppendProperties, LenProperties
<1>2. \A i \in 1 .. Len(q) + 1 : i \in 1 .. Len(q) \/ i = Len(q) + 1
    BY <1>1
<1>3. Elements(Append(q, x)) = Elements(q) \cup {x}
    BY <1>1, <1>2 DEF Elements
<1>4. Distinct(Append(q, x))
    BY <1>1, <1>2 DEF Distinct, Elements
<1> QED
    BY <1>1, <1>3, <1>4

(* The invariant holds before the first writer starts.                      *)
LEMMA InitIInv == Init => IInv
<1> SUFFICES ASSUME Init PROVE IInv
    OBVIOUS
<1> USE DEF Init, Gens
<1>1. TypeOK
    BY EmptySeq, QueueSizeAssumption, MaxGenAssumption DEF TypeOK, Outcomes
<1>2. GenInv
    BY MaxGenAssumption DEF GenInv, Live
<1>3. StopInv /\ SendInv
    BY DEF StopInv, SendInv
<1>4. QueueInv /\ WaitInv
    BY DEF QueueInv, WaitInv, Elements, Distinct
<1>5. NoAcceptedWriteLost /\ AppliedOnce
    BY DEF NoAcceptedWriteLost, AppliedOnce, Outcomes
<1> QED
    BY <1>1, <1>2, <1>3, <1>4, <1>5 DEF IInv

\* A step that changes nothing keeps the invariant.
LEMMA StutterIInv ==
    ASSUME IInv, UNCHANGED vars PROVE IInv'
<1> USE DEF vars
<1>1. TypeOK'
  BY DEF IInv, TypeOK
<1>2. GenInv' /\ StopInv'
  BY DEF IInv, GenInv, StopInv, Live
<1>3. SendInv'
  BY DEF IInv, SendInv
<1>4. QueueInv'
  BY DEF IInv, QueueInv
<1>5. WaitInv'
  BY DEF IInv, WaitInv
<1>6. NoAcceptedWriteLost' /\ AppliedOnce'
  BY DEF IInv, NoAcceptedWriteLost, AppliedOnce
<1> QED
  BY <1>1, <1>2, <1>3, <1>4, <1>5, <1>6 DEF IInv

\* Every step of the writer, of its callers and of its controllers keeps the
\* invariant.
LEMMA NextIInv == IInv /\ [Next]_vars => IInv'
<1> SUFFICES ASSUME IInv, [Next]_vars PROVE IInv'
    OBVIOUS
<1> USE QueueSizeAssumption, MaxGenAssumption, NoOneAssumption
<1> USE DEF Gens, Outcomes, writerVars, callerVars
<1>1. ASSUME NEW k \in Controllers, StartTrafficWriter(k) PROVE IInv'
  <2> USE <1>1 DEF StartTrafficWriter, MayStart, Closed
  <2>1. TypeOK'
      BY DEF IInv, TypeOK
  <2>2. GenInv'
    <3>1. ASSUME NEW h \in Gens PROVE ~Live(h)
      <4>1. Live(h) => tw = h
          BY DEF IInv, GenInv
      <4>2. tw = h => writer[h] = "exited"
          OBVIOUS
      <4> QED
          BY <4>1, <4>2 DEF Live
    <3>2. /\ gens + 1 \in Gens
          /\ writer' = [writer EXCEPT ![gens + 1] = "serve"]
          /\ \A h \in Gens : h > gens + 1 <=> h > gens /\ h # gens + 1
        BY DEF IInv, TypeOK
    <3> QED
        BY <3>1, <3>2 DEF IInv, TypeOK, GenInv, Live
  <2>3. StopInv'
      BY DEF IInv, TypeOK, GenInv, StopInv
  <2>4. SendInv'
      BY DEF IInv, TypeOK, SendInv
  <2>5. QueueInv'
      BY DEF IInv, TypeOK, QueueInv
  <2>6. WaitInv'
      BY DEF IInv, TypeOK, WaitInv
  <2>7. NoAcceptedWriteLost' /\ AppliedOnce'
      BY DEF IInv, TypeOK, NoAcceptedWriteLost, AppliedOnce
  <2> QED
      BY <2>1, <2>2, <2>3, <2>4, <2>5, <2>6, <2>7 DEF IInv
<1>2. ASSUME NEW k \in Controllers, StopCancel(k) PROVE IInv'
  <2> USE <1>2 DEF StopCancel
  <2>1. TypeOK'
      BY DEF IInv, TypeOK
  <2>2. GenInv'
      BY DEF IInv, TypeOK, GenInv, Live
  <2>3. StopInv'
      BY DEF IInv, TypeOK, StopInv
  <2>4. SendInv'
      BY DEF IInv, TypeOK, SendInv
  <2>5. QueueInv'
      BY DEF IInv, TypeOK, QueueInv
  <2>6. WaitInv'
      BY DEF IInv, TypeOK, WaitInv
  <2>7. NoAcceptedWriteLost' /\ AppliedOnce'
      BY DEF IInv, TypeOK, NoAcceptedWriteLost, AppliedOnce
  <2> QED
      BY <2>1, <2>2, <2>3, <2>4, <2>5, <2>6, <2>7 DEF IInv
<1>3. ASSUME NEW k \in Controllers, StopReturn(k) PROVE IInv'
  <2> USE <1>3 DEF StopReturn, ClearedBy, Closed
  <2>1. TypeOK'
      BY DEF IInv, TypeOK
  <2>2. GenInv'
      BY DEF IInv, TypeOK, GenInv, Live
  <2>3. StopInv'
      BY DEF IInv, TypeOK, StopInv
  <2>4. SendInv'
      BY DEF IInv, TypeOK, SendInv
  <2>5. QueueInv'
      BY DEF IInv, TypeOK, QueueInv
  <2>6. WaitInv'
      BY DEF IInv, TypeOK, WaitInv
  <2>7. NoAcceptedWriteLost' /\ AppliedOnce'
      BY DEF IInv, TypeOK, NoAcceptedWriteLost, AppliedOnce
  <2> QED
      BY <2>1, <2>2, <2>3, <2>4, <2>5, <2>6, <2>7 DEF IInv
<1>4. ASSUME NEW g \in Gens, WriterTake(g) PROVE IInv'
  <2> DEFINE q == queue[g]
             x == Head(q)
  <2>a. /\ x \in Elements(q)
        /\ Tail(q) \in Seq(Callers)
        /\ Len(Tail(q)) \in Nat
        /\ Len(Tail(q)) <= Len(q)
        /\ Elements(Tail(q)) = Elements(q) \ {x}
        /\ Distinct(Tail(q))
      BY <1>4, TakeFromQueue DEF WriterTake, IInv, TypeOK, QueueInv
  <2>b. /\ queue' = [queue EXCEPT ![g] = Tail(q)]
        /\ writing' = [writing EXCEPT ![g] = x]
        /\ applied' = [applied EXCEPT ![x] = @ + 1]
        /\ UNCHANGED <<twMu, tw, gens, cancelled, writer,
                       pc, gen, answer, result, stopping>>
        /\ Live(g)
        /\ writing[g] = NoOne
      BY <1>4 DEF WriterTake, Live
  <2>c. /\ x \in Callers
        /\ pc[x] = "wait"
        /\ gen[x] = g
        /\ answer[x] = "none"
        /\ applied[x] = 0
      BY <2>a DEF IInv, QueueInv
  <2>d. /\ Elements(queue'[g]) = Elements(queue[g]) \ {x}
        /\ Distinct(queue'[g])
        /\ \A h \in Gens \ {g} : queue'[h] = queue[h]
      BY <2>a, <2>b, Zenon DEF IInv, TypeOK
  <2>1. TypeOK'
    <3> HIDE DEF x
    <3>1. Len(queue[g]) \in Nat
        BY LenProperties DEF IInv, TypeOK
    <3>2. Tail(q) \in Seq(Callers) /\ Len(Tail(q)) <= QueueSize
        BY <3>1, <2>a, QueueSizeAssumption DEF IInv, TypeOK
    <3> HIDE DEF q
    <3>3. queue' \in [Gens -> Seq(Callers)] /\ \A h \in Gens : Len(queue'[h]) <= QueueSize
        BY <3>2, <2>b, Zenon DEF IInv, TypeOK
    <3>4. writing' \in [Gens -> Callers \cup {NoOne}]
        BY <2>b, <2>c DEF IInv, TypeOK
    <3>5. applied' \in [Callers -> Nat]
        BY <2>b, <2>c DEF IInv, TypeOK
    <3> QED
        BY <3>3, <3>4, <3>5, <2>b, Zenon DEF IInv, TypeOK
  <2> HIDE DEF q, x
  <2>2. GenInv'
      BY <2>b, <2>d DEF IInv, TypeOK, GenInv, Live
  <2>3. StopInv'
      BY <2>b DEF IInv, TypeOK, StopInv
  <2>4. SendInv'
      BY <2>b, <2>c DEF IInv, TypeOK, SendInv
  <2>5. QueueInv'
      BY <2>b, <2>c, <2>d DEF IInv, TypeOK, QueueInv
  <2>6. WaitInv'
      BY <2>b, <2>c, <2>d DEF IInv, TypeOK, WaitInv
  <2>7. NoAcceptedWriteLost' /\ AppliedOnce'
      BY <2>b, <2>c DEF IInv, TypeOK, NoAcceptedWriteLost, AppliedOnce
  <2> QED
      BY <2>1, <2>2, <2>3, <2>4, <2>5, <2>6, <2>7 DEF IInv
<1>5. ASSUME NEW g \in Gens, WriterAnswer(g) PROVE IInv'
  <2> USE <1>5 DEF WriterAnswer
  <2>1. TypeOK'
      BY Zenon DEF IInv, TypeOK
  <2>2. GenInv'
      BY DEF IInv, TypeOK, GenInv, Live
  <2>3. StopInv'
      BY DEF IInv, TypeOK, StopInv
  <2>4. SendInv'
      BY DEF IInv, TypeOK, SendInv, QueueInv
  <2>5. QueueInv'
      BY DEF IInv, TypeOK, QueueInv
  <2>6. WaitInv'
      BY DEF IInv, TypeOK, QueueInv, WaitInv
  <2>7. NoAcceptedWriteLost' /\ AppliedOnce'
      BY DEF IInv, TypeOK, NoAcceptedWriteLost, AppliedOnce
  <2> QED
      BY <2>1, <2>2, <2>3, <2>4, <2>5, <2>6, <2>7 DEF IInv
<1>6. ASSUME NEW g \in Gens, WriterSeesCancel(g) PROVE IInv'
  <2> USE <1>6 DEF WriterSeesCancel
  <2>1. TypeOK'
      BY DEF IInv, TypeOK
  <2>2. GenInv'
      BY DEF IInv, TypeOK, GenInv, Live
  <2>3. StopInv'
      BY DEF IInv, TypeOK, StopInv
  <2>4. SendInv'
      BY DEF IInv, TypeOK, SendInv
  <2>5. QueueInv'
      BY DEF IInv, TypeOK, QueueInv
  <2>6. WaitInv'
      BY DEF IInv, TypeOK, WaitInv
  <2>7. NoAcceptedWriteLost' /\ AppliedOnce'
      BY DEF IInv, TypeOK, NoAcceptedWriteLost, AppliedOnce
  <2> QED
      BY <2>1, <2>2, <2>3, <2>4, <2>5, <2>6, <2>7 DEF IInv
<1>7. ASSUME NEW g \in Gens, WriterExit(g) PROVE IInv'
  <2> USE <1>7 DEF WriterExit
  <2>1. TypeOK'
      BY Zenon DEF IInv, TypeOK
  <2>2. GenInv'
      BY Zenon DEF IInv, TypeOK, GenInv, Live
  <2>3. StopInv'
      BY DEF IInv, TypeOK, StopInv
  <2>4. SendInv'
      BY DEF IInv, TypeOK, SendInv
  <2>5. QueueInv'
      BY DEF IInv, QueueInv
  <2>6. WaitInv'
      BY Zenon DEF IInv, TypeOK, WaitInv
  <2>7. NoAcceptedWriteLost' /\ AppliedOnce'
      BY DEF IInv, TypeOK, NoAcceptedWriteLost, AppliedOnce
  <2> QED
      BY <2>1, <2>2, <2>3, <2>4, <2>5, <2>6, <2>7 DEF IInv
<1>8. ASSUME NEW c \in Callers, SubmitInline(c) PROVE IInv'
  <2> USE <1>8 DEF SubmitInline, NoWriter
  <2>1. TypeOK'
      BY DEF IInv, TypeOK
  <2>2. GenInv'
      BY DEF IInv, TypeOK, GenInv, Live
  <2>3. StopInv'
      BY DEF IInv, TypeOK, StopInv
  <2>4. SendInv'
      BY DEF IInv, TypeOK, SendInv
  <2>5. QueueInv'
      BY DEF IInv, TypeOK, QueueInv
  <2>6. WaitInv'
      BY DEF IInv, TypeOK, WaitInv
  <2>7. NoAcceptedWriteLost' /\ AppliedOnce'
      BY DEF IInv, TypeOK, NoAcceptedWriteLost, AppliedOnce
  <2> QED
      BY <2>1, <2>2, <2>3, <2>4, <2>5, <2>6, <2>7 DEF IInv
<1>9. ASSUME NEW c \in Callers, InlineReturn(c) PROVE IInv'
  <2> USE <1>9 DEF InlineReturn
  <2>1. TypeOK'
      BY DEF IInv, TypeOK
  <2>2. GenInv'
      BY DEF IInv, TypeOK, GenInv, Live
  <2>3. StopInv'
      BY DEF IInv, TypeOK, StopInv
  <2>4. SendInv'
      BY DEF IInv, TypeOK, SendInv
  <2>5. QueueInv'
      BY DEF IInv, TypeOK, QueueInv
  <2>6. WaitInv'
      BY DEF IInv, TypeOK, WaitInv
  <2>7. NoAcceptedWriteLost' /\ AppliedOnce'
      BY DEF IInv, TypeOK, WaitInv, NoAcceptedWriteLost, AppliedOnce
  <2> QED
      BY <2>1, <2>2, <2>3, <2>4, <2>5, <2>6, <2>7 DEF IInv
<1>10. ASSUME NEW c \in Callers, SubmitLock(c) PROVE IInv'
  <2> USE <1>10 DEF SubmitLock, NoWriter
  <2>1. TypeOK'
      BY DEF IInv, TypeOK
  <2>2. GenInv'
      BY DEF IInv, TypeOK, GenInv, Live
  <2>3. StopInv'
      BY DEF IInv, TypeOK, StopInv
  <2>4. SendInv'
      BY DEF IInv, TypeOK, SendInv
  <2>5. QueueInv'
      BY DEF IInv, TypeOK, QueueInv
  <2>6. WaitInv'
      BY DEF IInv, TypeOK, WaitInv
  <2>7. NoAcceptedWriteLost' /\ AppliedOnce'
      BY DEF IInv, TypeOK, NoAcceptedWriteLost, AppliedOnce
  <2> QED
      BY <2>1, <2>2, <2>3, <2>4, <2>5, <2>6, <2>7 DEF IInv
<1>11. ASSUME NEW c \in Callers, SubmitEnqueue(c) PROVE IInv'
  <2> DEFINE g == gen[c]
             q == queue[g]
  <2>a. /\ twMu = c
        /\ g \in Gens
        /\ g = tw
        /\ Live(g)
        /\ answer[c] = "none"
        /\ applied[c] = 0
      BY <1>11 DEF SubmitEnqueue, IInv, TypeOK, SendInv, GenInv, Live
  <2>b. /\ queue' = [queue EXCEPT ![g] = Append(q, c)]
        /\ Len(q) < QueueSize
        /\ twMu' = NoOne
        /\ pc[c] = "send"
        /\ pc' = [pc EXCEPT ![c] = "wait"]
        /\ UNCHANGED <<tw, gens, cancelled, writer, writing,
                       gen, answer, result, applied, stopping>>
      BY <1>11 DEF SubmitEnqueue, HasRoom
  <2>c. \A h \in Gens : c \notin Elements(queue[h]) /\ writing[h] # c
      BY <2>b DEF IInv, QueueInv
  <2>d. /\ Append(q, c) \in Seq(Callers)
        /\ Len(Append(q, c)) = Len(q) + 1
        /\ Elements(Append(q, c)) = Elements(q) \cup {c}
        /\ Distinct(Append(q, c))
      BY <2>a, <2>c, SendToQueue DEF IInv, TypeOK, QueueInv
  <2>e. /\ Elements(queue'[g]) = Elements(queue[g]) \cup {c}
        /\ Distinct(queue'[g])
        /\ \A h \in Gens \ {g} : queue'[h] = queue[h]
      BY <2>a, <2>b, <2>d DEF IInv, TypeOK
  <2>1. TypeOK'
    <3>1. Len(q) \in Nat
        BY <2>a, LenProperties DEF IInv, TypeOK
    <3> HIDE DEF g
    <3> QED
        BY <3>1, <2>a, <2>b, <2>d DEF IInv, TypeOK
  <2> HIDE DEF q
  <2>2. GenInv'
      BY <2>a, <2>b, <2>e DEF IInv, TypeOK, GenInv, Live
  <2>3. StopInv'
      BY <2>b DEF IInv, StopInv
  <2>4. SendInv'
      BY <2>a, <2>b DEF IInv, TypeOK, SendInv
  <2>5. QueueInv'
      BY <2>a, <2>b, <2>c, <2>e DEF IInv, TypeOK, QueueInv
  <2>6. WaitInv'
      BY <2>a, <2>b, <2>e DEF IInv, TypeOK, WaitInv
  <2>7. NoAcceptedWriteLost' /\ AppliedOnce'
      BY <2>b DEF IInv, TypeOK, NoAcceptedWriteLost, AppliedOnce
  <2> QED
      BY <2>1, <2>2, <2>3, <2>4, <2>5, <2>6, <2>7 DEF IInv
<1>12. ASSUME NEW c \in Callers, SubmitTimeout(c) PROVE IInv'
  <2> USE <1>12 DEF SubmitTimeout, HasRoom
  <2>1. TypeOK'
      BY Zenon DEF IInv, TypeOK
  <2>2. GenInv'
      BY DEF IInv, TypeOK, GenInv, Live
  <2>3. StopInv'
      BY DEF IInv, TypeOK, StopInv
  <2>4. SendInv'
      BY DEF IInv, TypeOK, SendInv
  <2>5. QueueInv'
      BY DEF IInv, TypeOK, QueueInv
  <2>6. WaitInv'
      BY DEF IInv, TypeOK, WaitInv
  <2>7. NoAcceptedWriteLost' /\ AppliedOnce'
      BY DEF IInv, TypeOK, SendInv, NoAcceptedWriteLost, AppliedOnce
  <2> QED
      BY <2>1, <2>2, <2>3, <2>4, <2>5, <2>6, <2>7 DEF IInv
<1>13. ASSUME NEW c \in Callers, SubmitReturn(c) PROVE IInv'
  <2> USE <1>13 DEF SubmitReturn, Returned
  <2>a. answer[c] # "none"
    <3> SUFFICES ASSUME answer[c] = "none" PROVE FALSE
        OBVIOUS
    <3>1. /\ gen[c] \in Gens
          /\ c \in Elements(queue[gen[c]]) \/ writing[gen[c]] = c
        BY DEF IInv, WaitInv
    <3>2. queue[gen[c]] = << >> /\ writing[gen[c]] = NoOne
        BY <3>1 DEF Closed, IInv, GenInv, Live
    <3> QED
        BY <3>1, <3>2 DEF Elements
  <2>1. TypeOK'
      BY DEF IInv, TypeOK
  <2>2. GenInv'
      BY DEF IInv, TypeOK, GenInv, Live
  <2>3. StopInv'
      BY DEF IInv, TypeOK, StopInv
  <2>4. SendInv'
      BY DEF IInv, TypeOK, SendInv
  <2>5. QueueInv'
      BY <2>a DEF IInv, TypeOK, QueueInv
  <2>6. WaitInv'
      BY DEF IInv, TypeOK, WaitInv
  <2>7. NoAcceptedWriteLost' /\ AppliedOnce'
      BY <2>a DEF IInv, TypeOK, WaitInv, NoAcceptedWriteLost, AppliedOnce
  <2> QED
      BY <2>1, <2>2, <2>3, <2>4, <2>5, <2>6, <2>7 DEF IInv
<1>14. CASE UNCHANGED vars
    BY <1>14, StutterIInv
<1> QED
    BY <1>1, <1>2, <1>3, <1>4, <1>5, <1>6, <1>7, <1>8, <1>9, <1>10, <1>11, <1>12, <1>13, <1>14
       DEF Next

\* The invariant holds in every reachable state.
THEOREM WriterInvariant == Spec => []IInv
<1>1. Init => IInv
    BY InitIInv
<1>2. IInv /\ [Next]_vars => IInv'
    BY NextIInv
<1> QED
    BY <1>1, <1>2, PTL DEF Spec

\* The variables keep their types and the queue its capacity, whatever the
\* numbers of callers, controllers and generations and the queue size.
THEOREM TypeCorrect == Spec => []TypeOK
    BY WriterInvariant, PTL DEF IInv

\* submitTrafficWrite never answers "traffic writer stopped before write
\* completed": a request that was queued is applied and answered.
THEOREM AcceptedWritesAreKept == Spec => []NoAcceptedWriteLost
    BY WriterInvariant, PTL DEF IInv

\* fn runs exactly once when its outcome is returned, not at all when the
\* queue was full.
THEOREM AppliedExactlyOnce == Spec => []AppliedOnce
    BY WriterInvariant, PTL DEF IInv

\* Two writer goroutines never run at once, for any order of starts and stops.
THEOREM SingleWriter == Spec => []OneWriter
<1>1. IInv => OneWriter
    BY DEF IInv, GenInv, OneWriter
<1> QED
    BY <1>1, WriterInvariant, PTL

\* The package variables name a writer that has returned only while some
\* StopTrafficWriter is on its way to clear them.
THEOREM ConsumerAlive == Spec => []NoDeadConsumer
<1>1. IInv => NoDeadConsumer
    BY DEF IInv, TypeOK, GenInv, StopInv, NoDeadConsumer, Closed, Gens
<1> QED
    BY <1>1, WriterInvariant, PTL

=============================================================================
