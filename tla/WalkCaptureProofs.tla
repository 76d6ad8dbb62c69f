-------------------------- MODULE WalkCaptureProofs --------------------------
(***************************************************************************)
(* Theorems about WalkCapture for any number of handler threads, requests  *)
(* and printed lines.                                                      *)
(***************************************************************************)
EXTENDS WalkCapture, SequenceTheorems, TLAPS

\* A thread walks under its own name; a request under way is one of Walks.
NameInv == \A t \in Threads : /\ walk[t][1] = t
                              /\ pc[t] # "idle" => walk[t] \in Walks

\* A buffer that is not handed out yet is empty, and nothing points to it.
Ahead(w) == w[2] > walk[w[1]][2]
FreshInv == \A w \in Walks : Ahead(w) =>
              /\ text[w] = <<>> /\ stdout # w
              /\ \A u \in Threads : saved[u] # w

\* A walk that overlapped with none so far is alone in the server.
AloneInv == \A t, u \in Threads : Busy(t) /\ alone[t] /\ Busy(u) => u = t

\* What the buffer and the response of such a walk hold.
BufferInv == \A t \in Threads : alone[t] =>
  /\ pc[t] \in {"enter", "swap"} => ~raised[t] /\ no[t] = 0 /\ text[walk[t]] = <<>>
  /\ pc[t] = "print" => ~raised[t] /\ stdout = walk[t] /\ text[walk[t]] = Output(t)
  /\ pc[t] \in {"exit", "reply"} => text[walk[t]] = Output(t)
  /\ pc[t] = "replied" => reply[t] = Output(t)

\* Without overlap sys.stdout is the console outside of the redirection, and the
\* redirection remembers it.
ConsoleInv == ~overlapped =>
  /\ \A t, u \in Threads : Busy(t) /\ Busy(u) => t = u
  /\ (\A t \in Threads : pc[t] \notin {"print", "exit"}) => stdout = Console
  /\ \A t \in Threads : pc[t] \in {"swap", "print", "exit"} => saved[t] = Console

IInv == TypeOK /\ NameInv /\ FreshInv /\ AloneInv /\ BufferInv /\ ConsoleInv
------------------------------------------------------------------------------
LEMMA LinesType == Lines \in Nat /\ MaxWalks \in Nat
BY WalkAssumption

LEMMA WalkParts == ASSUME NEW w \in Walks
                   PROVE  /\ w[1] \in Threads /\ w[2] \in 1..MaxWalks /\ w = <<w[1], w[2]>>
                          /\ w \in Sinks /\ w # Console
BY ConsoleAssumption DEF Walks, Sinks

\* A request under way has a buffer, and its lines are lines.
LEMMA WalkUnderWay == ASSUME IInv, NEW t \in Threads, pc[t] # "idle"
                      PROVE  /\ walk[t] \in Walks /\ walk[t] \in Sinks
                             /\ walk[t][1] = t /\ ~Ahead(walk[t])
<1>1. walk[t] \in Walks /\ walk[t][1] = t
  BY DEF IInv, NameInv
<1>2. walk[t][2] \in Nat
  BY <1>1, WalkParts, LinesType
<1> QED
  BY <1>1, <1>2, WalkParts DEF Ahead

\* One more line printed is the staged output one line longer.
LEMMA OneMoreLine ==
  ASSUME NEW w, NEW n \in Nat
  PROVE  Append([i \in 1..n |-> [walk |-> w, no |-> i]], [walk |-> w, no |-> n + 1])
           = [i \in 1..(n+1) |-> [walk |-> w, no |-> i]]
<1> DEFINE S == {[walk |-> w, no |-> i] : i \in Nat}
           a == [i \in 1..n |-> [walk |-> w, no |-> i]]
           b == [i \in 1..(n+1) |-> [walk |-> w, no |-> i]]
           e == [walk |-> w, no |-> n + 1]
<1>1. a \in Seq(S) /\ Len(a) = n
  <2>1. \A i \in 1..n : a[i] \in S
    OBVIOUS
  <2> QED
    BY <2>1
<1>2. b \in Seq(S) /\ Len(b) = n + 1
  <2>1. \A i \in 1..(n+1) : b[i] \in S
    OBVIOUS
  <2> QED
    BY <2>1
<1>3. e \in S
  OBVIOUS
<1> DEFINE c == Append(a, e)
<1>4. c \in Seq(S) /\ Len(c) = n + 1 /\ c[n+1] = e /\ \A i \in 1..n : c[i] = a[i]
  <2> HIDE DEF a, S, e
  <2> QED
    BY <1>1, <1>3, AppendProperties
<1>5. \A i \in 1..(n+1) : c[i] = b[i]
  <2> SUFFICES ASSUME NEW i \in 1..(n+1) PROVE c[i] = b[i]
    OBVIOUS
  <2>1. CASE i = n + 1
    <3>1. b[i] = e
      BY <2>1
    <3> HIDE DEF b, c, e
    <3> QED
      BY <2>1, <3>1, <1>4
  <2>2. CASE i # n + 1
    <3>1. i \in 1..n /\ a[i] = b[i]
      BY <2>2
    <3> HIDE DEF a, b, c
    <3> QED
      BY <3>1, <1>4
  <2> QED
    BY <2>1, <2>2
<1>6. c = b
  <2> HIDE DEF a, b, c, e, S
  <2> QED
    BY <1>2, <1>4, <1>5, SeqEqual
<1> QED
  BY <1>6

LEMMA NothingStaged == ASSUME NEW w PROVE [i \in 1..0 |-> [walk |-> w, no |-> i]] = <<>>
OBVIOUS

\* The output of a walk depends on the state of its own thread only.
LEMMA OutputFrame ==
  ASSUME NEW t, walk'[t] = walk[t], no'[t] = no[t], raised'[t] = raised[t]
  PROVE  Output(t)' = Output(t)
BY DEF Output, Staged

------------------------------------------------------------------------------
LEMMA InitIInv == Init => IInv
<1> SUFFICES ASSUME Init PROVE IInv
  OBVIOUS
<1>1. TypeOK
  <2>1. <<>> \in Seq(Line)
    OBVIOUS
  <2>2. \A t \in Threads : <<t, 0>> \in Threads \X (0..MaxWalks)
    BY LinesType
  <2>3. text \in [Sinks -> Seq(Line)] /\ reply \in [Threads -> Seq(Line)]
    BY <2>1 DEF Init
  <2>4. no \in [Threads -> 0..Lines] /\ walk \in [Threads -> Threads \X (0..MaxWalks)]
    BY <2>2, LinesType DEF Init
  <2> QED
    BY <2>3, <2>4 DEF Init, TypeOK, Sinks, Steps
<1>2. NameInv
  BY DEF Init, NameInv
<1>3. FreshInv
  BY WalkParts DEF Init, FreshInv
<1>4. AloneInv /\ BufferInv
  BY DEF Init, AloneInv, BufferInv, Busy
<1>5. ConsoleInv
  BY DEF Init, ConsoleInv, Busy
<1> QED
  BY <1>1, <1>2, <1>3, <1>4, <1>5 DEF IInv

\* Writing a line of a walk under way keeps the sinks well-typed.
LEMMA WriteType == ASSUME IInv, NEW t \in Threads, pc[t] # "idle",
                          NEW sink \in Sinks, NEW n \in 0..Lines, Write(sink, t, n)
                   PROVE  text' \in [Sinks -> Seq(Line)]
<1>1. [walk |-> walk[t], no |-> n] \in Line
  BY WalkUnderWay DEF Line
<1>2. text[sink] \in Seq(Line)
  BY DEF IInv, TypeOK
<1>3. Append(text[sink], [walk |-> walk[t], no |-> n]) \in Seq(Line)
  BY <1>1, <1>2, AppendProperties
<1> QED
  BY <1>3 DEF Write, IInv, TypeOK

LEMMA TypeStep == ASSUME IInv, [Next]_vars PROVE TypeOK'
<1> USE DEF IInv, TypeOK, Goto
<1>1. ASSUME NEW t \in Threads, Request(t) PROVE TypeOK'
  <2>1. walk[t] \in Threads \X (0..MaxWalks) /\ walk[t][2] \in Nat /\ walk[t][2] < MaxWalks
    BY <1>1, LinesType DEF Request
  <2>2. <<t, walk[t][2] + 1>> \in Threads \X (0..MaxWalks)
    BY <2>1, LinesType
  <2>3. walk' \in [Threads -> Threads \X (0..MaxWalks)]
    BY <1>1, <2>2 DEF Request
  <2>4. pc' \in [Threads -> Steps] /\ no' \in [Threads -> 0..Lines]
    BY <1>1, LinesType DEF Request, Steps
  <2>5. raised' \in [Threads -> BOOLEAN]
    BY <1>1 DEF Request
  <2>6. alone' \in [Threads -> BOOLEAN] /\ overlapped' \in BOOLEAN
    BY <1>1, Zenon DEF Request, Busy
  <2> QED
    BY <1>1, <2>3, <2>4, <2>5, <2>6 DEF Request
<1>2. ASSUME NEW t \in Threads, SaveTarget(t) PROVE TypeOK'
  BY <1>2 DEF SaveTarget, Steps
<1>3. ASSUME NEW t \in Threads, SetTarget(t) PROVE TypeOK'
  <2>1. walk[t] \in Sinks
    BY <1>3, WalkUnderWay DEF SetTarget
  <2> QED
    BY <1>3, <2>1 DEF SetTarget, Steps
<1>4. ASSUME NEW t \in Threads, PrintLine(t) PROVE TypeOK'
  <2>1. no[t] + 1 \in 0..Lines
    BY <1>4, LinesType DEF PrintLine
  <2>2. text' \in [Sinks -> Seq(Line)]
    BY <1>4, <2>1, WriteType DEF PrintLine
  <2> QED
    BY <1>4, <2>1, <2>2 DEF PrintLine, Steps
<1>5. ASSUME NEW t \in Threads, Return(t) PROVE TypeOK'
  BY <1>5 DEF Return, Steps
<1>6. ASSUME NEW t \in Threads, Raise(t) PROVE TypeOK'
  <2>1. walk[t] \in Sinks
    BY <1>6, WalkUnderWay DEF Raise
  <2>2. pc[t] # "idle" /\ Write(walk[t], t, 0) /\ 0 \in 0..Lines
    BY <1>6, LinesType DEF Raise
  <2>3. text' \in [Sinks -> Seq(Line)]
    BY <2>1, <2>2, WriteType
  <2> QED
    BY <1>6, <2>3 DEF Raise, Steps
<1>7. ASSUME NEW t \in Threads, Restore(t) PROVE TypeOK'
  BY <1>7 DEF Restore, Steps
<1>8. ASSUME NEW t \in Threads, Reply(t) PROVE TypeOK'
  <2>1. walk[t] \in Sinks
    BY <1>8, WalkUnderWay DEF Reply
  <2> QED
    BY <1>8, <2>1 DEF Reply, Steps
<1>9. CASE UNCHANGED vars
  BY <1>9 DEF vars
<1> QED
  BY <1>1, <1>2, <1>3, <1>4, <1>5, <1>6, <1>7, <1>8, <1>9 DEF Next

\* Every action but Request leaves the walks as they are and needs one under way.
LEMMA StepsOfAWalk ==
  ASSUME NEW t \in Threads,
         SaveTarget(t) \/ SetTarget(t) \/ PrintLine(t) \/ Return(t) \/ Raise(t)
           \/ Restore(t) \/ Reply(t)
  PROVE  Busy(t) /\ pc[t] # "idle" /\ UNCHANGED <<walk, alone, overlapped>>
BY DEF SaveTarget, SetTarget, PrintLine, Return, Raise, Restore, Reply, Goto, Busy

LEMMA RequestWalk == ASSUME IInv, NEW t \in Threads, Request(t)
                     PROVE  /\ walk'[t] \in Walks /\ walk'[t] = <<t, walk[t][2] + 1>>
                            /\ walk[t][2] \in Nat /\ Ahead(walk'[t])
                            /\ \A u \in Threads : u # t => walk'[u] = walk[u]
<1>1. walk[t] \in Threads \X (0..MaxWalks) /\ walk[t][2] \in Nat /\ walk[t][2] < MaxWalks
  BY LinesType DEF IInv, TypeOK, Request
<1>2. walk'[t] = <<t, walk[t][2] + 1>> /\ \A u \in Threads : u # t => walk'[u] = walk[u]
  BY DEF Request, IInv, TypeOK
<1> QED
  BY <1>1, <1>2, LinesType DEF Walks, Ahead

LEMMA NameStep == ASSUME IInv, [Next]_vars PROVE NameInv'
<1>1. ASSUME NEW t \in Threads, Request(t) PROVE NameInv'
  <2>1. \A u \in Threads : u # t => pc'[u] = pc[u]
    BY <1>1 DEF Request, IInv, TypeOK
  <2> QED
    BY <1>1, <2>1, RequestWalk DEF NameInv, IInv
<1>2. ASSUME NEW t \in Threads,
             SaveTarget(t) \/ SetTarget(t) \/ PrintLine(t) \/ Return(t) \/ Raise(t)
               \/ Restore(t) \/ Reply(t)
      PROVE  NameInv'
  <2>1. UNCHANGED walk /\ pc[t] # "idle"
    BY <1>2, StepsOfAWalk
  <2>2. \A u \in Threads : u # t => pc'[u] = pc[u]
    BY <1>2 DEF SaveTarget, SetTarget, PrintLine, Return, Raise, Restore, Reply, Goto, IInv, TypeOK
  <2> QED
    BY <2>1, <2>2 DEF NameInv, IInv
<1>3. CASE UNCHANGED vars
  BY <1>3 DEF vars, NameInv, IInv
<1> QED
  BY <1>1, <1>2, <1>3 DEF Next

LEMMA FreshStep == ASSUME IInv, [Next]_vars PROVE FreshInv'
<1> USE DEF FreshInv
<1>a. TypeOK /\ FreshInv
  BY DEF IInv
<1>b. \A w \in Walks : w \in Sinks /\ w[1] \in Threads /\ w[2] \in Nat
  BY WalkParts, LinesType
<1>1. ASSUME NEW t \in Threads, Request(t) PROVE FreshInv'
  <2>1. \A w \in Walks : Ahead(w)' => Ahead(w)
    <3> SUFFICES ASSUME NEW w \in Walks, Ahead(w)' PROVE Ahead(w)
      OBVIOUS
    <3>1. w[2] > walk'[w[1]][2]
      BY DEF Ahead
    <3>2. CASE w[1] = t
      <4>1. walk'[t][2] = walk[t][2] + 1 /\ walk[t][2] \in Nat
        BY <1>1, RequestWalk
      <4> QED
        BY <3>1, <3>2, <4>1, <1>b DEF Ahead
    <3>3. CASE w[1] # t
      BY <3>1, <3>3, <1>1, <1>b, RequestWalk DEF Ahead
    <3> QED
      BY <3>2, <3>3
  <2> QED
    BY <1>1, <1>a, <2>1 DEF Request
<1>2. ASSUME NEW t \in Threads,
             SaveTarget(t) \/ SetTarget(t) \/ PrintLine(t) \/ Return(t) \/ Raise(t)
               \/ Restore(t) \/ Reply(t)
      PROVE  FreshInv'
  <2>1. walk' = walk /\ pc[t] # "idle"
    BY <1>2, StepsOfAWalk
  <2>2. walk[t] \in Walks /\ ~Ahead(walk[t])
    BY <2>1, WalkUnderWay
  <2>3. \A w \in Walks : Ahead(w)' <=> Ahead(w)
    BY <2>1 DEF Ahead
  <2>4. CASE SaveTarget(t)
    BY <2>3, <2>4, <1>a DEF SaveTarget, TypeOK
  <2>5. CASE SetTarget(t)
    BY <2>2, <2>3, <2>5, <1>a DEF SetTarget
  <2>6. CASE PrintLine(t)
    BY <2>3, <2>6, <1>a, <1>b DEF PrintLine, Write, TypeOK
  <2>7. CASE Return(t)
    BY <2>3, <2>7, <1>a DEF Return
  <2>8. CASE Raise(t)
    BY <2>2, <2>3, <2>8, <1>a, <1>b DEF Raise, Write, TypeOK
  <2>9. CASE Restore(t)
    BY <2>3, <2>9, <1>a DEF Restore
  <2>10. CASE Reply(t)
    BY <2>3, <2>10, <1>a DEF Reply
  <2> QED
    BY <1>2, <2>4, <2>5, <2>6, <2>7, <2>8, <2>9, <2>10
<1>3. CASE UNCHANGED vars
  <2>1. \A w \in Walks : Ahead(w)' <=> Ahead(w)
    BY <1>3 DEF vars, Ahead
  <2> QED
    BY <1>3, <1>a, <2>1 DEF vars
<1> QED
  BY <1>1, <1>2, <1>3 DEF Next

\* A step of a walk touches the place of no other thread.
LEMMA OtherThreads ==
  ASSUME IInv, NEW t \in Threads, NEW u \in Threads, u # t,
         SaveTarget(t) \/ SetTarget(t) \/ PrintLine(t) \/ Return(t) \/ Raise(t)
           \/ Restore(t) \/ Reply(t)
  PROVE  /\ pc'[u] = pc[u] /\ saved'[u] = saved[u] /\ reply'[u] = reply[u]
         /\ Busy(u)' <=> Busy(u)
         /\ walk'[u] = walk[u] /\ no'[u] = no[u] /\ raised'[u] = raised[u]
BY DEF SaveTarget, SetTarget, PrintLine, Return, Raise, Restore, Reply, Goto, IInv, TypeOK, Busy

LEMMA OthersAtRequest ==
  ASSUME IInv, NEW t \in Threads, Request(t), NEW u \in Threads, u # t
  PROVE  /\ pc'[u] = pc[u] /\ saved'[u] = saved[u] /\ reply'[u] = reply[u]
         /\ Busy(u)' <=> Busy(u)
         /\ walk'[u] = walk[u] /\ no'[u] = no[u] /\ raised'[u] = raised[u]
         /\ alone'[u] => alone[u] /\ ~Busy(u)
BY DEF Request, IInv, TypeOK, Busy

LEMMA AloneStep == ASSUME IInv, [Next]_vars PROVE AloneInv'
<1>a. AloneInv
  BY DEF IInv
<1>1. ASSUME NEW t \in Threads, Request(t) PROVE AloneInv'
  <2>1. alone'[t] => \A v \in Threads : ~Busy(v)
    BY <1>1 DEF Request, IInv, TypeOK
  <2> SUFFICES ASSUME NEW x \in Threads, NEW u \in Threads, Busy(x)', alone'[x], Busy(u)'
               PROVE  u = x
    BY DEF AloneInv
  <2>2. CASE x = t
    BY <1>1, <2>1, <2>2, OthersAtRequest
  <2>3. CASE x # t
    BY <1>1, <2>3, OthersAtRequest
  <2> QED
    BY <2>2, <2>3
<1>2. ASSUME NEW t \in Threads,
             SaveTarget(t) \/ SetTarget(t) \/ PrintLine(t) \/ Return(t) \/ Raise(t)
               \/ Restore(t) \/ Reply(t)
      PROVE  AloneInv'
  <2>1. Busy(t) /\ alone' = alone
    BY <1>2, StepsOfAWalk
  <2>2. \A u \in Threads : Busy(u)' => Busy(u)
    BY <1>2, <2>1, OtherThreads
  <2> QED
    BY <1>a, <2>1, <2>2 DEF AloneInv
<1>3. CASE UNCHANGED vars
  BY <1>3, <1>a DEF vars, AloneInv, Busy
<1> QED
  BY <1>1, <1>2, <1>3 DEF Next

\* What BufferInv says of one thread.
BufferOf(t) == alone[t] =>
  /\ pc[t] \in {"enter", "swap"} => ~raised[t] /\ no[t] = 0 /\ text[walk[t]] = <<>>
  /\ pc[t] = "print" => ~raised[t] /\ stdout = walk[t] /\ text[walk[t]] = Output(t)
  /\ pc[t] \in {"exit", "reply"} => text[walk[t]] = Output(t)
  /\ pc[t] = "replied" => reply[t] = Output(t)

LEMMA BufferIs == BufferInv <=> \A t \in Threads : BufferOf(t)
BY DEF BufferInv, BufferOf

\* Steps of other threads leave a thread that walks alone as it is.
LEMMA BufferOther ==
  ASSUME IInv, NEW t \in Threads, NEW u \in Threads, u # t,
         \/ Request(t) \/ SaveTarget(t) \/ SetTarget(t) \/ PrintLine(t)
         \/ Return(t) \/ Raise(t) \/ Restore(t) \/ Reply(t)
  PROVE  BufferOf(u)'
<1>1. BufferOf(u)
  BY BufferIs DEF IInv
<1> SUFFICES ASSUME alone'[u] PROVE BufferOf(u)'
  BY DEF BufferOf
<1>2. alone[u] /\ ~Busy(u)
  <2>1. CASE Request(t)
    BY <2>1, OthersAtRequest
  <2>2. CASE ~Request(t)
    BY <2>2, StepsOfAWalk DEF IInv, AloneInv
  <2> QED
    BY <2>1, <2>2
<1>3. pc'[u] = pc[u] /\ reply'[u] = reply[u] /\ Output(u)' = Output(u)
  BY OthersAtRequest, OtherThreads, OutputFrame
<1>4. pc[u] \in {"idle", "replied"}
  BY <1>2 DEF Busy
<1> QED
  BY <1>1, <1>2, <1>3, <1>4 DEF BufferOf

LEMMA BufferStep == ASSUME IInv, [Next]_vars PROVE BufferInv'
<1>a. TypeOK /\ FreshInv /\ \A t \in Threads : BufferOf(t)
  BY BufferIs DEF IInv
<1>1. ASSUME NEW t \in Threads, Request(t) PROVE BufferOf(t)'
  <2>1. text[walk'[t]] = <<>>
    BY <1>1, <1>a, RequestWalk DEF FreshInv
  <2>2. pc'[t] = "enter" /\ no'[t] = 0 /\ raised'[t] = FALSE /\ text' = text
    BY <1>1, <1>a DEF Request, TypeOK
  <2> QED
    BY <2>1, <2>2 DEF BufferOf
<1>2. ASSUME NEW t \in Threads, SaveTarget(t) PROVE BufferOf(t)'
  BY <1>2, <1>a DEF SaveTarget, Goto, BufferOf, TypeOK
<1>3. ASSUME NEW t \in Threads, SetTarget(t) PROVE BufferOf(t)'
  <2> SUFFICES ASSUME alone'[t] PROVE BufferOf(t)'
    BY DEF BufferOf
  <2>1. /\ pc'[t] = "print" /\ pc[t] = "swap" /\ stdout' = walk[t] /\ text' = text /\ walk' = walk
        /\ no' = no /\ raised' = raised /\ alone' = alone
    BY <1>3, <1>a DEF SetTarget, Goto, TypeOK
  <2>2. ~raised[t] /\ no[t] = 0 /\ text[walk[t]] = <<>>
    BY <1>a, <2>1 DEF BufferOf
  <2>3. Output(t) = <<>>
    BY <2>2, NothingStaged DEF Output, Staged
  <2>4. Output(t)' = Output(t)
    BY <2>1, OutputFrame
  <2> QED
    BY <2>1, <2>2, <2>3, <2>4 DEF BufferOf
<1>4. ASSUME NEW t \in Threads, PrintLine(t) PROVE BufferOf(t)'
  <2> SUFFICES ASSUME alone'[t] PROVE BufferOf(t)'
    BY DEF BufferOf
  <2>1. /\ pc'[t] = "print" /\ pc[t] = "print" /\ stdout' = stdout /\ walk' = walk
        /\ no'[t] = no[t] + 1 /\ raised' = raised /\ alone' = alone /\ no[t] \in Nat
    BY <1>4, <1>a, LinesType DEF PrintLine, Goto, TypeOK
  <2>2. ~raised[t] /\ stdout = walk[t] /\ text[walk[t]] = Output(t)
    BY <1>a, <2>1 DEF BufferOf
  <2>3. walk[t] \in Sinks
    BY <2>1, WalkUnderWay
  <2>4. text'[walk[t]] = Append(text[walk[t]], [walk |-> walk[t], no |-> no[t] + 1])
    BY <1>4, <1>a, <2>2, <2>3 DEF PrintLine, Write, TypeOK
  <2>5. Output(t) = [i \in 1..no[t] |-> [walk |-> walk[t], no |-> i]]
    BY <2>2 DEF Output, Staged
  <2>6. Output(t)' = [i \in 1..(no[t] + 1) |-> [walk |-> walk[t], no |-> i]]
    BY <2>1, <2>2 DEF Output, Staged
  <2>7. text'[walk'[t]] = Output(t)'
    BY <2>1, <2>2, <2>4, <2>5, <2>6, OneMoreLine
  <2> QED
    BY <2>1, <2>2, <2>7 DEF BufferOf
<1>5. ASSUME NEW t \in Threads, Return(t) PROVE BufferOf(t)'
  <2>1. Output(t)' = Output(t) /\ pc'[t] = "exit" /\ pc[t] = "print"
    BY <1>5, <1>a, OutputFrame DEF Return, Goto, TypeOK
  <2> QED
    BY <1>5, <1>a, <2>1 DEF Return, BufferOf
<1>6. ASSUME NEW t \in Threads, Raise(t) PROVE BufferOf(t)'
  <2> SUFFICES ASSUME alone'[t] PROVE BufferOf(t)'
    BY DEF BufferOf
  <2>1. /\ pc'[t] = "exit" /\ pc[t] = "print" /\ walk' = walk /\ no' = no
        /\ raised'[t] = TRUE /\ alone' = alone
    BY <1>6, <1>a DEF Raise, Goto, TypeOK
  <2>2. ~raised[t] /\ text[walk[t]] = Output(t)
    BY <1>a, <2>1 DEF BufferOf
  <2>3. walk[t] \in Sinks
    BY <2>1, WalkUnderWay
  <2>4. text'[walk[t]] = Append(text[walk[t]], [walk |-> walk[t], no |-> 0])
    BY <1>6, <1>a, <2>3 DEF Raise, Write, TypeOK
  <2>5. Output(t)' = Append(Staged(t), [walk |-> walk[t], no |-> 0])
    BY <2>1 DEF Output, Staged
  <2>6. Output(t) = Staged(t)
    BY <2>2 DEF Output
  <2> QED
    BY <2>1, <2>2, <2>4, <2>5, <2>6 DEF BufferOf
<1>7. ASSUME NEW t \in Threads, Restore(t) PROVE BufferOf(t)'
  <2>1. Output(t)' = Output(t) /\ pc'[t] = "reply" /\ pc[t] = "exit"
    BY <1>7, <1>a, OutputFrame DEF Restore, Goto, TypeOK
  <2> QED
    BY <1>7, <1>a, <2>1 DEF Restore, BufferOf
<1>8. ASSUME NEW t \in Threads, Reply(t) PROVE BufferOf(t)'
  <2>1. Output(t)' = Output(t) /\ pc'[t] = "replied" /\ pc[t] = "reply"
    BY <1>8, <1>a, OutputFrame DEF Reply, Goto, TypeOK
  <2>2. reply'[t] = text[walk[t]] /\ alone' = alone
    BY <1>8, <1>a DEF Reply, TypeOK
  <2> QED
    BY <1>a, <2>1, <2>2 DEF BufferOf
<1>9. CASE UNCHANGED vars
  BY <1>9, <1>a, BufferIs, OutputFrame DEF vars, BufferInv, BufferOf
<1>10. ASSUME NEW t \in Threads,
              \/ Request(t) \/ SaveTarget(t) \/ SetTarget(t) \/ PrintLine(t)
              \/ Return(t) \/ Raise(t) \/ Restore(t) \/ Reply(t)
       PROVE  BufferInv'
  <2>1. BufferOf(t)'
    BY <1>1, <1>2, <1>3, <1>4, <1>5, <1>6, <1>7, <1>8, <1>10
  <2>2. \A u \in Threads : BufferOf(u)'
    BY <1>10, <2>1, BufferOther
  <2> QED
    BY <2>2 DEF BufferInv, BufferOf
<1> QED
  BY <1>9, <1>10 DEF Next

LEMMA ConsoleStep == ASSUME IInv, [Next]_vars PROVE ConsoleInv'
<1>a. TypeOK /\ ConsoleInv
  BY DEF IInv
<1>1. ASSUME NEW t \in Threads, Request(t) PROVE ConsoleInv'
  <2> SUFFICES ASSUME ~overlapped' PROVE ConsoleInv'
    BY DEF ConsoleInv
  <2>1. ~overlapped /\ (\A v \in Threads : ~Busy(v)) /\ stdout' = stdout /\ pc'[t] = "enter"
    BY <1>1, <1>a DEF Request, TypeOK
  <2>2. \A v \in Threads : pc[v] \in {"idle", "replied"}
    BY <2>1 DEF Busy
  <2>3. \A u \in Threads : u # t => pc'[u] \in {"idle", "replied"}
    BY <1>1, <2>2, OthersAtRequest
  <2>4. stdout = Console
    BY <1>a, <2>1, <2>2 DEF ConsoleInv
  <2> QED
    BY <2>1, <2>3, <2>4 DEF ConsoleInv, Busy
<1>2. ASSUME NEW t \in Threads,
             SaveTarget(t) \/ SetTarget(t) \/ PrintLine(t) \/ Return(t) \/ Raise(t)
               \/ Restore(t) \/ Reply(t)
      PROVE  ConsoleInv'
  <2> SUFFICES ASSUME ~overlapped' PROVE ConsoleInv'
    BY DEF ConsoleInv
  <2>1. Busy(t) /\ ~overlapped
    BY <1>2, StepsOfAWalk
  <2>2. \A u \in Threads : u # t => pc[u] \in {"idle", "replied"}
    BY <1>a, <2>1 DEF ConsoleInv, Busy
  <2>3. \A u \in Threads : u # t => pc'[u] \in {"idle", "replied"}
    BY <1>2, <2>2, OtherThreads
  <2>4. \A u, v \in Threads : Busy(u)' /\ Busy(v)' => u = v
    BY <2>3 DEF Busy
  <2>5. (\A u \in Threads : pc'[u] \notin {"print", "exit"}) => stdout' = Console
    <3>1. pc[t] \notin {"print", "exit"} => stdout = Console
      BY <1>a, <2>1, <2>2 DEF ConsoleInv
    <3>2. pc[t] \in {"swap", "print", "exit"} => saved[t] = Console
      BY <1>a, <2>1 DEF ConsoleInv
    <3> QED
      BY <1>2, <1>a, <3>1, <3>2
      DEF SaveTarget, SetTarget, PrintLine, Return, Raise, Restore, Reply, Goto, TypeOK
  <2>6. \A u \in Threads : pc'[u] \in {"swap", "print", "exit"} => saved'[u] = Console
    <3>1. pc[t] \notin {"print", "exit"} => stdout = Console
      BY <1>a, <2>1, <2>2 DEF ConsoleInv
    <3>2. pc[t] \in {"swap", "print", "exit"} => saved[t] = Console
      BY <1>a, <2>1 DEF ConsoleInv
    <3>3. pc'[t] \in {"swap", "print", "exit"} => saved'[t] = Console
      BY <1>2, <1>a, <3>1, <3>2
      DEF SaveTarget, SetTarget, PrintLine, Return, Raise, Restore, Reply, Goto, TypeOK
    <3> QED
      BY <2>3, <3>3
  <2> QED
    BY <2>4, <2>5, <2>6 DEF ConsoleInv
<1>3. CASE UNCHANGED vars
  BY <1>3, <1>a DEF vars, ConsoleInv, Busy
<1> QED
  BY <1>1, <1>2, <1>3 DEF Next

LEMMA StepIInv == IInv /\ [Next]_vars => IInv'
BY TypeStep, NameStep, FreshStep, AloneStep, BufferStep, ConsoleStep DEF IInv
------------------------------------------------------------------------------
THEOREM Invariance == Spec => []IInv
BY InitIInv, StepIInv, PTL DEF Spec

\* The sinks and the handlers keep their shape, whoever prints to whom.
THEOREM TypeCorrect == Spec => []TypeOK
<1>1. IInv => TypeOK
  BY DEF IInv
<1> QED
  BY <1>1, Invariance, PTL

\* serve.py, _walk_text: a walk no other request overlapped with is answered with
\* its own staged output, all of it and nothing else.
THEOREM LoneReplies == Spec => []LoneReplyExact
<1>1. IInv => LoneReplyExact
  BY DEF IInv, BufferInv, LoneReplyExact
<1> QED
  BY <1>1, Invariance, PTL

\* Without overlap the server prints to its console again after every walk, those
\* that raised included.
THEOREM ConsoleComesBack == Spec => []ConsoleRestored
<1>1. IInv => ConsoleRestored
  BY DEF IInv, ConsoleInv, ConsoleRestored, Busy
<1> QED
  BY <1>1, Invariance, PTL
==============================================================================
