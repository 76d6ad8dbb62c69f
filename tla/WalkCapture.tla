----------------------------- MODULE WalkCapture -----------------------------
(***************************************************************************)
(* GET /walk of the local console (serve.py, _walk_text): the walkthrough  *)
(* prints its stages, and the handler collects them by pointing sys.stdout *)
(* at a buffer of its own with contextlib.redirect_stdout.  sys.stdout is  *)
(* one variable of the whole process and ThreadingHTTPServer runs handlers *)
(* in parallel.  redirect_stdout saves the old value and sets the new one  *)
(* in two steps, and sets the saved one again when it is left.             *)
(*                                                                         *)
(* A definition named X_Y is the definition X with a bug Y.                *)
(***************************************************************************)
EXTENDS Naturals, Sequences

CONSTANTS Threads,   \* handler threads
          Lines,     \* lines a walk prints
          MaxWalks,  \* requests per thread (bound)
          Console    \* the sys.stdout the server was started with

ASSUME WalkAssumption == Lines \in Nat /\ MaxWalks \in Nat
ASSUME ConsoleAssumption == Console \notin Threads \X (1..MaxWalks)

\* One walk per thread and request number; its buffer goes by the same name.
Walks == Threads \X (1..MaxWalks)
Sinks == Walks \cup {Console}

\* A line of output: the walk that printed it and its number; number 0 is the
\* note about an exception, which the handler writes to its buffer itself.
Line == [walk : Walks, no : 0..Lines]

VARIABLES
  stdout,   \* sys.stdout
  text,     \* what each sink has received
  pc, walk, \* per thread: where its request is, and which walk it is
  saved,    \* per thread: redirect_stdout's _old_targets
  no,       \* per thread: lines printed so far
  reply,    \* per thread: the text of its latest response
  raised,   \* per thread: the walk ended with an exception
  alone,    \* history: no other request overlapped with this one
  overlapped\* history: some requests overlapped

vars == <<stdout, text, pc, walk, saved, no, reply, raised, alone, overlapped>>

Steps == {"idle", "enter", "swap", "print", "exit", "reply", "replied"}

Init == /\ stdout = Console
        /\ text   = [s \in Sinks |-> <<>>]
        /\ pc     = [t \in Threads |-> "idle"]
        /\ walk   = [t \in Threads |-> <<t, 0>>]
        /\ saved  = [t \in Threads |-> Console]
        /\ no     = [t \in Threads |-> 0]
        /\ reply  = [t \in Threads |-> <<>>]
        /\ raised = [t \in Threads |-> FALSE]
        /\ alone  = [t \in Threads |-> TRUE]
        /\ overlapped = FALSE

Goto(t, from, to) == pc[t] = from /\ pc' = [pc EXCEPT ![t] = to]

Busy(t) == pc[t] \notin {"idle", "replied"}

\* The request comes in; from now on it overlaps with every walk under way.
Request(t) ==
  /\ ~Busy(t) /\ walk[t][2] < MaxWalks
  /\ pc'     = [pc EXCEPT ![t] = "enter"]
  /\ walk'   = [walk EXCEPT ![t] = <<t, walk[t][2] + 1>>]
  /\ no'     = [no EXCEPT ![t] = 0]
  /\ raised' = [raised EXCEPT ![t] = FALSE]
  /\ alone'  = [u \in Threads |-> IF u = t THEN \A v \in Threads : ~Busy(v)
                                  ELSE alone[u] /\ ~Busy(u)]
  /\ overlapped' = (overlapped \/ \E v \in Threads : Busy(v))
  /\ UNCHANGED <<stdout, text, saved, reply>>

\* redirect_stdout.__enter__: remember the old target ...
SaveTarget(t) == /\ Goto(t, "enter", "swap")
                 /\ saved' = [saved EXCEPT ![t] = stdout]
                 /\ UNCHANGED <<stdout, text, walk, no, reply, raised, alone, overlapped>>

\* ... and set the new one.
SetTarget_OnlyConsole(t) == /\ Goto(t, "swap", "print")
                            /\ stdout' = IF stdout = Console THEN walk[t] ELSE stdout
                            /\ UNCHANGED <<text, walk, saved, no, reply, raised, alone, overlapped>>
SetTarget(t) == /\ Goto(t, "swap", "print")
                /\ stdout' = walk[t]
                /\ UNCHANGED <<text, walk, saved, no, reply, raised, alone, overlapped>>

Write(sink, t, n) == text' = [text EXCEPT ![sink] = Append(@, [walk |-> walk[t], no |-> n])]

\* print(...) of walk_report goes to whatever sys.stdout is by now.
PrintLine(t) == /\ Goto(t, "print", "print")
            /\ no[t] < Lines
            /\ no' = [no EXCEPT ![t] = @ + 1]
            /\ Write(stdout, t, no[t] + 1)
            /\ UNCHANGED <<stdout, walk, saved, reply, raised, alone, overlapped>>

\* walk_report returns after its last line, or raises before it.
Return(t) == /\ Goto(t, "print", "exit")
             /\ no[t] = Lines
             /\ UNCHANGED <<stdout, text, walk, saved, no, reply, raised, alone, overlapped>>

Raise(t) == /\ Goto(t, "print", "exit")
            /\ no[t] < Lines
            /\ raised' = [raised EXCEPT ![t] = TRUE]
            /\ Write(walk[t], t, 0)
            /\ UNCHANGED <<stdout, walk, saved, no, reply, alone, overlapped>>

\* redirect_stdout.__exit__: the saved target again.
Restore_Forgotten(t) == /\ Goto(t, "exit", "reply")
                        /\ UNCHANGED <<stdout, text, walk, saved, no, reply, raised, alone, overlapped>>
Restore(t) == /\ Goto(t, "exit", "reply")
              /\ stdout' = saved[t]
              /\ UNCHANGED <<text, walk, saved, no, reply, raised, alone, overlapped>>

\* The response carries the text of the handler's own buffer.
Reply(t) == /\ Goto(t, "reply", "replied")
            /\ reply' = [reply EXCEPT ![t] = text[walk[t]]]
            /\ UNCHANGED <<stdout, text, walk, saved, no, raised, alone, overlapped>>

Next == \E t \in Threads : \/ Request(t) \/ SaveTarget(t) \/ SetTarget(t)
                           \/ PrintLine(t) \/ Return(t) \/ Raise(t)
                           \/ Restore(t) \/ Reply(t)

Spec == Init /\ [][Next]_vars
------------------------------------------------------------------------------
TypeOK == /\ stdout \in Sinks
          /\ text \in [Sinks -> Seq(Line)]
          /\ pc \in [Threads -> Steps]
          /\ walk \in [Threads -> Threads \X (0..MaxWalks)]
          /\ saved \in [Threads -> Sinks]
          /\ no \in [Threads -> 0..Lines]
          /\ reply \in [Threads -> Seq(Line)]
          /\ raised \in [Threads -> BOOLEAN]
          /\ alone \in [Threads -> BOOLEAN]
          /\ overlapped \in BOOLEAN

\* The staged output of t's walk as far as it printed, and the note about its
\* exception if there was one.
Staged(t) == [i \in 1..no[t] |-> [walk |-> walk[t], no |-> i]]
Output(t) == IF raised[t] THEN Append(Staged(t), [walk |-> walk[t], no |-> 0])
                          ELSE Staged(t)

\* /walk "runs the real `walk` on the bundled samples and returns the actual
\* staged output (ingest -> validate -> verdict -> predict)": all of it and
\* nothing else.
ReplyExact == \A t \in Threads : pc[t] = "replied" => reply[t] = Output(t)

\* A walk no other request overlapped with is answered exactly, whatever
\* earlier overlapping walks left in sys.stdout.
LoneReplyExact == \A t \in Threads : pc[t] = "replied" /\ alone[t] => reply[t] = Output(t)

\* As long as requests come one after the other the server prints to its
\* console again whenever no walk is under way, also after one that raised.
ConsoleRestored ==
  ~overlapped /\ (\A t \in Threads : ~Busy(t)) => stdout = Console
==============================================================================
