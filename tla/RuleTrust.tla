------------------------------ MODULE RuleTrust ------------------------------
(***************************************************************************)
(* What the rule channel promises, whatever the order in which processes   *)
(* read and write the shared cache: the only bundles that are ever         *)
(* answered or stored are bundles somebody vetted (signature and freshness *)
(* floor), and an answer is final.  How vetting, caching, falling back and *)
(* crashing are done is left to RuleClient, which implements this module.  *)
(***************************************************************************)
CONSTANTS Procs,      \* command-line processes
          Trusted,    \* bundles with a valid signature, not older than the pins
          Nothing     \* no bundle

VARIABLES vetted,     \* bundles whose signature and freshness were checked
          store,      \* the vetted bundle the cache can serve, or Nothing
          answer      \* what each process was answered, or Nothing

tvars == <<vetted, store, answer>>

TInit == /\ vetted \in SUBSET Trusted
         /\ store \in vetted \cup {Nothing}
         /\ answer = [p \in Procs |-> Nothing]

\* Somebody checks the signature and the version of a bundle.
Vet == \E b \in Trusted : vetted' = vetted \cup {b}

\* The cache takes a bundle vetted before, or loses the one it had.
Replace == store' \in vetted \cup {Nothing}

\* A process that has no answer gets a vetted bundle; an answer it has is
\* never exchanged for another.
Answer(p) == /\ answer[p] = Nothing
             /\ \E b \in vetted' : answer' = [answer EXCEPT ![p] = b]

\* The command of p is over; the next one asks afresh.
Forget(p) == answer' = [answer EXCEPT ![p] = Nothing]

TNext == /\ Vet \/ UNCHANGED vetted
         /\ Replace \/ UNCHANGED store
         /\ UNCHANGED answer \/ \E p \in Procs : Answer(p) \/ Forget(p)

TSpec == TInit /\ [][TNext]_tvars
==============================================================================
