------------------------------ MODULE CallTrace ------------------------------
(***************************************************************************)
(* The explain command: what analyze (sip_trace.py) makes of a capture,    *)
(* and which explanations of the model beside it (explainer.py) are shown. *)
(* The calls are real ones, of which a tap sees all messages but at most   *)
(* MaxLost, and may be switched on and off at any time.  The messages of a *)
(* call are sorted by time before they are looked at, so that the capture  *)
(* is a set of messages with their times; what the tool does not look at   *)
(* (ACK, retransmissions) is left out.                                     *)
(*                                                                         *)
(* A definition named X_Y is the definition X with a bug Y.                *)
(***************************************************************************)
EXTENDS Integers, FiniteSets

CONSTANTS Calls,   \* Call-IDs
          MinRtp,  \* _MIN_RTP
          MaxSent, \* messages sent by all calls (bound)
          MaxLost, \* messages the tap loses
          Untold

\* One packet that went astray is no flow.
ASSUME RtpAssumption == MinRtp \in Nat /\ MinRtp > 1

VARIABLES
  dialog,  \* per call: where it really is
  trace,   \* the SIP messages captured
  sent,    \* how many were sent
  rtp,     \* RTP packets captured, per call and direction
  tlsSeen, \* what port 5061 shows
  told     \* the result of explain

traceVars == <<dialog, trace, sent, rtp, tlsSeen, told>>

NoCapture == /\ dialog = [c \in Calls |-> "idle"]
             /\ trace = {} /\ sent = 0
             /\ rtp = [k \in Calls \X {"in", "out"} |-> 0]
             /\ tlsSeen = "none" /\ told = Untold
Untapped  == sent = 0 /\ tlsSeen = "none"
----------------------------------------------------------------------------
(* The calls. *)

Asks(method)      == [method |-> method, status |-> 0, cseq |-> method, media |-> "none"]
Replies(code, to) == [method |-> "none", status |-> code, cseq |-> to, media |-> "none"]
Answers(address)  == [Replies(200, "INVITE") EXCEPT !.media = address]

\* Where a message takes a call: challenged and repeated, cancelled (which the
\* answer may cross), refused for a fault or because the callee is busy, changed
\* while it is up, and hung up; or a keep-alive.
Moves ==
  {<<"idle", Asks("INVITE"), "calling">>, <<"calling", Replies(180, "INVITE"), "ringing">>,
   <<"calling", Replies(407, "INVITE"), "challenged">>, <<"challenged", Asks("INVITE"), "calling">>,
   <<"calling", Asks("CANCEL"), "cancelling">>, <<"ringing", Asks("CANCEL"), "cancelling">>,
   <<"cancelling", Replies(200, "CANCEL"), "cancelled">>,
   <<"cancelled", Replies(487, "INVITE"), "cleared">>, <<"ringing", Replies(486, "INVITE"), "cleared">>,
   <<"up", Asks("INVITE"), "changing">>, <<"changing", Answers("public"), "up">>,
   <<"changing", Replies(491, "INVITE"), "up">>,
   <<"up", Asks("BYE"), "leaving">>, <<"leaving", Replies(200, "BYE"), "ended">>,
   <<"idle", Asks("OPTIONS"), "pinging">>, <<"pinging", Replies(200, "OPTIONS"), "pinged">>}
  \cup {<<"calling", Replies(code, "INVITE"), "refused">> : code \in {404, 488, 503}}
  \cup {<<from, Answers(address), "up">> :
          from \in {"calling", "ringing", "cancelled"}, address \in {"public", "private"}}

Message(c, leaked, said) ==
  [call |-> c, ts |-> sent, leaked |-> leaked, method |-> said.method,
   status |-> said.status, cseq |-> said.cseq, media |-> said.media]

\* A message is sent, and captured unless the tap loses it.
Send(c) ==
  /\ sent < MaxSent /\ sent' = sent + 1
  /\ \E move \in Moves, leaked \in BOOLEAN :
       /\ dialog[c] = move[1] /\ dialog' = [dialog EXCEPT ![c] = move[3]]
       /\ leaked => move[2] = Asks("INVITE")
       /\ \/ trace' = trace \cup {Message(c, leaked, move[2])}
          \/ sent - Cardinality(trace) < MaxLost /\ trace' = trace
  /\ UNCHANGED <<rtp, tlsSeen>>

\* One packet of early media; the media of a call that is up, of which only one
\* direction arrives if its path is broken or its address private.
Stray(c) == /\ dialog[c] = "ringing" /\ rtp[<<c, "in">>] = 0
            /\ rtp' = [rtp EXCEPT ![<<c, "in">>] = 1]
            /\ UNCHANGED <<dialog, trace, sent, tlsSeen>>
Media(c) == /\ dialog[c] = "up" /\ rtp[<<c, "out">>] = 0
            /\ \E back \in {0, MinRtp} :
                 rtp' = [rtp EXCEPT ![<<c, "out">>] = MinRtp, ![<<c, "in">>] = @ + back]
            /\ UNCHANGED <<dialog, trace, sent, tlsSeen>>

\* TLS on port 5061, before the calls.
Handshaken == /\ sent = 0 /\ tlsSeen = "none" /\ tlsSeen' \in {"records", "alert"}
              /\ UNCHANGED <<dialog, trace, sent, rtp>>
----------------------------------------------------------------------------
(* What analyze makes of them. *)

Of(c)    == {m \in trace : m.call = c}
SeenCalls == {m.call : m \in trace}
Earliest(ms) == CHOOSE m \in ms : \A n \in ms : m.ts <= n.ts
Latest(ms)  == CHOOSE m \in ms : \A n \in ms : n.ts <= m.ts

\* The final responses to an INVITE; the first of them decides.
Finals_AnyRequest(c) == {m \in Of(c) : m.status >= 200}
Finals(c) == {m \in Of(c) : m.cseq = "INVITE" /\ m.status >= 200}
InviteFinal_Last(c) == Latest(Finals(c))
InviteFinal(c) == Earliest(Finals(c))

AnswerAddress(c) == LET with == {m \in Of(c) : m.status = 200 /\ m.media # "none"}
                    IN  IF with = {} THEN "none" ELSE Earliest(with).media

\* Media flows, of all calls together; they are judged for a lone call only.
IsFlow(n) == n >= MinRtp
Flows       == {k \in DOMAIN rtp : IsFlow(rtp[k])}
Opposite(k)  == <<k[1], IF k[2] = "in" THEN "out" ELSE "in">>
OneWayFlows == \E k \in Flows : Opposite(k) \notin Flows
OneWay_AnyCapture == OneWayFlows
OneWay == Cardinality(SeenCalls) = 1 /\ OneWayFlows

\* _RESPONSE_CAUSE
Cause(code) == CASE code \in {401, 407} -> "auth" [] code \in {404, 480, 484} -> "routing"
                 [] code \in {481, 486, 487, 491, 603} -> "ok" [] code = 488 -> "E"
                 [] OTHER -> "B"

Found(code, domain) == [code |-> code, domain |-> domain, status |-> 0]
Rejected(status)    == [Found("REJECTED", Cause(status)) EXCEPT !.status = status]
Answered(c) == IF AnswerAddress(c) = "private" \/ OneWay THEN Found("ONE_WAY_AUDIO", "D")
               ELSE Found("CONNECTED", "ok")
Diagnosis(c) ==
  IF Finals(c) # {} THEN IF InviteFinal(c).status = 200 THEN Answered(c)
                         ELSE Rejected(InviteFinal(c).status)
  ELSE IF \E m \in Of(c) : m.method = "INVITE" THEN Found("NO_ANSWER", "B")
  ELSE IF ~ \E m \in Of(c) : m.method = "OPTIONS" THEN Found("UNKNOWN", "ok")
  ELSE IF \E m \in Of(c) : m.status = 200 /\ m.cseq = "OPTIONS" THEN Found("OPTIONS_OK", "ok")
  ELSE Found("OPTIONS_UNANSWERED", "B")

Leaks(c) == \E m \in Of(c) : m.leaked
TopDomains == IF tlsSeen = "alert" \/ (tlsSeen = "records" /\ trace = {}) THEN {"C"} ELSE {}
Domains == TopDomains \cup {Diagnosis(c).domain : c \in SeenCalls}
           \cup {"F" : c \in {d \in SeenCalls : Leaks(d)}}
----------------------------------------------------------------------------
(* explain_capture: whatever class the model predicts for a call, it is shown *)
(* when its domain is one of the capture's.                                   *)

Classes == [CLEAN |-> "ok", REJECT_488 |-> "E", ONE_WAY_AUDIO |-> "D", TOPOLOGY_LEAK |-> "F",
            OPTIONS_BLACKHOLE |-> "B", TLS_HANDSHAKE_FAILED |-> "C"]
FaultDomains_OfCalls == {Diagnosis(c).domain : c \in SeenCalls} \ {"ok"}
FaultDomains == Domains \ {"ok"}
Agrees(class) == IF Classes[class] = "ok" THEN FaultDomains = {}
                 ELSE Classes[class] \in FaultDomains

\* run_explain --ai of what was captured up to now.
Explanation == [calls |-> [c \in SeenCalls |-> Diagnosis(c)],
                shown |-> {class \in DOMAIN Classes : Agrees(class)}]
Explain == /\ sent > 0 \/ tlsSeen # "none"
           /\ told' = Explanation
           /\ UNCHANGED <<dialog, trace, sent, rtp, tlsSeen>>

TraceStep == told = Untold /\ (\/ \E c \in Calls : (Send(c) /\ told' = told)
                              \/ \E c \in Calls : ((Stray(c) \/ Media(c)) /\ told' = told)
                              \/ (Handshaken /\ told' = told) \/ Explain)
TraceSpec == NoCapture /\ [][TraceStep]_traceVars
----------------------------------------------------------------------------
Explained == told # Untold
NothingLost  == sent = Cardinality(trace)
Is(c, codes) == c \in DOMAIN told.calls /\ told.calls[c].code \in codes

WasUp(c)   == dialog[c] \in {"up", "changing", "leaving", "ended"}
Waiting(c) == dialog[c] \in {"calling", "ringing", "challenged", "cancelling", "cancelled"}
Private(c) == \E m \in Of(c) : m.media = "private"
OneSided(c)  == Private(c) \/ (rtp[<<c, "out">>] = MinRtp /\ rtp[<<c, "in">>] < MinRtp)

\* Whatever the tap lost, a call is only said to be connected (with or without
\* audio both ways) if it was answered, and a keep-alive only if it was.
ConnectedIsAnswered ==
  Explained => \A c \in Calls :
    /\ Is(c, {"CONNECTED", "ONE_WAY_AUDIO"}) => WasUp(c)
    /\ Is(c, {"OPTIONS_OK"}) => dialog[c] = "pinged"

\* In a complete capture a call said to be rejected never came up, unless it was
\* challenged first, and one without an answer had none when the tap stopped.
FailureIsReal ==
  Explained /\ NothingLost => \A c \in Calls :
    /\ Is(c, {"REJECTED"}) => told.calls[c].status \in {401, 407} \/ dialog[c] \in {"refused", "cleared"}
    /\ Is(c, {"NO_ANSWER"}) => Waiting(c) /\ dialog[c] # "challenged"
    /\ Is(c, {"OPTIONS_UNANSWERED"}) => dialog[c] = "pinging"

\* One-way audio is only said of a call whose own media is broken, not of one
\* beside it; in the capture of one call a broken path is not called connected.
MediaIsJudged ==
  Explained /\ NothingLost => \A c \in Calls :
    /\ Is(c, {"ONE_WAY_AUDIO"}) => OneSided(c)
    /\ Is(c, {"CONNECTED"}) => ~Private(c) /\ (OneSided(c) => SeenCalls # {c})

\* What each class says of the capture (CLASS_INFO).
Causes == [CLEAN |-> /\ tlsSeen # "alert" /\ ~ \E m \in trace : m.leaked
                     /\ \A c \in SeenCalls : /\ WasUp(c) \/ dialog[c] \in {"cleared", "pinged"}
                                             /\ OneSided(c) => ~Private(c) /\ SeenCalls # {c},
           REJECT_488 |-> \E m \in trace : m.status = 488 /\ dialog[m.call] = "refused",
           ONE_WAY_AUDIO |-> \E c \in SeenCalls : OneSided(c),
           TOPOLOGY_LEAK |-> \E m \in trace : m.leaked,
           OPTIONS_BLACKHOLE |-> \E c \in SeenCalls : dialog[c] = "pinging",
           TLS_HANDSHAKE_FAILED |-> tlsSeen = "alert"]

\* Where the gate, which compares domains, lets a class pass that says something
\* else: nothing but encryption is seen, which shares domain C with a handshake
\* that failed; and a call waits for its answer, or was refused with 503, which
\* shares domain B with keep-alives that are not answered.
OnlyEncrypted == tlsSeen = "records" /\ trace = {}
Unserved(c)   == Waiting(c) \/ \E m \in Of(c) : m.status = 503 /\ dialog[c] = "refused"

\* "Silence beats a wrong verdict" (explain_capture): whatever the model says of a
\* complete capture, what is shown is so of some call of it, and of all for a clean
\* one (but for one-way media among several calls), with two exceptions: a failed
\* handshake is shown for a capture that is merely encrypted, and unanswered
\* keep-alives for a call that was not served.
ShownHasCause == Explained /\ NothingLost => \A class \in told.shown :
  \/ Causes[class]
  \/ class = "TLS_HANDSHAKE_FAILED" /\ OnlyEncrypted
  \/ class = "OPTIONS_BLACKHOLE" /\ \E c \in SeenCalls : Unserved(c)
============================================================================
