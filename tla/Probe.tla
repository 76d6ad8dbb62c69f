-------------------------------- MODULE Probe --------------------------------
(***************************************************************************)
(* The outside-in probe (probe.py): one TLS handshake with the listener of *)
(* an SBC, whose version, cipher and leaf are graded with the same bundle  *)
(* as a configuration.  The socket and the ssl module are external: any    *)
(* handshake a listener of that configuration can end with.                *)
(*                                                                         *)
(* A definition named X_Y is the definition X with a bug Y.                *)
(***************************************************************************)
EXTENDS Validators

Versions == {"1.0", "1.1", "1.2", "1.3"}
AtLeast(v) == CASE v = "1.1" -> {"1.1", "1.2", "1.3"} [] v = "1.2" -> {"1.2", "1.3"}
                [] v = "1.3" -> {"1.3"} [] OTHER -> Versions

WarnDays == 30   \* cert_expiry_warn_days

\* Whole days from today's date to the date of the leaf's notAfter: the class
\* the validators put it in.
DaysLeft == {-1, 0, 1, WarnDays, WarnDays + 1, WarnDays + 2}
ExpiryClass(left) == IF left < 0 THEN "past" ELSE IF left <= WarnDays THEN "soon" ELSE "far"

\* Handshakes with a listener that runs configuration c: it negotiates at least
\* its minimum version, a suite it offers, and presents its certificate.
Unreachable == [reachable |-> FALSE]
Handshakes(c) ==
  LET x == Teams(c).tls IN
  {Unreachable} \cup
  {[reachable |-> TRUE, version |-> v, listed |-> k, leaf |-> x.cert, left |-> d] :
     v \in AtLeast(x.minTls), k \in IF x.ciphers = "foreign" THEN {FALSE} ELSE BOOLEAN,
     d \in {e \in DaysLeft : ExpiryClass(e) = x.cert.expiry}}

\* What the listener presents is known: a certificate with all its details.
Presents(c) == HasTeams(c) /\ Teams(c).tls # NoContext /\ Teams(c).tls.cert # NoCert
               /\ Teams(c).tls.cert.expiry # "?"

\* notAfter's midnight against the present instant: a part of a day is lost.
RemainingDays_Date(left) == left
RemainingDays(left)      == left - 1

LeafIssues_TrustsEku(hs) ==
  When(RemainingDays(hs.left) < 0, "C.CERT.EXPIRY", "CRITICAL")
  \cup When(RemainingDays(hs.left) \in 0..WarnDays, "C.CERT.EXPIRY", "HIGH")
  \cup When(~hs.leaf.covers, "C.CERT.FQDN_MISMATCH", "HIGH")
LeafIssues(hs) ==
  When(RemainingDays(hs.left) < 0, "C.CERT.EXPIRY", "CRITICAL")
  \cup When(RemainingDays(hs.left) \in 0..WarnDays, "C.CERT.EXPIRY", "HIGH")
  \cup When(hs.leaf.ekus # {} /\ "server" \notin hs.leaf.ekus, "C.CERT.EKU_NO_SERVERAUTH", "HIGH")
  \cup When(~hs.leaf.covers, "C.CERT.FQDN_MISMATCH", "HIGH")

Issues(hs) ==
  IF ~hs.reachable THEN {}
  ELSE When(hs.version \in {"1.0", "1.1"}, "C.TLS.WEAK_VERSION", "HIGH")
       \cup When(~hs.listed, "C.TLS.CIPHER_NOT_ALLOWED", "MEDIUM")
       \cup LeafIssues(hs)

Worst(issues, sev) == \E f \in issues : f.sev = sev
Grade_ForgivesHigh(hs) ==
  IF ~hs.reachable THEN "INCONCLUSIVE"
  ELSE IF Worst(Issues(hs), "CRITICAL") THEN "FAIL"
  ELSE IF Worst(Issues(hs), "HIGH") \/ Worst(Issues(hs), "MEDIUM") THEN "B"
  ELSE "A"
Grade(hs) ==
  IF ~hs.reachable THEN "INCONCLUSIVE"
  ELSE IF Worst(Issues(hs), "CRITICAL") THEN "FAIL"
  ELSE IF Worst(Issues(hs), "HIGH") THEN "C"
  ELSE IF Worst(Issues(hs), "MEDIUM") THEN "B"
  ELSE "A"
==============================================================================
