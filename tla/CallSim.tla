------------------------------- MODULE CallSim -------------------------------
(***************************************************************************)
(* call_sim.py: the call as a chain of four stages, predicted from the     *)
(* findings.  The chain stops at the first stage a finding breaks.  The    *)
(* wording, the codec the ladder names and the ladder, which renders the   *)
(* stages, are left out.                                                   *)
(*                                                                         *)
(* A definition named X_Y is the definition X with a bug Y.                *)
(***************************************************************************)
EXTENDS Integers, Sequences

TlsHardStop == {"C.CA.ROOT_MISSING", "C.TLS.NO_CONTEXT", "C.TLS.MTLS_DISABLED",
                "C.CERT.MISSING", "C.CERT.FQDN_MISMATCH", "C.CERT.SELF_SIGNED",
                "C.CERT.CHAIN_INVALID", "C.CERT.UNTRUSTED_ANCHOR", "C.TLS.CIPHER_NOT_ALLOWED"}
TlsWarn_NoVersion == {"C.CERT.EKU_NO_SERVERAUTH", "C.CERT.CHAIN_INCOMPLETE", "C.CERT.EKU_DUALUSE"}
TlsWarn     == {"C.CERT.EKU_NO_SERVERAUTH", "C.CERT.CHAIN_INCOMPLETE", "C.CERT.EKU_DUALUSE",
                "C.TLS.WEAK_VERSION"}
SipHardStop == {"B.SIP.TRANSPORT", "B.IFACE.NO_TEAMS", "A.STRUCT.NO_SIP_INTERFACES",
                "A.SEM.DANGLING_TLS", "B.SIP.IDENTITY_IS_IP", "G.CLASS.UNCLASSIFIED",
                "G.ROUTE.NO_FROM_TEAMS", "G.ROUTE.NO_TO_TEAMS"}
SipWarn     == {"B.SIP.OPTIONS_KEEPALIVE", "B.SIP.NO_NORMALIZATION"}
SdpHardStop == {"E.CODEC.NO_TEAMS_OVERLAP", "E.CODEC.NONE_OFFERED"}
SdpWarn     == {"E.CODEC.NO_CROSS_OVERLAP", "E.DTMF.METHOD", "E.DTMF.INCONSISTENT"}
MediaHardStop == {"D.NAT.PRIVATE_ADVERTISED", "D.NAT.NO_PUBLIC_IP", "C.SRTP.DISABLED"}
MediaWarn   == {"D.NAT.NO_SYMMETRIC_RTP", "D.MEDIA.NO_REALM"}

Stages    == <<"TLS handshake", "SIP signaling", "SDP negotiation", "Media path">>
HardStops == <<TlsHardStop, SipHardStop, SdpHardStop, MediaHardStop>>
Warnings  == <<TlsWarn, SipWarn, SdpWarn, MediaWarn>>

\* An expired certificate breaks the handshake, one that expires soon is a
\* warning: the same check id twice.
Breaks(f, i) == \/ f.id \in HardStops[i]
                \/ i = 1 /\ f.id = "C.CERT.EXPIRY" /\ f.sev = "CRITICAL"
Warns(f, i)  == \/ f.id \in Warnings[i]
                \/ i = 1 /\ f.id = "C.CERT.EXPIRY" /\ f.sev # "CRITICAL"

Broken(fs, i)  == \E f \in fs : Breaks(f, i)
Fragile(fs, i) == \E f \in fs : Warns(f, i)

\* The stage the call dies at; 0 when it goes through.
DiesAt(fs) == IF \E i \in 1..4 : Broken(fs, i)
              THEN CHOOSE i \in 1..4 : Broken(fs, i) /\ \A j \in 1..(i-1) : ~Broken(fs, j)
              ELSE 0

\* How a call that dies at stage i looks to its user.
DeathOutcome(fs, i) ==
  IF i \in {1, 2} THEN "NO_CONNECT"
  ELSE IF i = 3 THEN "REJECTED"
  ELSE IF \E f \in fs : f.id = "C.SRTP.DISABLED" THEN "NO_MEDIA" ELSE "ONE_WAY_AUDIO"

Dead      == {"NO_CONNECT", "REJECTED", "ONE_WAY_AUDIO", "NO_MEDIA"}
Outcomes  == Dead \cup {"STABLE", "DEGRADED"}

Outcome(fs) == IF DiesAt(fs) # 0 THEN DeathOutcome(fs, DiesAt(fs))
               ELSE IF \E i \in 1..4 : Fragile(fs, i) THEN "DEGRADED"
               ELSE "STABLE"
==============================================================================
