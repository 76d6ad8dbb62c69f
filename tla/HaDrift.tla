------------------------------- MODULE HaDrift -------------------------------
(***************************************************************************)
(* ha_diff (validators/ha_drift.py): what differs between the Teams legs   *)
(* of an active node and its standby, or of a golden configuration and the *)
(* current one.  Names, addresses and certificates belong to the node and  *)
(* are not compared.                                                       *)
(*                                                                         *)
(* A definition named X_Y is the definition X with a bug Y.                *)
(***************************************************************************)
EXTENDS Validators

RolesOf(c) == {c.ifaces[i].role : i \in DOMAIN c.ifaces}

\* bool(...): a setting the source does not carry counts as off.
Truthy(tri) == tri = "on"
Mtls(t)     == t.tls # NoContext /\ Truthy(t.tls.mtls)

Introspectable(t) == t.tls # NoContext /\ t.tls.introspectable

TrustDrift(at, st) ==
  IF Introspectable(at) /\ Introspectable(st)
  THEN When(at.tls.roots # st.tls.roots, "HA.DRIFT.TRUST_STORE", "CRITICAL")
  ELSE When(TRUE, "HA.DRIFT.TRUST_STORE_UNVERIFIABLE", "LOW")

TeamsDrift_NoSrtp(at, st) ==
  TrustDrift(at, st)
  \cup When(at.transport # st.transport, "HA.DRIFT.TRANSPORT", "HIGH")
  \cup When(Mtls(at) # Mtls(st), "HA.DRIFT.MTLS", "HIGH")
  \cup When(at.keepalive # st.keepalive, "HA.DRIFT.KEEPALIVE", "MEDIUM")
  \cup When(at.normalized # st.normalized, "HA.DRIFT.NORMALIZATION", "MEDIUM")
  \cup When(at.codecs # st.codecs, "HA.DRIFT.CODECS", "MEDIUM")
  \cup When(at.dtmf # st.dtmf, "HA.DRIFT.DTMF", "LOW")
TeamsDrift(at, st) ==
  TrustDrift(at, st)
  \cup When(at.transport # st.transport, "HA.DRIFT.TRANSPORT", "HIGH")
  \cup When(Mtls(at) # Mtls(st), "HA.DRIFT.MTLS", "HIGH")
  \cup When(Truthy(at.srtp) # Truthy(st.srtp), "HA.DRIFT.SRTP", "HIGH")
  \cup When(at.keepalive # st.keepalive, "HA.DRIFT.KEEPALIVE", "MEDIUM")
  \cup When(at.normalized # st.normalized, "HA.DRIFT.NORMALIZATION", "MEDIUM")
  \cup When(at.codecs # st.codecs, "HA.DRIFT.CODECS", "MEDIUM")
  \cup When(at.dtmf # st.dtmf, "HA.DRIFT.DTMF", "LOW")

HaDiff(active, standby) ==
  When(RolesOf(active) # RolesOf(standby), "HA.DRIFT.ROLES", "MEDIUM")
  \cup IF HasTeams(active) /\ HasTeams(standby) THEN TeamsDrift(Teams(active), Teams(standby))
       ELSE When(TRUE, "HA.DRIFT.NO_TEAMS", "HIGH")
==============================================================================
