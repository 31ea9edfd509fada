------------------------------ MODULE MCGrants ------------------------------
(***************************************************************************)
(* Small instances of the OAuth service's grants for TLC: the code grant,  *)
(* the device grant, and the access tokens of the password grant and what  *)
(* revokes them.  The three share no state: no step of one enables,        *)
(* disables or observes a step of another, so each behaviour explores one. *)
(***************************************************************************)
EXTENDS MCAuthorizationCode, DeviceGrant, AccessRevocation

CONSTANTS ta, tb, ua, ub

VARIABLE grant  \* the grant this behaviour explores

MCTenantOf == (ua :> ta) @@ (ub :> tb)

\* Two polls of one code, one poll and two codes, or three codes that fill up
\* the limit.
DeviceBound == Cardinality(drawn) + Cardinality({p \in Polls : poll[p] # Unset}) <= 3

\* At most two of tokens that expired, tokens that escaped a revocation and
\* revocations of single tokens under way.
AccessBound == Cardinality({j \in Jtis : token[j] = "expired"})
                 + Cardinality({j \in Jtis : excuse[j] # "none"}) + Cardinality(marking) <= 2

MCInit == Init /\ DeviceInit /\ AccessInit /\ grant \in {"code", "device", "password"}
MCNext ==
  \/ grant = "code" /\ Next /\ UNCHANGED <<deviceVars, accessVars, grant>>
  \/ grant = "device" /\ DeviceNext /\ UNCHANGED <<vars, accessVars, grant>>
  \/ grant = "password" /\ AccessNext /\ UNCHANGED <<vars, deviceVars, grant>>
MCSpec == MCInit /\ [][MCNext]_<<vars, deviceVars, accessVars, grant>>
=============================================================================
