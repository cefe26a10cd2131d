-------------------------------- MODULE Origins --------------------------------
(***************************************************************************)
(* The verification of a buyer's origin: added as pending, checked against *)
(* the site (DNS record, file or header), revoked by the buyer.  A check   *)
(* reads the row, asks the site, and then writes its result by id, so it   *)
(* may meet a revocation or another check on the way.                      *)
(***************************************************************************)
CONSTANTS Checkers    \* check requests that may be in progress at once

VARIABLES
  origin,      \* origins.status of the origin the bounties use
  checking,    \* the check requests that have read a pending row
  late         \* history: those of them that a revocation has overtaken

originVars == <<origin, checking, late>>

OriginTypeOK ==
  /\ origin \in {"absent", "pending", "verified", "revoked"}
  /\ checking \subseteq Checkers /\ late \subseteq checking

OriginInit == origin = "absent" /\ checking = {} /\ late = {}

\* A row is unique per organisation and origin: a revoked one cannot be added again.
AddOrigin ==
  /\ origin = "absent"
  /\ origin' = "pending"
  /\ UNCHANGED <<checking, late>>

\* Faulty: any row is checked, whatever its status.
CheckAnyOrigin(c) ==
  /\ origin # "absent" /\ c \notin checking
  /\ checking' = checking \cup {c}
  /\ UNCHANGED <<origin, late>>

CheckOrigin(c) ==
  /\ origin = "pending" /\ c \notin checking
  /\ checking' = checking \cup {c}
  /\ UNCHANGED <<origin, late>>

\* verifyOriginProof: the site shows the token, or not, or not in time.
Answers == {"verified", "pending"}

\* The site has answered: the result is written whatever the row has become.
FinishCheck(c) ==
  /\ c \in checking
  /\ checking' = checking \ {c}
  /\ late' = late \ {c}
  /\ origin' \in Answers

RevokeOrigin ==
  /\ origin # "absent"
  /\ origin' = "revoked"
  /\ late' = checking
  /\ UNCHANGED checking

OriginAllowed == origin = "verified"

OriginNext ==
  \/ AddOrigin \/ RevokeOrigin
  \/ \E c \in Checkers : CheckOrigin(c) \/ FinishCheck(c)
=============================================================================
