---------------------------- MODULE MCSendDevice ----------------------------
(* Three connect() calls, two locks; invitations with a STUN server only,  *)
(* with a relay, with one that some browsers refuse, alone and beside      *)
(* another, and with a URL that is not on the allowlist.                   *)
EXTENDS SendDevice

CONSTANTS stun, turn, tcp, other

MCInvitations ==
  {{{stun}}, {{stun}, {turn, tcp}}, {{stun, tcp}}, {{tcp}, {other}}}
=============================================================================
