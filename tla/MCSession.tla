---------------------------- MODULE MCSession ----------------------------
(* The instances of Session that TLC checks.                                *)
EXTENDS Session, TLC

\* The initiator's candidates are the ones that wait for an answer.
MCCandidates == ("initiator" :> 1) @@ ("responder" :> 0)
=============================================================================
