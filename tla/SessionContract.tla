-------------------------- MODULE SessionContract --------------------------
(***************************************************************************)
(* What AsyncNetworkServerEngine promises the class that implements        *)
(* ISessionEventHandler, one session at a time:                            *)
(*   - OnAccept is the first callback of a session and is called once;     *)
(*   - OnRecv is called any number of times, never beside another callback *)
(*     of the same session;                                                *)
(*   - OnRelease is the last callback and is called once.                  *)
(* The MMO server relies on it: its handlers use the character of a        *)
(* session without testing that FindCharacter found one.                   *)
(***************************************************************************)
CONSTANT Sessions

VARIABLE phase

Phases == {"none", "accepting", "open", "receiving", "releasing", "released"}

Init == phase = [s \in Sessions |-> "none"]

Step(s, from, to) ==
  /\ phase[s] = from
  /\ phase' = [phase EXCEPT ![s] = to]

OnAcceptStarts(s)  == Step(s, "none", "accepting")
OnAcceptReturns(s) == Step(s, "accepting", "open")
OnRecvStarts(s)    == Step(s, "open", "receiving")
OnRecvReturns(s)   == Step(s, "receiving", "open")
OnReleaseStarts(s) == Step(s, "open", "releasing")
OnReleaseReturns(s) == Step(s, "releasing", "released")

Next ==
  \E s \in Sessions :
    \/ OnAcceptStarts(s)  \/ OnAcceptReturns(s)
    \/ OnRecvStarts(s)    \/ OnRecvReturns(s)
    \/ OnReleaseStarts(s) \/ OnReleaseReturns(s)

Spec == Init /\ [][Next]_phase
=============================================================================
