---------------------------- MODULE MCStrategyLoop ----------------------------
(* StrategyLoop under two sets of assumptions; a behaviour has one of them.   *)
(*   "faulty": the constants of the configuration: a dashboard polls, requests *)
(*     fail, prices are missing and the process restarts, but no request      *)
(*     outlives its bar.                                                      *)
(*   "live": nothing fails, no dashboard is open and the scheduling is fair,  *)
(*     but a request may outlive its bar.                                     *)
EXTENDS StrategyLoop

VARIABLE part

Live == INSTANCE StrategyLoop WITH
  MaxBar <- 3, MaxRestarts <- 0, Failures <- FALSE, Outages <- FALSE, LateAnswers <- TRUE,
  Viewers <- {}

MCInit ==
  \/ part = "faulty" /\ Init
  \/ part = "live" /\ Live!Init
MCNext ==
  /\ part' = part
  /\ \/ part = "faulty" /\ Next
     \/ part = "live" /\ Live!Next

mcVars == <<part, vars>>
IsLive == part = "live" /\ part' = part

\* StrategyLoop!Fairness, of the fair part
MCSpec ==
  /\ MCInit /\ [][MCNext]_mcVars
  /\ WF_mcVars(IsLive /\ Live!Advance)
  /\ WF_mcVars(IsLive /\ Answer(loop))
  /\ WF_mcVars(IsLive /\ \E t \in tasks : RunTick(t))
  /\ WF_mcVars(IsLive /\ TopHeld) /\ WF_mcVars(IsLive /\ TopFlat)
  /\ WF_mcVars(IsLive /\ Live!LoopDone)
  /\ WF_mcVars(IsLive /\ CheckPrice)
  /\ WF_mcVars(IsLive /\ Executed)

\* The types of both parts, and the properties of StrategyLoop (see there), each under
\* the assumptions it needs.
TypesOK == IF part = "live" THEN Live!TypeOK ELSE TypeOK
BarsAccountedFor == IF part = "live" THEN Live!LostBarHasCause /\ UnwatchedAtMostOnce
                    ELSE LostBarHasCause
OnceInWindowUnlessLate == part = "faulty" => OneTickPerBar /\ TickInOwnWindow
StopActedOnWhenFair ==
  (part = "live" /\ held /\ breach /\ (pc = "sleep" => wake \in Live!Times)) ~> (~held \/ ~breach)
===============================================================================
