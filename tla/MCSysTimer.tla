----------------------------- MODULE MCSysTimer ----------------------------
(* Instances of SysTimer for TLC.                                          *)
EXTENDS SysTimer

CONSTANTS storage, ap, peripheral, ledIsr, sdIsr

MCTasks == {storage, ap, peripheral}
MCPriority == [t \in MCTasks |-> CASE t = storage -> 21 [] t = ap -> 27
                                   [] t = peripheral -> 30]
MCTimers == {1, 3}
MCMountTimer == {1}
MCUserIsrs == {ledIsr, sdIsr}
MCLedIsr == {ledIsr}
MCOwner == [x \in Timers \cup UserIsrs |->
              CASE x = 3 -> ap [] x = ledIsr -> peripheral [] OTHER -> storage]
=============================================================================
