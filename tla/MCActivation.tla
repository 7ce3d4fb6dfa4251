---------------------------- MODULE MCActivation ----------------------------
\* Instance of Activation for TLC.
EXTENDS Activation, TLC

CONSTANTS m1, m2, t1, t2, s1, s2, d1
MCModels == {m1, m2}
MCTasks == {t1}
MCTwoTasks == {t1, t2}
MCAuxiliary == {t2}
MCOneSetter == {s1}
MCDeleters == {d1}
MCNobody == {}
=============================================================================
