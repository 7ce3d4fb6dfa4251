---------------------------- MODULE MCIdleSwitch ----------------------------
\* Instance of IdleSwitch for TLC: a file with an id, one without, a precise
\* timeline and a realtime session.  Two tasks meet one set-default, or two
\* set-defaults one task.
EXTENDS IdleSwitch

CONSTANTS file, plain, timeline, stream, s1, s2

MCTasks == {file, plain, timeline, stream}

MCCasts ==
  {{file, stream, s1}, {plain, stream, s1}, {file, plain, s1}, {timeline, stream, s1}}
    \cup {{t, s1, s2} : t \in MCTasks}

\* Two set-defaults and no task.
MCSetters == {{s1, s2}}
=============================================================================
