---------------------------- MODULE MC_KtSwitch ----------------------------
EXTENDS KtSwitch

CONSTANTS c1, s1, s2

MC_Controllers == {c1}
MC_SwitchIds == <<s1, s2>>
\* The alarm handler works on one row at a time.
MC_SwitchIdsOne == <<s1>>
\* 0, both switch alarms set, and bit 16 set (a word a driver may report).
MC_InitAlarms == {0, 3, 65536}
\* The oper-status and delete runs do not read the alarm word.
MC_InitAlarmsZero == {0}
=============================================================================
