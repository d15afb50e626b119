CONSTANTS
    c1 = c1
    s1 = s1
    s2 = s2
    Controllers <- MC_Controllers
    SwitchIds <- MC_SwitchIds
    InitAlarms <- MC_InitAlarmsZero
    AlarmWidth = 17
    UPPL_MAX_REP_CT = 1

SPECIFICATION DeleteSpec

INVARIANT ChildrenHaveSwitch
