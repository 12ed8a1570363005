\* The owner wrote after the alert, and is rung all the same.
SPECIFICATION Spec
CONSTANTS
    Leads = {l1}
    Ringers = {w1}
    Delay = 1
    LastTime = 3
    MaxSlips = 0
PROPERTY SeenAlertsAreLeft
CHECK_DEADLOCK FALSE
