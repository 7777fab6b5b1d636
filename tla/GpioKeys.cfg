CONSTANTS
    jz_button <- mc_button
    SYSRQ_ALT = 2
    KEY_POWER = 116
    POWER_COUNT = 2
    REBOOT_COUNT = 4
    Worker = {w1, w2}
SPECIFICATION FairSpec
INVARIANTS
    KeyMirror
PROPERTIES
    HeldAsksOnce
    ForcedRebootOnlyHeld
    HeldReboots
