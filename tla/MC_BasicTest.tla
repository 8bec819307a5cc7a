---------------------------- MODULE MC_BasicTest ----------------------------
(* The basic USB device test with the host timing of main.cpp's comment:   *)
(* a detach is noticed after 200 us.                                       *)
EXTENDS BasicTestResets

MCDetachDetectUs == 200
\* The greentea messages utest exchanges between two cases take longer
\* than the host needs to notice a detach.
MCCaseSwitchUs == 1000
\* The soft-reconnection case counts one reset per enumeration: 1 + 3 + 3.
MCMaxResets == 7
\* The host's device_reset_test handler resets the device three times and
\* checks it on the fourth request.
MCHostResets == 3
=============================================================================
