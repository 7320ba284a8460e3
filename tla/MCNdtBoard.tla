------------------------------ MODULE MCNdtBoard -----------------------------
(***************************************************************************)
(* Instances of NdtBoard for TLC.  The record tags are interchangeable;    *)
(* burstsWhileHot counts, up to 2, the bursts driven since the MAX14808    *)
(* reported over-temperature.  In a build triggered over I2C the time      *)
(* decides nothing but the blinking of the LED, and runs only there.       *)
(***************************************************************************)
EXTENDS NdtBoard, TLC

VARIABLE burstsWhileHot

MCInit == Init /\ burstsWhileHot = 0

CountBursts ==
  burstsWhileHot' =
    IF ~hot' THEN 0
    ELSE IF hot /\ at = "burst" /\ at' # at /\ burstsWhileHot < 2
           THEN burstsWhileHot + 1
           ELSE burstsWhileHot

\* The board with the count; the steps of TLC are among its steps.
CountedSpec == MCInit /\ [][Next /\ CountBursts]_<<vars, burstsWhileHot>>

MCNext ==
  /\ Next
  /\ g_msTicks' # g_msTicks => s_state = "THERMAL_FAULT"
  /\ CountBursts

MCSpec == MCInit /\ [][MCNext]_<<vars, burstsWhileHot>>

Symmetry == Permutations(Recs)

\* The flag is only looked at between scans: a pulser that turns hot can be
\* driven by one more burst, the one already under way, and never by two.
OneBurstAfterHot == burstsWhileHot <= 1
=============================================================================
