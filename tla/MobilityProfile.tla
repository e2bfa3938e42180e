-------------------------- MODULE MobilityProfile --------------------------
(***************************************************************************)
(* The weighted slope that decides how much better a new antenna must hear *)
(* a tag before the tag moves there: internal/inventory/mobilityprofile.go.*)
(* Signal strengths are integers in the fixed point unit of                *)
(* CircularBuffer, times are integer milliseconds.                         *)
(***************************************************************************)
EXTENDS Integers

Profile == [slope : Int, threshold : Int, holdoff : Int, yIntercept : Int]

\* Mutant of NewMobilityProfile: the slope counts from the last read on.
NewMobilityProfileNoHoldoff(slope, threshold, holdoff) ==
  [slope |-> slope, threshold |-> threshold, holdoff |-> holdoff,
   yIntercept |-> threshold]

NewMobilityProfile(slope, threshold, holdoff) ==
  [slope      |-> slope,
   threshold  |-> threshold,
   holdoff    |-> holdoff,
   yIntercept |-> threshold - slope * holdoff]

\* Mutant of ComputeOffset: no ceiling.
ComputeOffsetUncapped(profile, referenceTimestamp, lastRead) ==
  profile.slope * (referenceTimestamp - lastRead) + profile.yIntercept

ComputeOffset(profile, referenceTimestamp, lastRead) ==
  LET offset == profile.slope * (referenceTimestamp - lastRead)
                  + profile.yIntercept
  IN IF offset > profile.threshold THEN profile.threshold ELSE offset

=============================================================================
