---------------------------- MODULE VoiceWatchdog ----------------------------
(***************************************************************************)
(* The voice health watchdog (voice/voiceHealthWatchdog.ts): one state per *)
(* subscribed, unmuted remote audio track, advanced by every stats sample. *)
(* Times are seconds before the current sample instead of timestamps.      *)
(***************************************************************************)
EXTENDS Integers

SAMPLE_INTERVAL == 2
STALE_AFTER == 5
L2_AFTER == 5

\* Ages are capped where no comparison tells them apart any more.
AgeCap == STALE_AFTER + L2_AFTER + 2
Never == -1
Age == 0..AgeCap

TrackHealth ==
  [quiet : Age,                  \* since lastProgressMs
   l1 : Age \cup {Never},        \* since lastL1AttemptMs
   l2 : BOOLEAN]                 \* lastL2AttemptMs is set
NoTrack == [quiet |-> Never, l1 |-> Never, l2 |-> FALSE]
Fresh == [quiet |-> 0, l1 |-> Never, l2 |-> FALSE]

Older(age) == IF age = Never THEN Never
              ELSE IF age + SAMPLE_INTERVAL > AgeCap THEN AgeCap
              ELSE age + SAMPLE_INTERVAL

\* The state a sample meets: the previous one, an interval later.
Aged(prev) == [quiet |-> Older(prev.quiet), l1 |-> Older(prev.l1), l2 |-> prev.l2]

\* Mutant: the second level does not wait for the first one to have had time.
evaluateTrackHealth_Eager(prev, progressed) ==
  LET now == Aged(prev) IN
  IF prev = NoTrack \/ progressed THEN [next |-> Fresh, action |-> "noop"]
  ELSE IF now.quiet < STALE_AFTER THEN [next |-> now, action |-> "noop"]
  ELSE IF now.l1 = Never
       THEN [next |-> [now EXCEPT !.l1 = 0], action |-> "restart-subscription"]
  ELSE IF ~now.l2
       THEN [next |-> [now EXCEPT !.l2 = TRUE], action |-> "reconnect-room"]
  ELSE [next |-> now, action |-> "noop"]

\* progressed: bytesReceived exceeds the last value that did.
evaluateTrackHealth(prev, progressed) ==
  LET now == Aged(prev) IN
  IF prev = NoTrack \/ progressed THEN [next |-> Fresh, action |-> "noop"]
  ELSE IF now.quiet < STALE_AFTER THEN [next |-> now, action |-> "noop"]
  ELSE IF now.l1 = Never
       THEN [next |-> [now EXCEPT !.l1 = 0], action |-> "restart-subscription"]
  ELSE IF now.l1 >= L2_AFTER /\ ~now.l2
       THEN [next |-> [now EXCEPT !.l2 = TRUE], action |-> "reconnect-room"]
  ELSE [next |-> now, action |-> "noop"]
=============================================================================
