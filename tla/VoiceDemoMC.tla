----------------------------- MODULE VoiceDemoMC -----------------------------
(***************************************************************************)
(* Instances of VoiceDemo for TLC.                                         *)
(***************************************************************************)
EXTENDS VoiceDemo

Saved(demo, languages) ==
  [DefaultSettings EXCEPT !.demo = demo, !.multilingual = languages]

\* A device that was left in one of the demos with dialogs, or whose last Save
\* was cut short.
DialogFiles == {Saved("NORMAL", {"ZH"}), Saved("DIALOGIC_1", {"EN"}), Torn}

\* A page whose program stopped after the status and the next fields: what was
\* not reached reads as ones.
AllOnes == {[Saved("LED", Languages) EXCEPT !.timeout = MaxSamples, !.ptt = TRUE]}

=============================================================================
