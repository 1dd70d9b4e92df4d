----------------------------- MODULE MCPlayback -----------------------------
EXTENDS Playback

Plan == [kind |-> "load", level |-> 1, target |-> 2, ramp |-> 0, dur |-> 1, fade |-> 0, parts |-> <<1>>,
         buffered |-> FALSE, threshold |-> 1, max |-> 4, retain |-> 0, expires |-> 3, playing |-> FALSE,
         budget |-> 4]
Envelope == [Plan EXCEPT !.kind = "automate", !.target = 3, !.ramp = 2, !.dur = 5, !.fade = 2, !.budget = 6]
Buffered == [Plan EXCEPT !.buffered = TRUE, !.parts = <<2, 2>>, !.max = 5, !.retain = 1]

MCPlans == {
  Envelope, [Envelope EXCEPT !.fade = 0, !.parts = <<1, 1>>, !.playing = TRUE],
  [Plan EXCEPT !.parts = <<2, 1>>],
  [Plan EXCEPT !.kind = "fade", !.level = 3, !.fade = 2], [Plan EXCEPT !.kind = "fade"],
  [Buffered EXCEPT !.kind = "session", !.parts = <<1, 1, 1, 1>>, !.max = 3, !.retain = 0, !.expires = 2, !.budget = 3],
  [Buffered EXCEPT !.kind = "automate", !.parts = <<1, 2>>, !.dur = 3, !.fade = 1]}
=============================================================================
