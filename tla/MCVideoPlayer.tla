---------------------------- MODULE MCVideoPlayer ----------------------------
(* Instance of VideoPlayer for TLC: a video with a working audio sink, and  *)
(* an audio file on a machine whose sound card comes later.                *)
EXTENDS VideoPlayer

MCMedia == {[video |-> TRUE, bin |-> TRUE], [video |-> FALSE, bin |-> FALSE]}
==============================================================================
