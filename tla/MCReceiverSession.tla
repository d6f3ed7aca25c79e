-------------------------- MODULE MCReceiverSession --------------------------
(* Instances of ReceiverSession for TLC. *)
EXTENDS ReceiverSession

\* The usual configuration, metadata alone, and FrameType::NONE.
Configured == {{"video", "audio"}, {"metadata"}, {}}
OnOff == {TRUE, FALSE}
=============================================================================
